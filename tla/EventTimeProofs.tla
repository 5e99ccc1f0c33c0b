--------------------------- MODULE EventTimeProofs ---------------------------
(***************************************************************************)
(* Proofs about EventTime and OperatorChain, for any keys, timestamps,     *)
(* sizes, slides and disorder, any number of records and of copies of one, *)
(* checkpoints and recoveries at any time, user functions that raise and   *)
(* any number of sends that fail.                                          *)
(***************************************************************************)
EXTENDS ChainInvariants, SequenceLemmas

\* What a record may have become when it comes to the window or the join.
RecordsAt(timestamp, side) == [key : Keys, timestamp : {timestamp}, side : {side}]

\* The state in which a recovery leaves the chain.
Saved == INSTANCE ChainInvariants WITH
    stream <- saved.stream, max_timestamp <- 0, emitted <- FALSE, pending <- None,
    highest <- saved.highest, in_order <- saved.in_order,
    watermark_timestamp <- saved.watermark_timestamp,
    window_state <- saved.window_state, fired <- saved.fired, discarded <- saved.discarded,
    left_buffer <- saved.left_buffer, right_buffer <- saved.right_buffer,
    joined <- saved.joined, missed <- saved.missed,
    outer_state <- behind_saved.outer_state, outer_fired <- behind_saved.outer_fired,
    count <- behind_saved.count, held <- behind_saved.held, cut <- behind_saved.cut
-----------------------------------------------------------------------------
(***************************************************************************)
(* The stateless operators.                                                *)
(***************************************************************************)

LEMMA ForEachType ==
    ASSUME NEW S, NEW n \in Nat, NEW choices, DOMAIN choices = 1 .. n,
           \A i \in 1 .. n : choices[i] \subseteq Seq(S)
    PROVE  ForEach(choices) \subseteq Seq(S)
<1> SUFFICES ASSUME NEW results,
                    results \in [DOMAIN choices -> UNION {choices[i] : i \in DOMAIN choices}],
                    \A i \in DOMAIN choices : results[i] \in choices[i]
             PROVE  FlattenSeq(results) \in Seq(S)
  BY DEF ForEach
<1>1. \A i \in 1 .. n : results[i] \in Seq(S)
  OBVIOUS
<1>2. results = [i \in 1 .. n |-> results[i]]
  OBVIOUS
<1>3. results \in Seq(Seq(S))
  BY <1>1, <1>2, IsASeq
<1> QED
  BY <1>3, FlattenSeqProperties

LEMMA FilteredType ==
    ASSUME NEW S, NEW records \in Seq(S)
    PROVE  Filtered(records) \subseteq Seq(S)
<1> DEFINE choices == [i \in DOMAIN records |-> FilterElement(records[i])]
<1>1. Len(records) \in Nat /\ DOMAIN choices = 1 .. Len(records)
  OBVIOUS
<1>2. ASSUME NEW i \in 1 .. Len(records) PROVE choices[i] \subseteq Seq(S)
  <2>1. <<records[i]>> \in Seq(S) /\ << >> \in Seq(S)
    OBVIOUS
  <2>2. choices[i] = {<<records[i]>>, << >>}
    BY DEF FilterElement, Dropped
  <2> QED
    BY <2>1, <2>2
<1> QED
  BY <1>1, <1>2, ForEachType DEF Filtered

LEMMA FlatMappedType ==
    ASSUME NEW S, NEW records \in Seq(S)
    PROVE  FlatMapped(records) \subseteq Seq(S)
<1> DEFINE choices == [i \in DOMAIN records |-> FlatMapElement(records[i])]
<1>1. Len(records) \in Nat /\ DOMAIN choices = 1 .. Len(records)
  OBVIOUS
<1>2. ASSUME NEW i \in 1 .. Len(records) PROVE choices[i] \subseteq Seq(S)
  <2>1. records[i] \in S
    OBVIOUS
  <2>2. ASSUME NEW n \in 0 .. MaxCopies PROVE [j \in 1 .. n |-> records[i]] \in Seq(S)
    <3>1. n \in Nat
      BY CopiesAssumption
    <3> QED
      BY <2>1, <3>1, IsASeq
  <2> QED
    BY <2>2 DEF FlatMapElement
<1> QED
  BY <1>1, <1>2, ForEachType DEF FlatMapped

LEMMA FrontElementType ==
    ASSUME NEW timestamp, NEW side,
           NEW records \in FrontElement([key |-> None, timestamp |-> timestamp, side |-> side])
    PROVE  records \in Seq(RecordsAt(timestamp, side))
<1> DEFINE record == [key |-> None, timestamp |-> timestamp, side |-> side]
<1>1. MapElement(record) \subseteq Seq({record})
  BY EmptySeq DEF MapElement, Dropped
<1>2. \A mapped \in MapElement(record) : Filtered(mapped) \subseteq Seq({record})
  BY <1>1, FilteredType
<1>3. PICK mapped \in MapElement(record) : \E kept \in Filtered(mapped) :
         \E copies \in FlatMapped(kept) : records \in Keyed(copies)
  BY DEF FrontElement
<1>4. PICK copies \in Seq({record}) : records \in Keyed(copies)
  BY <1>2, <1>3, FlatMappedType
<1> DEFINE choices == [i \in DOMAIN copies |-> KeyByElement(copies[i])]
<1>5. Len(copies) \in Nat /\ DOMAIN choices = 1 .. Len(copies)
  OBVIOUS
<1>6. ASSUME NEW i \in 1 .. Len(copies)
      PROVE  choices[i] \subseteq Seq(RecordsAt(timestamp, side))
  <2>1. copies[i] = record
    OBVIOUS
  <2>2. ASSUME NEW key \in Keys
        PROVE  <<[record EXCEPT !.key = key]>> \in Seq(RecordsAt(timestamp, side))
    <3>1. [record EXCEPT !.key = key] = [key |-> key, timestamp |-> timestamp, side |-> side]
      OBVIOUS
    <3>2. [record EXCEPT !.key = key] \in RecordsAt(timestamp, side)
      BY <3>1 DEF RecordsAt
    <3> QED
      BY <3>2
  <2>3. << >> \in Seq(RecordsAt(timestamp, side))
    OBVIOUS
  <2>4. choices[i] = {<<[record EXCEPT !.key = key]>> : key \in Keys} \cup {<< >>}
    BY <2>1 DEF KeyByElement, Dropped
  <2> QED
    BY <2>2, <2>3, <2>4
<1> QED
  BY <1>4, <1>5, <1>6, ForEachType DEF Keyed
-----------------------------------------------------------------------------
(***************************************************************************)
(* Windows and the grid of the slide.                                      *)
(***************************************************************************)

LEMMA AssignedHold ==
    ASSUME NEW timestamp \in Nat, NEW start \in AssignWindows(timestamp)
    PROVE  start \in Int /\ start <= timestamp /\ timestamp < start + size
<1>1. /\ (timestamp \div slide) * slide \in Int
      /\ (timestamp \div slide) * slide - size + slide \in Int
  BY EventTimeAssumption DEF EventTimeAssumption
<1> QED
  BY <1>1 DEF AssignWindows

LEMMA AssignedAreStarts ==
    ASSUME NEW timestamp \in Timestamps
    PROVE  AssignWindows(timestamp) \subseteq Starts
<1>1. timestamp \in Nat /\ 1 <= timestamp /\ timestamp <= MaxTime /\ MaxTime \in Nat /\ size \in Nat
  BY EventTimeAssumption DEF EventTimeAssumption, Timestamps
<1> QED
  BY <1>1, AssignedHold DEF Starts

\* The numbers on the grid.
LEMMA Multiples ==
    ASSUME NEW d \in Nat \ {0}, NEW n \in Int
    PROVE  n % d = 0 <=> \E m \in Int : n = m * d
<1>1. n \div d \in Int /\ n % d \in 0 .. d - 1 /\ n = d * (n \div d) + (n % d)
  OBVIOUS
<1>2. ASSUME NEW m \in Int, n = m * d PROVE n % d = 0
  <2>1. (m * d + 0) % d = 0
    OBVIOUS
  <2> QED
    BY <1>2, <2>1
<1>3. ASSUME n % d = 0 PROVE n = (n \div d) * d
  BY <1>1, <1>3
<1> QED
  BY <1>1, <1>2, <1>3

\* When the slide divides the size, the windows that a record is assigned are
\* all windows of the grid that hold it.
LEMMA AssignedAreAll ==
    ASSUME size % slide = 0, NEW timestamp \in Nat, NEW start \in Int
    PROVE  start \in AssignWindows(timestamp) <=>
              start <= timestamp /\ timestamp < start + size /\ start % slide = 0
<1> DEFINE d == slide
           q == timestamp \div d
           last == q * d
           first == last - size + d
<1>1. d \in Nat \ {0} /\ size \in Nat \ {0}
  BY EventTimeAssumption DEF EventTimeAssumption
<1>2. q \in Int /\ last \in Int /\ first \in Int
      /\ last <= timestamp /\ timestamp < last + d
  <2>1. q \in Int /\ timestamp % d \in 0 .. d - 1 /\ timestamp = d * q + (timestamp % d)
    BY <1>1
  <2> HIDE DEF q, d
  <2> QED
    BY <1>1, <2>1
<1>3. PICK k \in Int : size = k * d
  BY <1>1, Multiples
<1>4. start \in AssignWindows(timestamp) <=>
         /\ first <= start /\ start <= last /\ (start - first) % d = 0
         /\ start <= timestamp /\ timestamp < start + size
  BY <1>2 DEF AssignWindows
<1> HIDE DEF q, d, last
<1>5. first = (q - k + 1) * d
  BY <1>1, <1>2, <1>3 DEF last
<1>6. ASSUME (start - first) % d = 0 PROVE start % d = 0
  <2>1. PICK m \in Int : start - first = m * d
    BY <1>1, <1>2, <1>6, Multiples
  <2>2. start = (m + (q - k + 1)) * d
    BY <1>1, <1>2, <1>5, <2>1
  <2> QED
    BY <1>1, <1>2, <2>2, Multiples
<1>7. ASSUME start % d = 0, start <= timestamp, timestamp < start + size
      PROVE  first <= start /\ start <= last /\ (start - first) % d = 0
  <2>1. PICK j \in Int : start = j * d
    BY <1>1, <1>7, Multiples
  <2>2. start - first = (j - (q - k + 1)) * d
    BY <1>1, <1>2, <1>5, <2>1
  <2>3. (start - first) % d = 0
    <3>1. start - first \in Int /\ j - (q - k + 1) \in Int
      BY <1>1, <1>2
    <3>2. \E m \in Int : start - first = m * d
      BY <2>2, <3>1
    <3> HIDE DEF first
    <3> QED
      BY <1>1, <3>1, <3>2, Multiples
  <2>4. start <= last
    <3>1. SUFFICES ASSUME j >= q + 1 PROVE FALSE
      BY <1>1, <1>2, <2>1 DEF last
    <3>2. j * d >= q * d + d
      BY <1>1, <1>2, <3>1
    <3> QED
      BY <1>1, <1>2, <1>7, <2>1, <3>2 DEF last
  <2>5. first <= start
    <3>1. j * d > q * d - k * d
      BY <1>2, <1>3, <1>7, <2>1 DEF last
    <3>2. j >= q - k + 1
      <4>1. SUFFICES ASSUME j <= q - k PROVE FALSE
        BY <1>2
      <4>2. j * d <= (q - k) * d
        BY <1>1, <1>2, <4>1
      <4>3. (q - k) * d = q * d - k * d
        BY <1>1, <1>2
      <4> QED
        BY <1>1, <1>2, <3>1, <4>2, <4>3
    <3>3. j * d >= (q - k + 1) * d
      BY <1>1, <1>2, <3>2
    <3> QED
      BY <1>5, <2>1, <3>3
  <2> QED
    BY <2>3, <2>4, <2>5
<1> QED
  BY <1>4, <1>6, <1>7 DEF d
-----------------------------------------------------------------------------
(***************************************************************************)
(* The source's watermarks, and the windows.                               *)
(***************************************************************************)

LEMMA NextIs ==
    ASSUME [Next]_vars
    PROVE  \/ \E timestamp \in Timestamps, side \in Sides : Element(timestamp, side)
           \/ ProcessWatermark
           \/ Checkpoint
           \/ Recover
           \/ UNCHANGED vars
<1>1. ASSUME NEW input \in Inputs
      PROVE  input[1] \in Timestamps /\ input[2] \in Sides
  BY EventTimeAssumption DEF EventTimeAssumption
<1> QED
  BY <1>1 DEF Next

\* The watermark that is pending lets the windows in 'gone' go.
Fires(gone) ==
    /\ gone \subseteq Triggered
    /\ window_state' = [kw \in Keys \X Starts |-> IF kw \in gone THEN {} ELSE window_state[kw]]
    /\ \/ gone = Triggered /\ fired' = fired \cup ResultsOf(gone) /\ discarded' = discarded
       \/ fired' = fired /\ discarded' = discarded \cup ResultsOf(gone)

LEMMA WindowsFire ==
    ASSUME ProcessWatermark
    PROVE  /\ stream' = stream /\ highest' = highest /\ in_order' = in_order
           /\ \E gone : Fires(gone)
<1>1. CASE FireAll
  <2>1. Fires(Triggered)
    BY <1>1 DEF FireAll, RemoveAll, Fires
  <2> QED
    BY <2>1 DEF ProcessWatermark, source
<1>2. CASE ReduceRaises
  <2>1. PICK failing \in Reduced : \E gone \in SUBSET (Triggered \ {failing}) :
           discarded' = discarded \cup ResultsOf(gone) /\ RemoveAll(gone) /\ UNCHANGED fired
    BY <1>2 DEF ReduceRaises
  <2>2. PICK gone \in SUBSET (Triggered \ {failing}) :
           discarded' = discarded \cup ResultsOf(gone) /\ RemoveAll(gone) /\ UNCHANGED fired
    BY <2>1
  <2>3. Fires(gone)
    BY <2>2 DEF RemoveAll, Fires
  <2> QED
    BY <2>3 DEF ProcessWatermark, source
<1> QED
  BY <1>1, <1>2 DEF ProcessWatermark, WindowWatermark

\* The records that a step adds to the stream.
Added == DOMAIN stream' \ DOMAIN stream

LEMMA AppendedRecords ==
    ASSUME EventTypeOK, NEW timestamp \in Timestamps, NEW side \in Sides,
           NEW records \in Seq(RecordsAt(timestamp, side)), stream' = stream \o records
    PROVE  /\ stream' \in Seq(EventRecords)
           /\ DOMAIN stream \subseteq DOMAIN stream' /\ DOMAIN stream' \subseteq Nat
           /\ \A n \in DOMAIN stream : stream'[n] = stream[n]
           /\ Added = Arrived(records)
           /\ \A n \in Added :
                 /\ stream'[n] = records[n - Len(stream)]
                 /\ stream'[n].timestamp = timestamp /\ stream'[n].side = side
                 /\ stream'[n].key \in Keys
<1> DEFINE L == Len(stream)
           m == Len(records)
<1>1. records \in Seq(EventRecords)
  <2>1. RecordsAt(timestamp, side) \subseteq EventRecords
    BY DEF RecordsAt, EventRecords
  <2> QED
    BY <2>1, SeqMonotonic
<1>2. /\ L \in Nat /\ m \in Nat
      /\ stream' \in Seq(EventRecords)
      /\ DOMAIN stream = 1 .. L
      /\ DOMAIN stream' = 1 .. L + m
      /\ \A i \in 1 .. L + m : stream'[i] = IF i <= L THEN stream[i] ELSE records[i - L]
  BY <1>1, ConcatProperties, LenProperties DEF EventTypeOK
<1>3. \A i \in 1 .. m : records[i] \in RecordsAt(timestamp, side)
  OBVIOUS
<1> HIDE DEF L, m
<1>4. Added = L + 1 .. L + m
  BY <1>2 DEF Added
<1>5. \A n \in Added : stream'[n] = records[n - L] /\ n - L \in 1 .. m
  BY <1>2, <1>4
<1>6. \A n \in DOMAIN stream : stream'[n] = stream[n]
  BY <1>2
<1>7. DOMAIN stream \subseteq DOMAIN stream' /\ DOMAIN stream' \subseteq Nat
  BY <1>2
<1>8. \A n \in Added : stream'[n].timestamp = timestamp /\ stream'[n].side = side
                       /\ stream'[n].key \in Keys
  BY <1>3, <1>5 DEF RecordsAt
<1> QED
  BY <1>2, <1>4, <1>5, <1>6, <1>7, <1>8 DEF L, m, Arrived

\* What a step does that takes records to the window and the join.
LEMMA ElementStep ==
    ASSUME EventTypeOK, NEW timestamp \in Timestamps, NEW side \in Sides,
           Element(timestamp, side)
    PROVE  /\ stream' \in Seq(EventRecords)
           /\ DOMAIN stream \subseteq DOMAIN stream' /\ DOMAIN stream' \subseteq Nat
           /\ \A n \in DOMAIN stream : stream'[n] = stream[n]
           /\ \A n \in Added : stream'[n].timestamp = timestamp /\ stream'[n].side = side
                               /\ stream'[n].key \in Keys
           /\ window_state' = [kw \in Keys \X Starts |-> window_state[kw] \cup
                 {n \in Added : stream'[n].key = kw[1] /\ kw[2] \in AssignWindows(timestamp)}]
           /\ fired' = fired /\ discarded' = discarded
           /\ watermark_timestamp' = watermark_timestamp
           /\ Read(timestamp)
<1>1. PICK records \in FrontElement([key |-> None, timestamp |-> timestamp, side |-> side]) :
         stream' = stream \o records /\ WindowElements(records) /\ JoinElements(side, records)
  BY DEF Element
<1>2. records \in Seq(RecordsAt(timestamp, side))
  BY FrontElementType
<1>3. /\ stream' \in Seq(EventRecords)
      /\ DOMAIN stream \subseteq DOMAIN stream' /\ DOMAIN stream' \subseteq Nat
      /\ \A n \in DOMAIN stream : stream'[n] = stream[n]
      /\ Added = Arrived(records)
      /\ \A n \in Added :
            /\ stream'[n] = records[n - Len(stream)]
            /\ stream'[n].timestamp = timestamp /\ stream'[n].side = side
            /\ stream'[n].key \in Keys
  BY <1>1, <1>2, AppendedRecords
<1>4. \A kw : {n \in Arrived(records) :
                  LET record == records[n - Len(stream)] IN
                  record.key = kw[1] /\ kw[2] \in AssignWindows(record.timestamp)}
              = {n \in Added : stream'[n].key = kw[1] /\ kw[2] \in AssignWindows(timestamp)}
  BY <1>3
<1>5. window_state' = [kw \in Keys \X Starts |-> window_state[kw] \cup
         {n \in Added : stream'[n].key = kw[1] /\ kw[2] \in AssignWindows(timestamp)}]
  BY <1>1, <1>4 DEF WindowElements
<1> QED
  BY <1>1, <1>3, <1>5 DEF Element, WindowElements

LEMMA BufferStep ==
    ASSUME EventTypeOK, NEW timestamp \in Timestamps, NEW side \in Sides,
           Element(timestamp, side)
    PROVE  /\ left_buffer' = IF side = "left"
                THEN [k \in Keys |-> left_buffer[k] \cup {n \in Added : stream'[n].key = k}]
                ELSE left_buffer
           /\ right_buffer' = IF side = "left" THEN right_buffer
                ELSE [k \in Keys |-> right_buffer[k] \cup {n \in Added : stream'[n].key = k}]
<1>1. PICK records \in FrontElement([key |-> None, timestamp |-> timestamp, side |-> side]) :
         stream' = stream \o records /\ WindowElements(records) /\ JoinElements(side, records)
  BY DEF Element
<1>2. records \in Seq(RecordsAt(timestamp, side))
  BY FrontElementType
<1>3. /\ Added = Arrived(records)
      /\ \A n \in Added :
            /\ stream'[n] = records[n - Len(stream)]
            /\ stream'[n].timestamp = timestamp /\ stream'[n].side = side
            /\ stream'[n].key \in Keys
  BY <1>1, <1>2, AppendedRecords
<1> DEFINE arriving(k) == {n \in Arrived(records) : records[n - Len(stream)].key = k}
           adding(k) == {n \in Added : stream'[n].key = k}
<1>4. ASSUME NEW k PROVE arriving(k) = adding(k)
  BY <1>3
<1>5. ASSUME NEW buffer
      PROVE  Buffered(buffer, records) = [k \in Keys |-> buffer[k] \cup adding(k)]
  <2>1. Buffered(buffer, records) = [k \in Keys |-> buffer[k] \cup arriving(k)]
    BY DEF Buffered
  <2> HIDE DEF arriving, adding
  <2>2. \A k \in Keys : buffer[k] \cup arriving(k) = buffer[k] \cup adding(k)
    BY <1>4
  <2> QED
    BY <2>1, <2>2
<1> HIDE DEF arriving
<1> QED
  BY <1>1, <1>5 DEF JoinElements

LEMMA EventTypeInit == Init => EventTypeOK
<1>1. << >> \in Seq(EventRecords)
  OBVIOUS
<1>2. [kw \in Keys \X Starts |-> {}] \in [Keys \X Starts -> SUBSET Nat]
      /\ [k \in Keys |-> {}] \in [Keys -> SUBSET Nat]
  OBVIOUS
<1> SUFFICES ASSUME Init PROVE EventTypeOK
  OBVIOUS
<1>3. stream \in Seq(EventRecords) /\ window_state \in [Keys \X Starts -> SUBSET Nat]
      /\ left_buffer \in [Keys -> SUBSET Nat] /\ right_buffer \in [Keys -> SUBSET Nat]
  BY <1>1, <1>2 DEF Init
<1>4. emitted \in BOOLEAN /\ in_order \in BOOLEAN
  BY Zenon DEF Init
<1>5. max_timestamp \in Nat /\ highest \in Nat /\ pending \in Int \cup {None}
      /\ watermark_timestamp \in Int /\ fired = {} /\ discarded = {}
  BY DEF Init
<1> QED
  BY <1>3, <1>4, <1>5 DEF EventTypeOK

LEMMA EventTypeNext ==
    EventTypeOK /\ Saved!EventTypeOK /\ [Next]_vars => EventTypeOK'
<1> SUFFICES ASSUME EventTypeOK, Saved!EventTypeOK, [Next]_vars PROVE EventTypeOK'
  OBVIOUS
<1> USE EventTimeAssumption DEF EventTimeAssumption
<1>1. ASSUME NEW timestamp \in Timestamps, NEW side \in Sides, Element(timestamp, side)
      PROVE  EventTypeOK'
  <2>1. /\ stream' \in Seq(EventRecords)
        /\ Added \subseteq Nat
        /\ window_state' = [kw \in Keys \X Starts |-> window_state[kw] \cup
              {n \in Added : stream'[n].key = kw[1] /\ kw[2] \in AssignWindows(timestamp)}]
        /\ fired' = fired /\ discarded' = discarded
        /\ watermark_timestamp' = watermark_timestamp
        /\ Read(timestamp)
    BY <1>1, ElementStep DEF Added
  <2>2. window_state' \in [Keys \X Starts -> SUBSET Nat]
    BY <2>1 DEF EventTypeOK
  <2>3. left_buffer' \in [Keys -> SUBSET Nat] /\ right_buffer' \in [Keys -> SUBSET Nat]
    BY <1>1, <2>1, BufferStep DEF EventTypeOK
  <2>4. /\ max_timestamp' \in Nat /\ highest' \in Nat
        /\ emitted' \in BOOLEAN
        /\ pending' \in Int \cup {None}
    <3>1. timestamp \in Nat
      BY DEF Timestamps
    <3> QED
      BY <2>1, <3>1 DEF EventTypeOK, Read, Emit, OnEvent, PeriodicEmit
  <2>5. in_order' \in BOOLEAN
    BY <2>1 DEF Read
  <2> QED
    BY <2>1, <2>2, <2>3, <2>4, <2>5 DEF EventTypeOK
<1>2. CASE ProcessWatermark
  <2>1. PICK gone : Fires(gone)
    BY <1>2, WindowsFire
  <2>2. window_state' \in [Keys \X Starts -> SUBSET Nat]
    BY <2>1 DEF EventTypeOK, Fires
  <2>3. fired' \cup discarded' \subseteq [key : Keys, start : Starts, values : SUBSET Nat]
    <3>1. ResultsOf(gone) \subseteq [key : Keys, start : Starts, values : SUBSET Nat]
      BY <2>1 DEF ResultsOf, Fires, Triggered, EventTypeOK
    <3> QED
      BY <2>1, <3>1 DEF EventTypeOK, Fires
  <2>4. left_buffer' \in [Keys -> SUBSET Nat] /\ right_buffer' \in [Keys -> SUBSET Nat]
    BY <1>2 DEF ProcessWatermark, JoinWatermark, CleanUp, EventTypeOK
  <2>5. UNCHANGED source /\ pending' = None /\ watermark_timestamp' = pending /\ pending # None
    BY <1>2 DEF ProcessWatermark
  <2> QED
    BY <2>2, <2>3, <2>4, <2>5 DEF EventTypeOK, source
<1>3. CASE Recover
  <2>1. 0 \in Nat
    OBVIOUS
  <2>2. emitted' \in BOOLEAN
    BY <1>3, Zenon DEF Recover
  <2> QED
    BY <1>3, <2>1, <2>2 DEF Recover, EventTypeOK, Saved!EventTypeOK, EventRecords, Saved!EventRecords,
       Timestamps, Saved!Timestamps, Sides, Saved!Sides, Starts, Saved!Starts
<1>4. CASE Checkpoint \/ UNCHANGED vars
  BY <1>4 DEF Checkpoint, vars, source, windows, join, EventTypeOK
<1> QED
  BY <1>1, <1>2, <1>3, <1>4, NextIs

\* What Read does to the numbers that watermarks are made from.
LEMMA ReadStep ==
    ASSUME EventTypeOK, NEW timestamp \in Timestamps, Read(timestamp)
    PROVE  /\ timestamp \in Nat
           /\ {max_timestamp, max_timestamp', highest, highest'} \subseteq Nat
           /\ max_timestamp <= max_timestamp' /\ highest <= highest'
           /\ max_timestamp <= highest => max_timestamp' <= highest'
           /\ timestamp <= max_timestamp'
           /\ pending = None
           /\ \/ pending' = max_timestamp' - max_out_of_orderness /\ pending' # None
              \/ pending' = None /\ emitted /\ emitted'
<1>1. timestamp \in Nat /\ max_timestamp \in Nat /\ highest \in Nat /\ max_out_of_orderness \in Nat
      /\ None \notin Int
  BY EventTimeAssumption DEF EventTimeAssumption, EventTypeOK, Timestamps
<1>2. /\ max_timestamp' = IF timestamp > max_timestamp THEN timestamp ELSE max_timestamp
      /\ highest' = IF timestamp > highest THEN timestamp ELSE highest
      /\ pending = None
      /\ \/ pending' = max_timestamp' - max_out_of_orderness
         \/ pending' = None /\ emitted /\ emitted'
  BY DEF Read, OnEvent, Emit, PeriodicEmit
<1>3. max_timestamp' \in Nat /\ highest' \in Nat
  BY <1>1, <1>2
<1>4. max_timestamp' - max_out_of_orderness # None
  BY <1>1, <1>3
<1> QED
  BY <1>1, <1>2, <1>3, <1>4

LEMMA WatermarksHoldNext ==
    EventTypeOK /\ WatermarksHold /\ Saved!WatermarksHold /\ [Next]_vars => WatermarksHold'
<1> SUFFICES ASSUME EventTypeOK, WatermarksHold, Saved!WatermarksHold, [Next]_vars
             PROVE  WatermarksHold'
  OBVIOUS
<1>1. max_out_of_orderness \in Nat /\ None \notin Int
  BY EventTimeAssumption DEF EventTimeAssumption
<1>2. max_timestamp \in Nat /\ highest \in Nat /\ watermark_timestamp \in Int
      /\ pending \in Int \cup {None}
  BY DEF EventTypeOK
<1> USE <1>1, <1>2 DEF WatermarksHold
<1>3. ASSUME NEW timestamp \in Timestamps, NEW side \in Sides, Element(timestamp, side)
      PROVE  WatermarksHold'
  <2>1. Read(timestamp) /\ watermark_timestamp' = watermark_timestamp
    BY <1>3 DEF Element
  <2>2. /\ {max_timestamp', highest'} \subseteq Nat
        /\ max_timestamp <= max_timestamp' /\ highest <= highest'
        /\ max_timestamp <= highest => max_timestamp' <= highest'
        /\ pending = None
        /\ \/ pending' = max_timestamp' - max_out_of_orderness /\ pending' # None
           \/ pending' = None /\ emitted /\ emitted'
    BY <2>1, ReadStep
  <2> QED
    BY <2>1, <2>2
<1>4. CASE ProcessWatermark
  BY <1>4 DEF ProcessWatermark, source
<1>5. CASE Recover
  BY <1>5 DEF Recover, Saved!WatermarksHold
<1>6. CASE Checkpoint \/ UNCHANGED vars
  BY <1>6 DEF Checkpoint, vars, source
<1> QED
  BY <1>3, <1>4, <1>5, <1>6, NextIs

-----------------------------------------------------------------------------
(***************************************************************************)
(* The windows' results.                                                   *)
(***************************************************************************)

LEMMA WindowsGrow ==
    ASSUME EventTypeOK, NEW timestamp \in Timestamps, NEW side \in Sides,
           Element(timestamp, side), NEW key \in Keys, NEW start \in Starts
    PROVE  window_state'[<<key, start>>] = window_state[<<key, start>>] \cup
              {n \in Added : stream'[n].key = key /\ start \in AssignWindows(timestamp)}
BY ElementStep

\* The results that windows make which the pending watermark lets go.
LEMMA ResultIs ==
    ASSUME NEW gone \in SUBSET Triggered, NEW r \in ResultsOf(gone)
    PROVE  /\ r.key \in Keys /\ r.start \in Starts
           /\ <<r.key, r.start>> \in gone
           /\ r.values = window_state[<<r.key, r.start>>] /\ r.values # {}
           /\ r = [key |-> r.key, start |-> r.start, values |-> r.values]
           /\ r.start + size <= pending
<1>1. PICK kw \in gone : r = [key |-> kw[1], start |-> kw[2], values |-> window_state[kw]]
  BY DEF ResultsOf
<1>2. /\ kw[1] \in Keys /\ kw[2] \in Starts /\ kw = <<kw[1], kw[2]>>
      /\ window_state[kw] # {} /\ kw[2] + size <= pending
  BY DEF Triggered, Complete
<1>3. r.key = kw[1] /\ r.start = kw[2] /\ r.values = window_state[kw]
  BY <1>1
<1> QED
  BY <1>1, <1>2, <1>3

LEMMA ResultFor ==
    ASSUME NEW gone, NEW key, NEW start, <<key, start>> \in gone
    PROVE  [key |-> key, start |-> start, values |-> window_state[<<key, start>>]]
              \in ResultsOf(gone)
BY DEF ResultsOf

LEMMA WindowsEmpty ==
    ASSUME NEW gone, Fires(gone), NEW key \in Keys, NEW start \in Starts
    PROVE  /\ window_state'[<<key, start>>] =
                 IF <<key, start>> \in gone THEN {} ELSE window_state[<<key, start>>]
           /\ <<key, start>> \in Triggered <=>
                 window_state[<<key, start>>] # {} /\ start + size <= pending
BY DEF Fires, Triggered, Complete

\* What is made in a step was not made before.
LEMMA ResultsAreNew ==
    ASSUME WindowsHold, NEW gone \in SUBSET Triggered
    PROVE  ResultsOf(gone) \cap Made = {}
<1> SUFFICES ASSUME NEW r \in ResultsOf(gone), r \in Made PROVE FALSE
  OBVIOUS
<1>1. r.values = window_state[<<r.key, r.start>>] /\ r.values # {}
  BY ResultIs
<1>2. r.values \cap window_state[<<r.key, r.start>>] = {}
  BY DEF WindowsHold
<1> QED
  BY <1>1, <1>2

LEMMA WindowsHoldElement ==
    ASSUME EventTypeOK, WindowsHold, NEW timestamp \in Timestamps, NEW side \in Sides,
           Element(timestamp, side)
    PROVE  WindowsHold'
<1>1. /\ DOMAIN stream \subseteq DOMAIN stream'
      /\ \A n \in DOMAIN stream : stream'[n] = stream[n]
      /\ \A n \in Added : stream'[n].timestamp = timestamp /\ stream'[n].key \in Keys
      /\ fired' = fired /\ discarded' = discarded
  BY ElementStep
<1>2. \A key \in Keys, start \in Starts :
         window_state'[<<key, start>>] = window_state[<<key, start>>] \cup
            {n \in Added : stream'[n].key = key /\ start \in AssignWindows(timestamp)}
  BY WindowsGrow
<1>3. \A n \in DOMAIN stream : \A key, start : Belongs(n, key, start)' <=> Belongs(n, key, start)
  BY <1>1 DEF Belongs, Time
<1>4. \A n \in Added : \A key, start : Belongs(n, key, start)' <=>
         stream'[n].key = key /\ start \in AssignWindows(timestamp)
  BY <1>1 DEF Belongs, Time
<1>5. \A r \in Made : r.key \in Keys /\ r.start \in Starts
  BY DEF EventTypeOK, Made
<1>6. DOMAIN stream' = DOMAIN stream \cup Added /\ DOMAIN stream \cap Added = {}
  BY <1>1 DEF Added
<1>7. ASSUME NEW key \in Keys, NEW start \in Starts
      PROVE  window_state'[<<key, start>>] \subseteq {n \in DOMAIN stream' : Belongs(n, key, start)'}
  BY <1>2, <1>3, <1>4, <1>6 DEF WindowsHold
<1>8. ASSUME NEW r \in Made
      PROVE  /\ r.values \subseteq {n \in DOMAIN stream' : Belongs(n, r.key, r.start)'}
             /\ r.values \cap window_state'[<<r.key, r.start>>] = {}
  <2>1. r.values \subseteq DOMAIN stream
    BY DEF WindowsHold
  <2>2. r.values \subseteq {n \in DOMAIN stream' : Belongs(n, r.key, r.start)'}
    BY <1>1, <1>3, <2>1 DEF WindowsHold
  <2>3. r.values \cap window_state'[<<r.key, r.start>>] = {}
    BY <1>2, <1>5, <1>6, <2>1 DEF WindowsHold
  <2> QED
    BY <2>2, <2>3
<1>9. ASSUME NEW n \in DOMAIN stream', NEW start \in Starts, Belongs(n, stream[n].key, start)'
      PROVE  \/ n \in window_state'[<<stream'[n].key, start>>]
             \/ \E r \in Made : r.key = stream'[n].key /\ r.start = start /\ n \in r.values
  <2>1. CASE n \in Added
    BY <1>1, <1>2, <1>4, <1>9, <2>1
  <2>2. CASE n \in DOMAIN stream
    <3>1. stream[n] \in EventRecords
      BY <2>2 DEF EventTypeOK
    <3>2. stream'[n] = stream[n]
      BY <1>1, <2>2
    <3>3. stream[n].key \in Keys /\ Belongs(n, stream[n].key, start)
      BY <1>3, <1>9, <2>2, <3>1, <3>2 DEF EventRecords, Belongs, Time
    <3> QED
      BY <1>2, <2>2, <3>2, <3>3 DEF WindowsHold
  <2> QED
    BY <1>6, <2>1, <2>2
<1>10. Made' = Made
  BY <1>1 DEF Made
<1> QED
  BY <1>1, <1>7, <1>8, <1>9, <1>10 DEF WindowsHold

LEMMA WindowsHoldWatermark ==
    ASSUME EventTypeOK, WindowsHold, ProcessWatermark
    PROVE  WindowsHold'
<1>1. PICK gone : Fires(gone)
  BY WindowsFire
<1>2. stream' = stream
  BY WindowsFire
<1>3. gone \in SUBSET Triggered /\ Made' = Made \cup ResultsOf(gone)
  BY <1>1 DEF Fires, Made
<1>4. \A key \in Keys, start \in Starts :
         /\ window_state'[<<key, start>>] =
               IF <<key, start>> \in gone THEN {} ELSE window_state[<<key, start>>]
         /\ <<key, start>> \in Triggered <=>
               window_state[<<key, start>>] # {} /\ start + size <= pending
  BY <1>1, WindowsEmpty
<1>5. \A n, key, start : Belongs(n, key, start)' <=> Belongs(n, key, start)
  BY <1>2 DEF Belongs, Time
<1>6. \A r \in ResultsOf(gone) :
         /\ r.key \in Keys /\ r.start \in Starts
         /\ <<r.key, r.start>> \in gone
         /\ r.values = window_state[<<r.key, r.start>>]
         /\ r = [key |-> r.key, start |-> r.start, values |-> r.values]
  BY <1>3, ResultIs
<1>7. \A r \in Made : r.key \in Keys /\ r.start \in Starts
  BY DEF EventTypeOK, Made
<1>8. ASSUME NEW key \in Keys, NEW start \in Starts
      PROVE  window_state'[<<key, start>>] \subseteq {n \in DOMAIN stream' : Belongs(n, key, start)'}
  BY <1>2, <1>4, <1>5 DEF WindowsHold
<1>9. ASSUME NEW r \in Made'
      PROVE  /\ r.values \subseteq {n \in DOMAIN stream' : Belongs(n, r.key, r.start)'}
             /\ r.values \cap window_state'[<<r.key, r.start>>] = {}
  <2>1. CASE r \in Made
    BY <1>2, <1>4, <1>5, <1>7, <2>1 DEF WindowsHold
  <2>2. CASE r \in ResultsOf(gone)
    BY <1>2, <1>4, <1>5, <1>6, <2>2 DEF WindowsHold
  <2> QED
    BY <1>3, <2>1, <2>2
<1>10. ASSUME NEW r1 \in Made', NEW r2 \in Made',
              r1.key = r2.key, r1.start = r2.start, r1.values \cap r2.values # {}
       PROVE  r1 = r2
  <2>1. CASE r1 \in Made /\ r2 \in Made
    BY <1>10, <2>1 DEF WindowsHold
  <2>2. CASE r1 \in ResultsOf(gone) /\ r2 \in ResultsOf(gone)
    BY <1>6, <1>10, <2>2
  <2>3. ASSUME NEW old \in Made, NEW new \in ResultsOf(gone),
               old.key = new.key, old.start = new.start
        PROVE  old.values \cap new.values = {}
    <3>1. old.values \cap window_state[<<old.key, old.start>>] = {}
      BY DEF WindowsHold
    <3>2. new.values = window_state[<<new.key, new.start>>]
      BY <1>6
    <3> QED
      BY <2>3, <3>1, <3>2
  <2>4. ~ (r1 \in Made /\ r2 \in ResultsOf(gone)) /\ ~ (r1 \in ResultsOf(gone) /\ r2 \in Made)
    BY <1>10, <2>3
  <2> QED
    BY <1>3, <2>1, <2>2, <2>3, <2>4
<1>11. ASSUME NEW n \in DOMAIN stream, NEW start \in Starts, Belongs(n, stream[n].key, start)
       PROVE  \/ n \in window_state'[<<stream[n].key, start>>]
              \/ \E r \in Made' : r.key = stream[n].key /\ r.start = start /\ n \in r.values
  <2> DEFINE key == stream[n].key
             result == [key |-> key, start |-> start, values |-> window_state[<<key, start>>]]
  <2>1. key \in Keys
    <3>1. stream[n] \in EventRecords
      BY DEF EventTypeOK
    <3> QED
      BY <3>1 DEF EventRecords
  <2>2. CASE n \in window_state[<<key, start>>] /\ <<key, start>> \in gone
    <3>1. result \in ResultsOf(gone)
      BY <2>2, ResultFor
    <3>2. result.key = key /\ result.start = start /\ n \in result.values
      BY <2>2
    <3> QED
      BY <1>3, <3>1, <3>2
  <2>3. CASE n \in window_state[<<key, start>>] /\ <<key, start>> \notin gone
    BY <1>4, <2>1, <2>3
  <2>4. CASE n \notin window_state[<<key, start>>]
    BY <1>3, <1>11, <2>4 DEF WindowsHold
  <2> QED
    BY <2>2, <2>3, <2>4
<1>12. fired' \cap discarded' = {}
  <2>1. ResultsOf(gone) \cap Made = {} /\ fired \cap discarded = {}
    BY <1>3, ResultsAreNew DEF WindowsHold
  <2> QED
    BY <1>1, <2>1 DEF Fires, Made
<1> QED
  BY <1>2, <1>5, <1>8, <1>9, <1>10, <1>11, <1>12 DEF WindowsHold

LEMMA WindowsHoldNext ==
    EventTypeOK /\ WindowsHold /\ Saved!WindowsHold /\ [Next]_vars => WindowsHold'
<1> SUFFICES ASSUME EventTypeOK, WindowsHold, Saved!WindowsHold, [Next]_vars PROVE WindowsHold'
  OBVIOUS
<1>1. CASE Checkpoint \/ UNCHANGED vars
  BY <1>1 DEF Checkpoint, vars, source, windows, WindowsHold, Made, Belongs, Time
<1>2. CASE Recover
  BY <1>2 DEF Recover, WindowsHold, Made, Belongs, Starts, AssignWindows, Time, Saved!WindowsHold,
     Saved!Made, Saved!Belongs, Saved!Starts, Saved!AssignWindows, Saved!Time
<1> QED
  BY <1>1, <1>2, NextIs, WindowsHoldElement, WindowsHoldWatermark

\* Within the disorder allowed, a record comes to no window that has fired.
LEMMA InOrderIsLater ==
    ASSUME EventTypeOK, NEW timestamp \in Timestamps, Read(timestamp), in_order',
           NEW end \in Int, end <= highest - max_out_of_orderness
    PROVE  in_order /\ end <= timestamp /\ end <= highest' - max_out_of_orderness
<1>1. highest - timestamp <= max_out_of_orderness /\ in_order
  BY DEF Read
<1>2. timestamp \in Nat /\ highest \in Nat /\ highest' \in Nat /\ highest <= highest'
  BY ReadStep
<1>3. max_out_of_orderness \in Nat
  BY EventTimeAssumption DEF EventTimeAssumption
<1>4. end <= timestamp /\ end <= highest' - max_out_of_orderness
  <2>1. highest - timestamp <= max_out_of_orderness
    BY <1>1
  <2>2. \A h, i, t, d \in Int : end <= h - d /\ h - t <= d /\ h <= i => end <= t /\ end <= i - d
    OBVIOUS
  <2>3. {highest, highest', timestamp, max_out_of_orderness} \subseteq Int
    BY <1>2, <1>3
  <2> QED
    BY <1>2, <2>1, <2>2, <2>3
<1> QED
  BY <1>1, <1>4

LEMMA StartsAreInt == size \in Nat /\ \A start \in Starts : start \in Int
BY EventTimeAssumption DEF EventTimeAssumption, Starts

LEMMA MadeNextElement ==
    ASSUME EventInvariant, NEW timestamp \in Timestamps, NEW side \in Sides,
           Element(timestamp, side)
    PROVE  MadeAreOver' /\ MadeComplete'
<1> USE DEF EventInvariant
<1>1. /\ DOMAIN stream \subseteq DOMAIN stream'
      /\ \A n \in DOMAIN stream : stream'[n] = stream[n]
      /\ \A n \in Added : stream'[n].timestamp = timestamp
      /\ fired' = fired /\ discarded' = discarded /\ Made' = Made
      /\ Read(timestamp)
  BY ElementStep DEF Made
<1>2. highest <= highest' /\ highest \in Nat /\ highest' \in Nat /\ timestamp \in Nat
      /\ max_out_of_orderness \in Nat
  BY <1>1, ReadStep, EventTimeAssumption DEF EventTimeAssumption
<1>3. \A r \in Made : r.start \in Int /\ size \in Nat
                       /\ r.start + size <= highest - max_out_of_orderness
  BY StartsAreInt DEF EventTypeOK, Made, MadeAreOver
<1>4. MadeAreOver'
  BY <1>1, <1>2, <1>3 DEF MadeAreOver
<1>5. ASSUME in_order', NEW r \in Made
      PROVE  r.values = {n \in DOMAIN stream' : Belongs(n, r.key, r.start)'}
  <2>1. in_order /\ r.start + size <= timestamp
    <3>1. r.start + size \in Int
      BY <1>3
    <3> QED
      BY <1>1, <1>3, <1>5, <3>1, InOrderIsLater
  <2>2. r.start \notin AssignWindows(timestamp)
    BY <1>2, <1>3, <2>1, AssignedHold
  <2>3. \A n \in Added : ~ Belongs(n, r.key, r.start)'
    BY <1>1, <2>2 DEF Belongs, Time
  <2>4. \A n \in DOMAIN stream : Belongs(n, r.key, r.start)' <=> Belongs(n, r.key, r.start)
    BY <1>1 DEF Belongs, Time
  <2>5. r.values = {n \in DOMAIN stream : Belongs(n, r.key, r.start)}
    BY <2>1 DEF MadeComplete
  <2> QED
    BY <1>1, <2>3, <2>4, <2>5 DEF Added
<1> QED
  BY <1>1, <1>4, <1>5 DEF MadeComplete

LEMMA MadeNextWatermark ==
    ASSUME EventInvariant, ProcessWatermark
    PROVE  MadeAreOver' /\ MadeComplete'
<1> USE DEF EventInvariant
<1>1. stream' = stream /\ highest' = highest /\ in_order' = in_order /\ \E gone : Fires(gone)
  BY WindowsFire
<1> PICK gone : Fires(gone)
  BY <1>1
<1> DEFINE new == ResultsOf(gone)
<1>2. /\ Made' = Made \cup new
      /\ \A r \in new :
            /\ r.key \in Keys /\ r.start \in Starts
            /\ r.values = window_state[<<r.key, r.start>>] /\ r.values # {}
            /\ r.start + size <= pending
  BY ResultIs DEF Fires, Made
<1> HIDE DEF new
<1>3. pending <= highest - max_out_of_orderness /\ pending \in Int /\ highest \in Nat
      /\ max_out_of_orderness \in Nat
  BY EventTimeAssumption
  DEF EventTimeAssumption, ProcessWatermark, WatermarksHold, EventTypeOK
<1>4. MadeAreOver'
  <2>1. \A r \in new : r.values # {} /\ r.start + size <= highest - max_out_of_orderness
    <3> SUFFICES ASSUME NEW r \in new
                 PROVE  r.values # {} /\ r.start + size <= highest - max_out_of_orderness
      OBVIOUS
    <3>1. r.start \in Int /\ size \in Int
      <4>1. r.start \in Starts
        BY <1>2
      <4> QED
        BY <4>1, StartsAreInt
    <3>2. r.start + size <= pending /\ r.values # {}
      BY <1>2
    <3>3. r.start + size <= highest - max_out_of_orderness
      BY <1>3, <3>1, <3>2
    <3> QED
      BY <3>2, <3>3
  <2> QED
    BY <1>1, <1>2, <2>1 DEF MadeAreOver
<1>5. \A n, key, start : Belongs(n, key, start)' <=> Belongs(n, key, start)
  BY <1>1 DEF Belongs, Time
<1>6. ASSUME in_order, NEW r \in new
      PROVE  r.values = {n \in DOMAIN stream : Belongs(n, r.key, r.start)}
  <2>1. r.values \subseteq {n \in DOMAIN stream : Belongs(n, r.key, r.start)}
    BY <1>2 DEF WindowsHold
  <2>2. ASSUME NEW n \in DOMAIN stream, Belongs(n, r.key, r.start), n \notin r.values
        PROVE  FALSE
    <3>1. stream[n].key = r.key
      BY <2>2 DEF Belongs
    <3>2. PICK old \in Made : old.key = r.key /\ old.start = r.start /\ n \in old.values
      <4>1. r.start \in Starts /\ r.values = window_state[<<r.key, r.start>>]
        BY <1>2
      <4>2. Belongs(n, stream[n].key, r.start) /\ n \notin window_state[<<stream[n].key, r.start>>]
        BY <2>2, <3>1, <4>1
      <4>3. \E o \in Made : o.key = stream[n].key /\ o.start = r.start /\ n \in o.values
        BY <4>1, <4>2 DEF WindowsHold
      <4> QED
        BY <3>1, <4>3
    <3>3. old.values = {m \in DOMAIN stream : Belongs(m, r.key, r.start)}
      BY <1>6, <3>2 DEF MadeComplete
    <3>4. old.values \cap r.values = {}
      <4>1. old.values \cap window_state[<<old.key, old.start>>] = {}
        BY <3>2 DEF WindowsHold
      <4>2. r.values = window_state[<<r.key, r.start>>]
        BY <1>2
      <4> QED
        BY <3>2, <4>1, <4>2
    <3> QED
      BY <1>2, <2>1, <3>3, <3>4
  <2> QED
    BY <2>1, <2>2
<1>7. MadeComplete'
  BY <1>1, <1>2, <1>5, <1>6 DEF MadeComplete
<1> QED
  BY <1>4, <1>7

LEMMA EventInvariantNext ==
    EventInvariant /\ Saved!EventInvariant /\ [Next]_vars => EventInvariant'
<1> SUFFICES ASSUME EventInvariant, Saved!EventInvariant, [Next]_vars PROVE EventInvariant'
  OBVIOUS
<1>1. EventTypeOK' /\ WatermarksHold' /\ WindowsHold'
  BY EventTypeNext, WatermarksHoldNext, WindowsHoldNext DEF EventInvariant, Saved!EventInvariant
<1>2. CASE Checkpoint \/ UNCHANGED vars
  <2>1. UNCHANGED <<fired, discarded, stream, highest, in_order>>
    BY <1>2 DEF Checkpoint, vars, source, windows
  <2> QED
    BY <1>1, <2>1 DEF EventInvariant, MadeAreOver, MadeComplete, Made, Belongs, Time
<1>3. CASE Recover
  <2>1. MadeAreOver' /\ MadeComplete'
    BY <1>3 DEF Recover, MadeAreOver, MadeComplete, Made, Belongs, AssignWindows, Time,
       Saved!EventInvariant, Saved!MadeAreOver, Saved!MadeComplete, Saved!Made, Saved!Belongs,
       Saved!AssignWindows, Saved!Time
  <2> QED
    BY <1>1, <2>1 DEF EventInvariant
<1> QED
  BY <1>1, <1>2, <1>3, NextIs, MadeNextElement, MadeNextWatermark DEF EventInvariant

LEMMA SavedEvents ==
    EventInvariant /\ saved = Snapshot => Saved!EventInvariant
<1> SUFFICES ASSUME EventInvariant, saved = Snapshot PROVE Saved!EventInvariant
  OBVIOUS
<1>1. Saved!EventTypeOK
  BY DEF Snapshot, EventInvariant, EventTypeOK, EventRecords, Timestamps, Sides, Starts,
     Saved!EventTypeOK, Saved!EventRecords, Saved!Timestamps, Saved!Sides, Saved!Starts
<1>2. Saved!WatermarksHold
  BY DEF Snapshot, EventInvariant, EventTypeOK, WatermarksHold, Saved!WatermarksHold
<1>3. Saved!WindowsHold
  BY DEF Snapshot, EventInvariant, WindowsHold, Made, Belongs, Starts, AssignWindows, Time,
     Saved!WindowsHold, Saved!Made, Saved!Belongs, Saved!Starts, Saved!AssignWindows, Saved!Time
<1>4. Saved!MadeAreOver /\ Saved!MadeComplete
  BY DEF Snapshot, EventInvariant, MadeAreOver, MadeComplete, Made, Belongs, AssignWindows, Time,
     Saved!MadeAreOver, Saved!MadeComplete, Saved!Made, Saved!Belongs, Saved!AssignWindows, Saved!Time
<1> QED
  BY <1>1, <1>2, <1>3, <1>4 DEF Saved!EventInvariant

LEMMA SavedEventsPrimed ==
    EventInvariant' /\ (saved = Snapshot)' => Saved!EventInvariant'
BY SavedEvents, PTL

\* A checkpoint has what holds at its time, and keeps it.
LEMMA SavedEventsNext ==
    EventInvariant /\ Saved!EventInvariant /\ [Next]_vars => Saved!EventInvariant'
<1> SUFFICES ASSUME EventInvariant, Saved!EventInvariant, [Next]_vars
             PROVE  Saved!EventInvariant'
  OBVIOUS
<1>1. CASE Checkpoint
  <2>1. EventInvariant' /\ saved' = Snapshot'
    BY <1>1, EventInvariantNext DEF Checkpoint, Snapshot, source, windows, join
  <2> QED
    BY <2>1, SavedEventsPrimed
<1>2. CASE UNCHANGED saved
  BY <1>2 DEF Saved!EventInvariant, Saved!EventTypeOK, Saved!EventRecords, Saved!Timestamps,
     Saved!Sides, Saved!Starts, Saved!WatermarksHold, Saved!WindowsHold, Saved!Made,
     Saved!MadeAreOver, Saved!MadeComplete, Saved!Belongs, Saved!AssignWindows, Saved!Time
<1> QED
  BY <1>1, <1>2, NextIs DEF Element, ProcessWatermark, Recover, vars

LEMMA EventInvariantInit == Init => EventInvariant /\ Saved!EventInvariant
<1> SUFFICES ASSUME Init PROVE EventInvariant /\ Saved!EventInvariant
  OBVIOUS
<1>1. WatermarksHold
  BY EventTimeAssumption DEF Init, WatermarksHold, EventTimeAssumption
<1>2. WindowsHold
  <2>1. DOMAIN stream = {} /\ fired = {} /\ discarded = {} /\ Made = {}
    BY DEF Init, Made
  <2>2. \A key \in Keys, start \in Starts : window_state[<<key, start>>] = {}
    BY DEF Init
  <2> QED
    BY <2>1, <2>2 DEF WindowsHold
<1>3. MadeAreOver /\ MadeComplete
  BY DEF Init, Made, MadeAreOver, MadeComplete
<1>4. EventInvariant /\ saved = Snapshot
  BY <1>1, <1>2, <1>3, EventTypeInit DEF EventInvariant, Init
<1> QED
  BY <1>4, SavedEvents

LEMMA EventInvariantHolds == Spec => [](EventInvariant /\ Saved!EventInvariant)
BY EventInvariantInit, EventInvariantNext, SavedEventsNext, PTL DEF Spec

(* Every variable of the sources, the windows and the join keeps its type, *)
(* whatever the stateless operators make of the records.                   *)
THEOREM EventTimeTypeCorrect == Spec => []EventTypeOK
<1>1. EventInvariant => EventTypeOK
  BY DEF EventInvariant
<1> QED
  BY <1>1, EventInvariantHolds, PTL

(* Whatever order the timestamps come in, an emitter sends no watermark     *)
(* below the one before; one that a recovery has begun anew sends none that *)
(* is further below the last watermark of the checkpoint than the disorder, *)
(* as long as the stream keeps to it.                                       *)
THEOREM WatermarksOnlyAdvance == Spec => WatermarksAdvance
<1> DEFINE Advances ==
              pending' \notin {pending, None} =>
                 /\ emitted => pending' >= watermark_timestamp
                 /\ in_order' => pending' >= watermark_timestamp - max_out_of_orderness
<1>1. ASSUME EventInvariant, [Next]_vars PROVE [Advances]_vars
  <2>1. ASSUME NEW timestamp \in Timestamps, NEW side \in Sides, Element(timestamp, side),
               pending' # None
        PROVE  /\ emitted => pending' >= watermark_timestamp
               /\ in_order' => pending' >= watermark_timestamp - max_out_of_orderness
    <3>1. Read(timestamp) /\ EventTypeOK
      BY <1>1, <2>1 DEF Element, EventInvariant
    <3>2. /\ {max_timestamp, max_timestamp', highest} \subseteq Nat /\ timestamp \in Nat
          /\ max_timestamp <= max_timestamp' /\ timestamp <= max_timestamp'
          /\ pending = None
          /\ pending' = max_timestamp' - max_out_of_orderness
      BY <2>1, <3>1, ReadStep
    <3>3. watermark_timestamp \in Int /\ max_out_of_orderness \in Nat /\ timestamp >= 1
      BY <3>1, EventTimeAssumption DEF EventTimeAssumption, EventTypeOK, Timestamps
    <3>4. emitted => watermark_timestamp <= max_timestamp - max_out_of_orderness
      BY <1>1, <3>2 DEF EventInvariant, WatermarksHold
    <3>5. watermark_timestamp # 0 => watermark_timestamp <= highest - max_out_of_orderness
      BY <1>1 DEF EventInvariant, WatermarksHold
    <3>6. in_order' => highest - timestamp <= max_out_of_orderness
      BY <3>1 DEF Read
    <3>7. ASSUME in_order' PROVE watermark_timestamp <= timestamp
      BY <3>2, <3>3, <3>5, <3>6, <3>7
    <3> QED
      BY <3>2, <3>3, <3>4, <3>7
  <2>2. ProcessWatermark \/ Recover => pending' = None
    BY DEF ProcessWatermark, Recover
  <2>3. Checkpoint \/ UNCHANGED vars => pending' = pending
    BY DEF Checkpoint, vars
  <2> QED
    BY <1>1, <2>1, <2>2, <2>3, NextIs
<1> QED
  BY <1>1, EventInvariantHolds, PTL DEF Spec, WatermarksAdvance

(* For every size and slide, and any disorder that the generator was told  *)
(* of, a window fires once and with every record that belongs to it, over  *)
(* recoveries too.                                                         *)
THEOREM WindowsAreComplete == Spec => []WindowsFireComplete
<1>1. EventInvariant => WindowsFireComplete
  BY DEF EventInvariant, MadeComplete, Made, WindowsFireComplete
<1> QED
  BY <1>1, EventInvariantHolds, PTL


LEMMA WindowsHoldDropNothing ==
    ASSUME size % slide = 0
    PROVE  EventInvariant => NothingDropped
<1> SUFFICES ASSUME EventInvariant, NEW n \in DOMAIN stream, NEW start \in Starts
             PROVE  LET key == stream[n].key
                        kept == n \in window_state[<<key, start>>]
                        has(r) == r.key = key /\ r.start = start /\ n \in r.values
                        results == {r \in fired : has(r)}
                        losses == {r \in discarded : has(r)}
                    IN  IF start <= Time(n) /\ Time(n) < start + size /\ start % slide = 0
                        THEN \/ kept /\ results \cup losses = {}
                             \/ /\ ~ kept
                                /\ results \cap losses = {}
                                /\ \E r \in results \cup losses : results \cup losses = {r}
                        ELSE ~ kept /\ results \cup losses = {}
  BY DEF NothingDropped
<1> USE DEF EventInvariant
<1> DEFINE key == stream[n].key
           has(r) == r.key = key /\ r.start = start /\ n \in r.values
           results == {r \in fired : has(r)}
           losses == {r \in discarded : has(r)}
           made == results \cup losses
<1>1. key \in Keys /\ Time(n) \in Nat
  <2>1. stream[n] \in EventRecords
    BY DEF EventTypeOK
  <2> QED
    BY <2>1 DEF EventRecords, Time, Timestamps
<1>2. Belongs(n, key, start) <=>
         start <= Time(n) /\ Time(n) < start + size /\ start % slide = 0
  BY <1>1, StartsAreInt, AssignedAreAll DEF Belongs
<1>3. made = {r \in Made : has(r)} /\ results \cap losses = {}
  BY DEF Made, WindowsHold
<1>4. n \in window_state[<<key, start>>] => made = {} /\ Belongs(n, key, start)
  BY <1>1, <1>3 DEF WindowsHold
<1>5. ASSUME NEW r \in made PROVE Belongs(n, key, start) /\ made = {r}
  <2>1. r \in Made /\ r.key = key /\ r.start = start /\ n \in r.values
    BY <1>3
  <2>2. Belongs(n, key, start)
    BY <2>1 DEF WindowsHold
  <2>3. \A other \in made : other = r
    BY <1>3, <2>1 DEF WindowsHold
  <2> QED
    BY <2>2, <2>3
<1>6. Belongs(n, key, start) => n \in window_state[<<key, start>>] \/ made # {}
  BY <1>1, <1>3 DEF WindowsHold
<1> HIDE DEF made, key
<1>7. IF start <= Time(n) /\ Time(n) < start + size /\ start % slide = 0
      THEN \/ n \in window_state[<<key, start>>] /\ made = {}
           \/ /\ n \notin window_state[<<key, start>>]
              /\ \E r \in made : made = {r}
      ELSE n \notin window_state[<<key, start>>] /\ made = {}
  BY <1>2, <1>4, <1>5, <1>6
<1> QED
  BY <1>3, <1>7 DEF made, key

(* Windows that the slide divides hold each record, however late, in all   *)
(* windows of the grid around it, until one result of each has it; what is *)
(* lost, a raising reduce function has cost.                               *)
THEOREM RecordsAreNotDropped ==
    ASSUME size % slide = 0
    PROVE  Spec => []NothingDropped
<1>1. EventInvariant => NothingDropped
  BY WindowsHoldDropNothing
<1> QED
  BY <1>1, EventInvariantHolds, PTL
-----------------------------------------------------------------------------
(***************************************************************************)
(* The join.                                                               *)
(***************************************************************************)

\* The pairs that a step makes: the records that it adds with what is buffered.
NewPairs(timestamp, side) ==
    IF side = "left"
    THEN {pair \in Added \X (DOMAIN stream) :
             pair[2] \in right_buffer[stream'[pair[1]].key] /\ Joins(timestamp, Time(pair[2]))}
    ELSE {pair \in (DOMAIN stream) \X Added :
             pair[1] \in left_buffer[stream'[pair[2]].key] /\ Joins(timestamp, Time(pair[1]))}

LEMMA PairsAre ==
    ASSUME EventTypeOK, BuffersHold, NEW timestamp \in Timestamps, NEW side \in Sides,
           NEW records \in Seq(RecordsAt(timestamp, side)), NEW raising
    PROVE  /\ Pairs(side, records, raising) \in Seq(Nat \X Nat)
           /\ IsInjective(Pairs(side, records, raising))
           /\ ToSet(Pairs(side, records, raising)) =
                 UNION {PairsOf(side, records, i) : i \in (DOMAIN records) \ raising}
           /\ \A i \in DOMAIN records : PairsOf(side, records, i) \subseteq Nat \X Nat
           /\ \A i \in DOMAIN records : \A pair \in PairsOf(side, records, i) :
                 Maker(pair) = Len(stream) + i
<1> DEFINE of(i) == PairsOf(side, records, i)
           ss == [i \in DOMAIN records |-> IF i \in raising THEN << >> ELSE SetToSeq(of(i))]
<1>1. Len(records) \in Nat /\ DOMAIN records = 1 .. Len(records)
      /\ Len(stream) \in Nat /\ DOMAIN stream = 1 .. Len(stream)
  BY LenProperties DEF EventTypeOK
<1>2. IsFiniteSet(DOMAIN stream) /\ DOMAIN stream \subseteq Nat
  BY <1>1, FS_Interval
<1>3. ASSUME NEW i \in DOMAIN records
      PROVE  /\ of(i) \subseteq Nat \X Nat /\ IsFiniteSet(of(i))
             /\ \A pair \in of(i) : Maker(pair) = Len(stream) + i
  <2>1. records[i].key \in Keys /\ Len(stream) + i \in Nat
    <3>1. records[i] \in RecordsAt(timestamp, side)
      BY <1>1
    <3>2. i \in Nat
      BY <1>1
    <3> QED
      BY <1>1, <3>1, <3>2 DEF RecordsAt
  <2>2. /\ Matches(right_buffer, records[i]) \in SUBSET DOMAIN stream
        /\ Matches(left_buffer, records[i]) \in SUBSET DOMAIN stream
    BY <2>1 DEF Matches, BuffersHold
  <2>3. /\ IsFiniteSet(Matches(right_buffer, records[i]))
        /\ IsFiniteSet(Matches(left_buffer, records[i]))
    BY <1>2, <2>2, FS_Subset
  <2>4. IsFiniteSet({Len(stream) + i})
    BY FS_Singleton
  <2>5. /\ IsFiniteSet({Len(stream) + i} \X Matches(right_buffer, records[i]))
        /\ IsFiniteSet(Matches(left_buffer, records[i]) \X {Len(stream) + i})
    BY <2>3, <2>4, FS_Product
  <2>6. of(i) \subseteq Nat \X Nat
    BY <1>2, <2>1, <2>2 DEF PairsOf
  <2>7. ASSUME NEW pair \in of(i) PROVE Maker(pair) = Len(stream) + i
    <3>1. \A m \in DOMAIN stream : m < Len(stream) + i /\ m \in Nat
      BY <1>1
    <3>2. \/ pair[1] = Len(stream) + i /\ pair[2] \in DOMAIN stream
          \/ pair[2] = Len(stream) + i /\ pair[1] \in DOMAIN stream
      BY <2>2 DEF PairsOf
    <3> QED
      BY <2>1, <3>1, <3>2 DEF Maker
  <2> QED
    BY <2>5, <2>6, <2>7 DEF PairsOf
<1>4. ASSUME NEW i \in DOMAIN records, NEW j \in DOMAIN records, i # j
      PROVE  of(i) \cap of(j) = {}
  <2>1. Len(stream) + i # Len(stream) + j
    BY <1>1, <1>4
  <2> HIDE DEF of
  <2> QED
    BY <1>3, <2>1
<1> HIDE DEF of
<1>5. ASSUME NEW i \in DOMAIN records
      PROVE  /\ ss[i] \in Seq(Nat \X Nat) /\ IsInjective(ss[i])
             /\ ToSet(ss[i]) = IF i \in raising THEN {} ELSE of(i)
  <2>1. SetToSeq(of(i)) \in Seq(of(i)) /\ ToSet(SetToSeq(of(i))) = of(i)
        /\ IsInjective(SetToSeq(of(i)))
    BY <1>3, SetToSeqProperties
  <2>2. Seq(of(i)) \subseteq Seq(Nat \X Nat)
    BY <1>3, SeqMonotonic
  <2>3. << >> \in Seq(Nat \X Nat) /\ ToSet(<< >>) = {} /\ IsInjective(<< >>)
    BY DEF ToSet, IsInjective
  <2> QED
    BY <2>1, <2>2, <2>3
<1>6. DOMAIN ss = DOMAIN records
  OBVIOUS
<1>7. Pairs(side, records, raising) = FlattenSeq(ss)
  BY DEF Pairs, of
<1> HIDE DEF ss
<1>8. ss \in Seq(Seq(Nat \X Nat))
  <2>1. ss = [i \in 1 .. Len(records) |-> ss[i]]
    BY <1>1, <1>6 DEF ss
  <2>2. \A i \in 1 .. Len(records) : ss[i] \in Seq(Nat \X Nat)
    BY <1>1, <1>5
  <2> QED
    BY <1>1, <2>1, <2>2, IsASeq
<1>9. /\ FlattenSeq(ss) \in Seq(Nat \X Nat)
      /\ ToSet(FlattenSeq(ss)) = UNION {ToSet(ss[i]) : i \in DOMAIN ss}
      /\ (\A i \in DOMAIN ss : IsInjective(ss[i])
            /\ \A j \in DOMAIN ss : i # j => ToSet(ss[i]) \cap ToSet(ss[j]) = {})
         => IsInjective(FlattenSeq(ss))
  BY <1>8, FlattenSeqProperties
<1>10. UNION {ToSet(ss[i]) : i \in DOMAIN ss} =
          UNION {of(i) : i \in (DOMAIN records) \ raising}
  BY <1>5, <1>6
<1>11. \A i \in DOMAIN ss : IsInjective(ss[i])
          /\ \A j \in DOMAIN ss : i # j => ToSet(ss[i]) \cap ToSet(ss[j]) = {}
  BY <1>4, <1>5, <1>6
<1> QED
  BY <1>3, <1>7, <1>9, <1>10, <1>11 DEF of

\* A step joins the one and misses the other.
Joining(pairs, lost, timestamp, side) ==
    /\ pairs \in Seq(Nat \X Nat) /\ lost \subseteq Nat \X Nat
    /\ joined' = joined \o pairs /\ missed' = missed \cup lost
    /\ IsInjective(pairs)
    /\ ToSet(pairs) \cup lost = NewPairs(timestamp, side)
    /\ \A pair \in NewPairs(timestamp, side) : Maker(pair) \in Added
    /\ \A pair \in ToSet(pairs), other \in lost : Maker(pair) # Maker(other)

LEMMA JoinStep ==
    ASSUME EventTypeOK, BuffersHold, NEW timestamp \in Timestamps, NEW side \in Sides,
           Element(timestamp, side)
    PROVE  \E pairs, lost : Joining(pairs, lost, timestamp, side)
<1>1. PICK records \in FrontElement([key |-> None, timestamp |-> timestamp, side |-> side]) :
         stream' = stream \o records /\ WindowElements(records) /\ JoinElements(side, records)
  BY DEF Element
<1>2. records \in Seq(RecordsAt(timestamp, side))
  BY FrontElementType
<1>3. /\ Added = Arrived(records)
      /\ \A n \in Added :
            /\ stream'[n] = records[n - Len(stream)]
            /\ stream'[n].timestamp = timestamp /\ stream'[n].side = side
            /\ stream'[n].key \in Keys
  BY <1>1, <1>2, AppendedRecords
<1>4. PICK raising \in SUBSET (DOMAIN records) :
         /\ joined' = joined \o Pairs(side, records, raising)
         /\ missed' = missed \cup UNION {PairsOf(side, records, i) : i \in raising}
  BY <1>1 DEF JoinElements
<1> DEFINE of(i) == PairsOf(side, records, i)
           pairs == Pairs(side, records, raising)
           lost == UNION {of(i) : i \in raising}
<1>5. /\ pairs \in Seq(Nat \X Nat) /\ IsInjective(pairs)
      /\ ToSet(pairs) = UNION {of(i) : i \in (DOMAIN records) \ raising}
      /\ \A i \in DOMAIN records : of(i) \subseteq Nat \X Nat
      /\ \A i \in DOMAIN records : \A pair \in of(i) : Maker(pair) = Len(stream) + i
  BY <1>2, PairsAre
<1>6. /\ Len(stream) \in Nat /\ Len(records) \in Nat /\ DOMAIN records = 1 .. Len(records)
      /\ \A i \in DOMAIN records : records[i].key \in Keys /\ records[i].timestamp = timestamp
  <2>1. \A i \in DOMAIN records : records[i] \in RecordsAt(timestamp, side)
    BY <1>2
  <2>2. Len(stream) \in Nat
    BY LenProperties DEF EventTypeOK
  <2> QED
    BY <1>2, <2>1, <2>2, LenProperties DEF RecordsAt
<1>7. /\ \A i \in DOMAIN records : Len(stream) + i \in Added /\ stream'[Len(stream) + i] = records[i]
      /\ \A n \in Added : n - Len(stream) \in DOMAIN records /\ Len(stream) + (n - Len(stream)) = n
  <2>1. Added = Len(stream) + 1 .. Len(stream) + Len(records)
    BY <1>3 DEF Arrived
  <2>2. \A i \in DOMAIN records : Len(stream) + i \in Added /\ Len(stream) + i - Len(stream) = i
    BY <1>6, <2>1
  <2>3. \A n \in Added : n - Len(stream) \in DOMAIN records /\ Len(stream) + (n - Len(stream)) = n
    BY <1>6, <2>1
  <2>4. ASSUME NEW i \in DOMAIN records PROVE stream'[Len(stream) + i] = records[i]
    <3>1. Len(stream) + i \in Added /\ Len(stream) + i - Len(stream) = i
      BY <2>2
    <3>2. PICK n : n = Len(stream) + i
      OBVIOUS
    <3>3. n \in Added /\ n - Len(stream) = i
      BY <3>1, <3>2
    <3>4. stream'[n] = records[n - Len(stream)]
      BY <1>3, <3>3
    <3> QED
      BY <3>2, <3>3, <3>4
  <2> QED
    BY <2>2, <2>3, <2>4
<1>8. \A key \in Keys : left_buffer[key] \subseteq DOMAIN stream
                        /\ right_buffer[key] \subseteq DOMAIN stream
  BY DEF BuffersHold
<1> HIDE DEF pairs
<1>9. UNION {of(i) : i \in DOMAIN records} = NewPairs(timestamp, side)
  <2>1. CASE side = "left"
    <3>1. \A i \in DOMAIN records : of(i) \subseteq NewPairs(timestamp, side)
      BY <1>6, <1>7, <1>8, <2>1 DEF NewPairs, PairsOf, Matches
    <3>2. ASSUME NEW n \in Added, NEW m \in right_buffer[stream'[n].key],
                 Joins(timestamp, Time(m))
          PROVE  <<n, m>> \in of(n - Len(stream))
      BY <1>3, <1>6, <1>7, <2>1, <3>2 DEF PairsOf, Matches
    <3>3. NewPairs(timestamp, side) \subseteq UNION {of(i) : i \in DOMAIN records}
      BY <1>7, <2>1, <3>2 DEF NewPairs
    <3> QED
      BY <3>1, <3>3
  <2>2. CASE side # "left"
    <3>1. \A i \in DOMAIN records : of(i) \subseteq NewPairs(timestamp, side)
      BY <1>6, <1>7, <1>8, <2>2 DEF NewPairs, PairsOf, Matches
    <3>2. ASSUME NEW n \in Added, NEW m \in left_buffer[stream'[n].key],
                 Joins(timestamp, Time(m))
          PROVE  <<m, n>> \in of(n - Len(stream))
      BY <1>3, <1>6, <1>7, <2>2, <3>2 DEF PairsOf, Matches
    <3>3. NewPairs(timestamp, side) \subseteq UNION {of(i) : i \in DOMAIN records}
      BY <1>7, <2>2, <3>2 DEF NewPairs
    <3> QED
      BY <3>1, <3>3
  <2> QED
    BY <2>1, <2>2
<1> HIDE DEF of
<1>10. ToSet(pairs) \cup lost = NewPairs(timestamp, side)
  BY <1>5, <1>9
<1>11. lost \in SUBSET (Nat \X Nat)
  BY <1>5
<1>12. \A pair \in NewPairs(timestamp, side) : Maker(pair) \in Added
  BY <1>5, <1>7, <1>9
<1>13. \A i, j \in DOMAIN records : i # j => Len(stream) + i # Len(stream) + j
  BY <1>6
<1>14. \A pair \in ToSet(pairs), other \in lost : Maker(pair) # Maker(other)
  BY <1>5, <1>13
<1>15. joined' = joined \o pairs /\ missed' = missed \cup lost
  BY <1>4 DEF pairs, of
<1> HIDE DEF lost
<1>16. Joining(pairs, lost, timestamp, side)
  BY <1>5, <1>10, <1>11, <1>12, <1>14, <1>15 DEF Joining
<1> QED
  BY <1>16

LEMMA BuffersHoldElement ==
    ASSUME EventTypeOK, BuffersHold, NEW timestamp \in Timestamps, NEW side \in Sides,
           Element(timestamp, side)
    PROVE  BuffersHold'
<1> DEFINE adding(k) == {n \in Added : stream'[n].key = k}
           Kept(n) == n \in (IF Left(n) THEN left_buffer ELSE right_buffer)[stream[n].key]
<1>1. /\ DOMAIN stream \subseteq DOMAIN stream'
      /\ \A n \in DOMAIN stream : stream'[n] = stream[n]
      /\ \A n \in Added : stream'[n].timestamp = timestamp /\ stream'[n].side = side
                          /\ stream'[n].key \in Keys
      /\ Read(timestamp)
  BY ElementStep
<1>2. /\ left_buffer' = IF side = "left" THEN [k \in Keys |-> left_buffer[k] \cup adding(k)]
                        ELSE left_buffer
      /\ right_buffer' = IF side = "left" THEN right_buffer
                         ELSE [k \in Keys |-> right_buffer[k] \cup adding(k)]
  BY BufferStep
<1>3. DOMAIN stream' = DOMAIN stream \cup Added
  BY <1>1 DEF Added
<1>4. /\ \A n \in DOMAIN stream : Left(n)' <=> Left(n)
      /\ \A n \in Added : Left(n)' <=> side = "left"
  BY <1>1 DEF Left
<1>5. ASSUME NEW k \in Keys
      PROVE  /\ left_buffer'[k] = IF side = "left" THEN left_buffer[k] \cup adding(k)
                                  ELSE left_buffer[k]
             /\ right_buffer'[k] = IF side = "left" THEN right_buffer[k]
                                   ELSE right_buffer[k] \cup adding(k)
  BY <1>2
<1>6. ASSUME NEW k \in Keys
      PROVE  /\ left_buffer'[k] \subseteq {n \in DOMAIN stream' : stream'[n].key = k /\ Left(n)'}
             /\ right_buffer'[k] \subseteq {n \in DOMAIN stream' : stream'[n].key = k /\ ~ Left(n)'}
  <2>1. left_buffer[k] \subseteq {n \in DOMAIN stream' : stream'[n].key = k /\ Left(n)'}
        /\ right_buffer[k] \subseteq {n \in DOMAIN stream' : stream'[n].key = k /\ ~ Left(n)'}
    BY <1>1, <1>4 DEF BuffersHold
  <2>2. adding(k) \subseteq {n \in DOMAIN stream' : stream'[n].key = k /\ (Left(n)' <=> side = "left")}
    BY <1>3, <1>4
  <2> QED
    BY <1>5, <2>1, <2>2
<1>7. highest <= highest' /\ highest \in Nat /\ highest' \in Nat
      /\ max_out_of_orderness \in Nat /\ time_bound \in Nat
  BY <1>1, ReadStep, EventTimeAssumption DEF EventTimeAssumption
<1>8. ASSUME NEW n \in DOMAIN stream'
      PROVE  Kept(n)' \/ Time(n)' < highest' - max_out_of_orderness - time_bound
  <2>1. CASE n \in Added
    <3>1. stream'[n].key \in Keys /\ n \in adding(stream'[n].key)
      BY <1>1, <2>1
    <3> QED
      BY <1>4, <1>5, <2>1, <3>1
  <2>2. CASE n \in DOMAIN stream
    <3>1. stream[n] \in EventRecords
      BY <2>2 DEF EventTypeOK
    <3>2. stream[n].key \in Keys /\ Time(n) \in Int
      BY <3>1 DEF EventRecords, Time, Timestamps
    <3>3. Time(n)' = Time(n) /\ stream'[n].key = stream[n].key /\ (Left(n)' <=> Left(n))
      BY <1>1, <1>4, <2>2 DEF Time
    <3>4. CASE Kept(n)
      <4>1. /\ left_buffer[stream[n].key] \subseteq left_buffer'[stream[n].key]
            /\ right_buffer[stream[n].key] \subseteq right_buffer'[stream[n].key]
        <5> HIDE DEF adding
        <5> QED
          BY <1>5, <3>2
      <4> QED
        BY <3>3, <3>4, <4>1
    <3>5. CASE Time(n) < highest - max_out_of_orderness - time_bound
      BY <1>7, <3>2, <3>3, <3>5
    <3> QED
      BY <2>2, <3>4, <3>5 DEF BuffersHold
  <2> QED
    BY <1>3, <2>1, <2>2
<1> QED
  BY <1>6, <1>8 DEF BuffersHold

LEMMA BuffersHoldWatermark ==
    ASSUME EventTypeOK, WatermarksHold, BuffersHold, ProcessWatermark
    PROVE  BuffersHold'
<1> DEFINE Kept(n) == n \in (IF Left(n) THEN left_buffer ELSE right_buffer)[stream[n].key]
<1>1. stream' = stream /\ highest' = highest /\ pending # None
  BY DEF ProcessWatermark, source
<1>2. ASSUME NEW k \in Keys
      PROVE  /\ left_buffer'[k] = {n \in left_buffer[k] : StillJoins(n)}
             /\ right_buffer'[k] = {n \in right_buffer[k] : StillJoins(n)}
  BY DEF ProcessWatermark, JoinWatermark, CleanUp
<1>3. \A n : (Left(n)' <=> Left(n)) /\ Time(n)' = Time(n)
  BY <1>1 DEF Left, Time
<1>4. \A k \in Keys :
         /\ left_buffer'[k] \subseteq {n \in DOMAIN stream' : stream'[n].key = k /\ Left(n)'}
         /\ right_buffer'[k] \subseteq {n \in DOMAIN stream' : stream'[n].key = k /\ ~ Left(n)'}
  BY <1>1, <1>2, <1>3 DEF BuffersHold
<1>5. /\ pending \in Int /\ highest \in Nat /\ max_out_of_orderness \in Nat /\ time_bound \in Nat
      /\ pending <= highest - max_out_of_orderness
  BY <1>1, EventTimeAssumption DEF EventTypeOK, WatermarksHold, EventTimeAssumption
<1>6. ASSUME NEW n \in DOMAIN stream
      PROVE  Kept(n)' \/ Time(n) < highest - max_out_of_orderness - time_bound
  <2>1. stream[n] \in EventRecords
    BY DEF EventTypeOK
  <2>2. stream[n].key \in Keys /\ Time(n) \in Int
    BY <2>1 DEF EventRecords, Time, Timestamps
  <2>3. CASE StillJoins(n)
    BY <1>1, <1>2, <1>3, <2>2, <2>3 DEF BuffersHold
  <2>4. CASE ~ StillJoins(n)
    BY <1>5, <2>2, <2>4 DEF StillJoins
  <2> QED
    BY <2>3, <2>4
<1> QED
  BY <1>1, <1>3, <1>4, <1>6 DEF BuffersHold

\* What a record joins, it is a partner of.
LEMMA NewPairsArePartners ==
    ASSUME EventTypeOK, BuffersHold, NEW timestamp \in Timestamps, NEW side \in Sides,
           Element(timestamp, side), NEW pair \in NewPairs(timestamp, side)
    PROVE  /\ pair \notin (DOMAIN stream) \X (DOMAIN stream)
           /\ pair[1] \in DOMAIN stream' /\ pair[2] \in DOMAIN stream'
           /\ Partners(pair[1], pair[2])'
<1>1. /\ DOMAIN stream \subseteq DOMAIN stream'
      /\ \A n \in DOMAIN stream : stream'[n] = stream[n]
      /\ \A n \in Added : stream'[n].timestamp = timestamp /\ stream'[n].side = side
                          /\ stream'[n].key \in Keys
  BY ElementStep
<1>2. Added \subseteq DOMAIN stream' /\ Added \cap DOMAIN stream = {}
  BY DEF Added
<1>3. /\ \A n \in Added : Time(n)' = timestamp
      /\ \A n \in DOMAIN stream : Time(n)' = Time(n) /\ Time(n) \in Int
                                  /\ (Left(n) <=> stream'[n].side = "left")
                                  /\ (~ Left(n) <=> stream'[n].side = "right")
  <2>1. \A n \in DOMAIN stream : stream[n] \in EventRecords
    BY DEF EventTypeOK
  <2> QED
    BY <1>1, <2>1 DEF EventRecords, Time, Timestamps, Left, Sides
<1>4. timestamp \in Int /\ time_bound \in Nat
  BY EventTimeAssumption DEF EventTimeAssumption, Timestamps
<1>5. CASE side = "left"
  <2>1. /\ pair[1] \in Added /\ pair[2] \in DOMAIN stream
        /\ pair[2] \in right_buffer[stream'[pair[1]].key] /\ Joins(timestamp, Time(pair[2]))
        /\ pair \notin (DOMAIN stream) \X (DOMAIN stream)
    BY <1>2, <1>5 DEF NewPairs
  <2>2. stream'[pair[2]].key = stream'[pair[1]].key /\ ~ Left(pair[2])
    BY <1>1, <2>1 DEF BuffersHold
  <2>3. Time(pair[1])' - Time(pair[2])' \in -time_bound .. time_bound
    BY <1>3, <1>4, <2>1 DEF Joins
  <2>4. stream'[pair[1]].side = "left" /\ stream'[pair[2]].side = "right"
    BY <1>1, <1>3, <1>5, <2>1, <2>2
  <2> QED
    BY <1>1, <1>2, <2>1, <2>2, <2>3, <2>4 DEF Partners
<1>6. CASE side = "right"
  <2>1. /\ pair[2] \in Added /\ pair[1] \in DOMAIN stream
        /\ pair[1] \in left_buffer[stream'[pair[2]].key] /\ Joins(timestamp, Time(pair[1]))
        /\ pair \notin (DOMAIN stream) \X (DOMAIN stream)
    BY <1>2, <1>6 DEF NewPairs
  <2>2. stream'[pair[2]].key = stream'[pair[1]].key /\ Left(pair[1])
    BY <1>1, <2>1 DEF BuffersHold
  <2>3. Time(pair[1])' - Time(pair[2])' \in -time_bound .. time_bound
    BY <1>3, <1>4, <2>1 DEF Joins
  <2>4. stream'[pair[1]].side = "left" /\ stream'[pair[2]].side = "right"
    BY <1>1, <1>3, <1>6, <2>1, <2>2
  <2> QED
    BY <1>1, <1>2, <2>1, <2>2, <2>3, <2>4 DEF Partners
<1> QED
  BY <1>5, <1>6 DEF Sides

LEMMA JoinsHoldElement ==
    ASSUME EventTypeOK, BuffersHold, JoinsHold,
           NEW timestamp \in Timestamps, NEW side \in Sides, Element(timestamp, side)
    PROVE  /\ JoinsHold'
           /\ ToSet(joined') \cup missed' =
                 ToSet(joined) \cup missed \cup NewPairs(timestamp, side)
<1> PICK pairs, lost : Joining(pairs, lost, timestamp, side)
  BY JoinStep
<1>1. /\ pairs \in Seq(Nat \X Nat) /\ lost \subseteq Nat \X Nat
      /\ joined' = joined \o pairs /\ missed' = missed \cup lost
      /\ IsInjective(pairs)
      /\ ToSet(pairs) \cup lost = NewPairs(timestamp, side)
      /\ \A pair \in NewPairs(timestamp, side) : Maker(pair) \in Added
      /\ \A pair \in ToSet(pairs), other \in lost : Maker(pair) # Maker(other)
  BY DEF Joining
<1>2. \A pair \in ToSet(joined) \cup missed :
         pair[1] \in DOMAIN stream /\ pair[2] \in DOMAIN stream /\ Partners(pair[1], pair[2])
  BY DEF JoinsHold
<1>3. \A pair \in NewPairs(timestamp, side) :
         /\ pair \notin (DOMAIN stream) \X (DOMAIN stream)
         /\ pair[1] \in DOMAIN stream' /\ pair[2] \in DOMAIN stream'
         /\ Partners(pair[1], pair[2])'
  BY NewPairsArePartners
<1>4. joined \in Seq(Nat \X Nat) /\ IsInjective(joined)
  BY DEF JoinsHold
<1>5. ToSet(joined) \subseteq Nat \X Nat
  BY <1>4 DEF ToSet
<1>6. ToSet(joined) \cap ToSet(pairs) = {}
  <2>1. ASSUME NEW pair \in ToSet(joined)
        PROVE  pair \in (DOMAIN stream) \X (DOMAIN stream)
    BY <1>2, <1>5
  <2> QED
    BY <1>1, <1>3, <2>1
<1>7. joined' \in Seq(Nat \X Nat) /\ ToSet(joined') = ToSet(joined) \cup ToSet(pairs)
  BY <1>1, <1>4, ConcatElements
<1>8. IsInjective(joined')
  BY <1>1, <1>4, <1>6, ConcatInjective
<1>9. ASSUME NEW pair \in ToSet(joined) \cup missed
      PROVE  pair[1] \in DOMAIN stream' /\ pair[2] \in DOMAIN stream' /\ Partners(pair[1], pair[2])'
  <2>1. /\ DOMAIN stream \subseteq DOMAIN stream'
        /\ \A n \in DOMAIN stream : stream'[n] = stream[n]
    BY ElementStep
  <2> QED
    BY <1>2, <2>1 DEF Partners, Time
<1>10. \A pair \in ToSet(joined) \cup missed : Maker(pair) \in DOMAIN stream
  BY <1>2 DEF Maker
<1>11. \A pair \in ToSet(joined'), other \in missed' : Maker(pair) # Maker(other)
  <2>1. Added \cap DOMAIN stream = {}
    BY DEF Added
  <2>2. \A pair \in ToSet(joined), other \in missed : Maker(pair) # Maker(other)
    BY DEF JoinsHold
  <2> QED
    BY <1>1, <1>7, <1>10, <2>1, <2>2
<1>12. missed' \subseteq Nat \X Nat
  BY <1>1 DEF JoinsHold
<1>13. ToSet(joined') \cup missed' = ToSet(joined) \cup missed \cup NewPairs(timestamp, side)
  BY <1>1, <1>7
<1>14. \A pair \in ToSet(joined') \cup missed' :
          pair[1] \in DOMAIN stream' /\ pair[2] \in DOMAIN stream' /\ Partners(pair[1], pair[2])'
  BY <1>3, <1>9, <1>13
<1>15. \A pair : Maker(pair)' = Maker(pair)
  BY DEF Maker
<1> QED
  BY <1>7, <1>8, <1>11, <1>12, <1>13, <1>14, <1>15 DEF JoinsHold

LEMMA JoinsCompleteElement ==
    ASSUME EventTypeOK, BuffersHold, JoinsHold, JoinsComplete,
           NEW timestamp \in Timestamps, NEW side \in Sides, Element(timestamp, side)
    PROVE  JoinsComplete'
<1> SUFFICES ASSUME in_order', NEW l \in DOMAIN stream', NEW r \in DOMAIN stream',
                    Partners(l, r)'
             PROVE  <<l, r>> \in ToSet(joined') \cup missed'
  BY DEF JoinsComplete
<1>1. /\ DOMAIN stream \subseteq DOMAIN stream'
      /\ \A n \in DOMAIN stream : stream'[n] = stream[n]
      /\ \A n \in Added : stream'[n].timestamp = timestamp /\ stream'[n].side = side
      /\ Read(timestamp)
  BY ElementStep
<1>2. ToSet(joined') \cup missed' = ToSet(joined) \cup missed \cup NewPairs(timestamp, side)
  BY JoinsHoldElement
<1>3. DOMAIN stream' = DOMAIN stream \cup Added
  BY <1>1 DEF Added
<1>4. /\ stream'[l].side = "left" /\ stream'[r].side = "right"
      /\ stream'[l].key = stream'[r].key
      /\ stream'[l].timestamp - stream'[r].timestamp \in -time_bound .. time_bound
  BY DEF Partners, Time
<1>5. in_order /\ highest - timestamp <= max_out_of_orderness
  BY <1>1 DEF Read
<1>6. /\ highest \in Int /\ max_out_of_orderness \in Int /\ time_bound \in Int /\ timestamp \in Int
  BY EventTimeAssumption DEF EventTimeAssumption, EventTypeOK, Timestamps
<1>7. ASSUME NEW n \in DOMAIN stream, Joins(timestamp, Time(n))
      PROVE  n \in (IF Left(n) THEN left_buffer ELSE right_buffer)[stream[n].key]
  <2>1. stream[n] \in EventRecords
    BY DEF EventTypeOK
  <2>2. Time(n) \in Int
    BY <2>1 DEF EventRecords, Time, Timestamps
  <2>3. ~ (Time(n) < highest - max_out_of_orderness - time_bound)
    <3>1. timestamp - Time(n) <= time_bound
      BY <1>7 DEF Joins
    <3>2. \A t, m, h, d, b \in Int : t - m <= b /\ h - t <= d => ~ (m < h - d - b)
      OBVIOUS
    <3> QED
      BY <1>5, <1>6, <2>2, <3>1, <3>2
  <2> QED
    BY <2>3 DEF BuffersHold
<1>8. CASE l \in DOMAIN stream /\ r \in DOMAIN stream
  <2>1. Partners(l, r)
    BY <1>1, <1>4, <1>8 DEF Partners, Time
  <2> QED
    BY <1>2, <1>5, <1>8, <2>1 DEF JoinsComplete
<1>9. CASE l \in Added /\ r \in Added
  BY <1>1, <1>4, <1>9
<1>10. CASE l \in Added /\ r \in DOMAIN stream
  <2>1. stream[r] \in EventRecords
    BY <1>10 DEF EventTypeOK
  <2>2. Time(r) \in Int /\ stream'[r] = stream[r] /\ stream'[l].timestamp = timestamp
    BY <1>1, <1>10, <2>1 DEF EventRecords, Time, Timestamps
  <2>3. Joins(timestamp, Time(r))
    BY <1>4, <1>6, <2>2 DEF Joins, Time
  <2>4. side = "left" /\ ~ Left(r)
    BY <1>1, <1>4, <1>10 DEF Left
  <2>5. r \in right_buffer[stream'[l].key]
    BY <1>4, <1>7, <1>10, <2>2, <2>3, <2>4
  <2>6. <<l, r>> \in NewPairs(timestamp, side)
    BY <1>10, <2>3, <2>4, <2>5 DEF NewPairs
  <2> QED
    BY <1>2, <2>6
<1>11. CASE l \in DOMAIN stream /\ r \in Added
  <2>1. stream[l] \in EventRecords
    BY <1>11 DEF EventTypeOK
  <2>2. Time(l) \in Int /\ stream'[l] = stream[l] /\ stream'[r].timestamp = timestamp
    BY <1>1, <1>11, <2>1 DEF EventRecords, Time, Timestamps
  <2>3. Joins(timestamp, Time(l))
    BY <1>4, <1>6, <2>2 DEF Joins, Time
  <2>4. side # "left" /\ Left(l)
    BY <1>1, <1>4, <1>11 DEF Left
  <2>5. l \in left_buffer[stream'[r].key]
    BY <1>4, <1>7, <1>11, <2>2, <2>3, <2>4
  <2>6. <<l, r>> \in NewPairs(timestamp, side)
    BY <1>11, <2>3, <2>4, <2>5 DEF NewPairs
  <2> QED
    BY <1>2, <2>6
<1> QED
  BY <1>3, <1>8, <1>9, <1>10, <1>11

LEMMA JoinHoldsNext ==
    EventInvariant /\ JoinHolds /\ Saved!JoinHolds /\ [Next]_vars => JoinHolds'
<1> SUFFICES ASSUME EventInvariant, JoinHolds, Saved!JoinHolds, [Next]_vars PROVE JoinHolds'
  OBVIOUS
<1> USE DEF JoinHolds
<1>1. EventTypeOK /\ WatermarksHold
  BY DEF EventInvariant
<1>2. ASSUME NEW timestamp \in Timestamps, NEW side \in Sides, Element(timestamp, side)
      PROVE  BuffersHold' /\ JoinsHold' /\ JoinsComplete'
  BY <1>1, <1>2, BuffersHoldElement, JoinsHoldElement, JoinsCompleteElement
<1>3. CASE ProcessWatermark
  <2>1. BuffersHold'
    BY <1>1, <1>3, BuffersHoldWatermark
  <2>2. UNCHANGED <<stream, in_order, joined, missed>>
    BY <1>3 DEF ProcessWatermark, source, JoinWatermark
  <2>3. JoinsHold' /\ JoinsComplete'
    BY <2>2 DEF JoinsHold, JoinsComplete, Partners, Time, Maker
  <2> QED
    BY <2>1, <2>3
<1>4. CASE Checkpoint \/ UNCHANGED vars
  <2>1. UNCHANGED <<stream, highest, in_order, left_buffer, right_buffer, joined, missed>>
    BY <1>4 DEF Checkpoint, vars, source, join
  <2>2. BuffersHold'
    BY <2>1 DEF BuffersHold, Left, Time
  <2>3. JoinsHold' /\ JoinsComplete'
    BY <2>1 DEF JoinsHold, JoinsComplete, Partners, Time, Maker
  <2> QED
    BY <2>2, <2>3
<1>5. CASE Recover
  <2> USE <1>5 DEF Recover, Saved!JoinHolds
  <2>1. BuffersHold'
    BY DEF BuffersHold, Left, Time, Saved!BuffersHold, Saved!Left, Saved!Time
  <2>2. JoinsHold'
    BY DEF JoinsHold, Partners, Time, Maker, ToSet, IsInjective, Saved!JoinsHold, Saved!Partners,
       Saved!Time, Saved!Maker, Saved!ToSet, Saved!IsInjective
  <2>3. JoinsComplete'
    BY DEF JoinsComplete, Partners, Time, ToSet, Saved!JoinsComplete, Saved!Partners, Saved!Time,
       Saved!ToSet
  <2> QED
    BY <2>1, <2>2, <2>3
<1> QED
  BY <1>2, <1>3, <1>4, <1>5, NextIs

LEMMA SavedJoin == JoinHolds /\ saved = Snapshot => Saved!JoinHolds
<1> SUFFICES ASSUME JoinHolds, saved = Snapshot PROVE Saved!JoinHolds
  OBVIOUS
<1> USE DEF JoinHolds, Snapshot
<1>1. Saved!BuffersHold
  BY DEF BuffersHold, Left, Time, Saved!BuffersHold, Saved!Left, Saved!Time
<1>2. Saved!JoinsHold
  BY DEF JoinsHold, Partners, Time, Maker, ToSet, IsInjective, Saved!JoinsHold, Saved!Partners,
     Saved!Time, Saved!Maker, Saved!ToSet, Saved!IsInjective
<1>3. Saved!JoinsComplete
  BY DEF JoinsComplete, Partners, Time, ToSet, Saved!JoinsComplete, Saved!Partners, Saved!Time,
     Saved!ToSet
<1> QED
  BY <1>1, <1>2, <1>3 DEF Saved!JoinHolds

LEMMA SavedJoinPrimed == JoinHolds' /\ (saved = Snapshot)' => Saved!JoinHolds'
BY SavedJoin, PTL

LEMMA SavedJoinNext ==
    JoinHolds /\ JoinHolds' /\ Saved!JoinHolds /\ [Next]_vars => Saved!JoinHolds'
<1> SUFFICES ASSUME JoinHolds', Saved!JoinHolds, [Next]_vars PROVE Saved!JoinHolds'
  OBVIOUS
<1>1. CASE Checkpoint
  <2>1. saved' = Snapshot'
    BY <1>1 DEF Checkpoint, Snapshot, source, windows, join
  <2> QED
    BY <2>1, SavedJoinPrimed
<1>2. CASE UNCHANGED saved
  <2> USE <1>2 DEF Saved!JoinHolds
  <2>1. Saved!BuffersHold'
    BY DEF Saved!BuffersHold, Saved!Left, Saved!Time
  <2>2. Saved!JoinsHold'
    BY DEF Saved!JoinsHold, Saved!Partners, Saved!Time, Saved!Maker, Saved!ToSet, Saved!IsInjective
  <2>3. Saved!JoinsComplete'
    BY DEF Saved!JoinsComplete, Saved!Partners, Saved!Time, Saved!ToSet
  <2> QED
    BY <2>1, <2>2, <2>3
<1> QED
  BY <1>1, <1>2, NextIs DEF Element, ProcessWatermark, Recover, vars

LEMMA JoinHoldsInit == Init => JoinHolds /\ Saved!JoinHolds
<1> SUFFICES ASSUME Init PROVE JoinHolds /\ Saved!JoinHolds
  OBVIOUS
<1>1. DOMAIN stream = {} /\ joined = << >> /\ missed = {}
      /\ \A k \in Keys : left_buffer[k] = {} /\ right_buffer[k] = {}
  BY DEF Init
<1>2. BuffersHold /\ JoinsComplete
  BY <1>1 DEF BuffersHold, JoinsComplete
<1>3. joined \in Seq(Nat \X Nat) /\ DOMAIN joined = {}
  BY <1>1
<1>4. JoinsHold
  BY <1>1, <1>3 DEF JoinsHold, IsInjective, ToSet
<1>5. JoinHolds /\ saved = Snapshot
  BY <1>2, <1>4 DEF JoinHolds, Init
<1> QED
  BY <1>5, SavedJoin

(* Whatever records come late and whenever the operators recover, a pair   *)
(* is joined at most once and only within the time bound; as long as the   *)
(* stream keeps to the disorder, none is missed but by a record at which   *)
(* the join function raised, and such a record makes none.                 *)
THEOREM PairsAreJoined == Spec => []JoinsExactly
<1> DEFINE Invariant == EventInvariant /\ Saved!EventInvariant /\ JoinHolds /\ Saved!JoinHolds
<1>1. Init => Invariant
  BY EventInvariantInit, JoinHoldsInit
<1>2. Invariant /\ [Next]_vars => Invariant'
  BY EventInvariantNext, SavedEventsNext, JoinHoldsNext, SavedJoinNext
<1>3. Invariant => JoinsExactly
  <2> SUFFICES ASSUME JoinHolds PROVE JoinsExactly
    OBVIOUS
  <2>1. \A n \in DOMAIN joined : joined[n] \in ToSet(joined)
    BY DEF ToSet
  <2> QED
    BY <2>1 DEF JoinHolds, JoinsHold, JoinsComplete, JoinsExactly
<1> QED
  BY <1>1, <1>2, <1>3, PTL DEF Spec
-----------------------------------------------------------------------------
(***************************************************************************)
(* The second WindowOperator of the chain.                                 *)
(***************************************************************************)

LEMMA ChainNextIs ==
    ASSUME [ChainNext]_chainVars
    PROVE  /\ [Next]_vars
           /\ \/ ChainWatermark
              \/ /\ \E timestamp \in Timestamps, side \in Sides : Element(timestamp, side)
                 /\ UNCHANGED behind
              \/ ChainCheckpoint
              \/ ChainRecover
              \/ UNCHANGED chainVars
<1>1. ASSUME NEW input \in Inputs
      PROVE  input[1] \in Timestamps /\ input[2] \in Sides
  BY EventTimeAssumption DEF EventTimeAssumption
<1>2. [Next]_vars
  BY DEF ChainNext, Next, ChainWatermark, ChainCheckpoint, ChainRecover, chainVars
<1> QED
  BY <1>1, <1>2 DEF ChainNext

\* What the second operator makes of one of its windows.
ResultOf(kw) ==
    [key |-> kw[1], start |-> kw[2],
     values |-> {r \in Fed : r.key = kw[1] /\ OuterWindow(r) = kw[2]}]

LEMMA OuterWindowHolds ==
    ASSUME NEW r, r.start \in Starts
    PROVE  /\ OuterWindow(r) \in Int
           /\ r.start + size < OuterWindow(r) + outer_size
<1>1. r.start + size \in Int /\ outer_size \in Nat \ {0}
  BY StartsAreInt, OperatorChainAssumption DEF OperatorChainAssumption
<1>2. \A n \in Int, d \in Nat \ {0} : (n \div d) * d \in Int /\ n < (n \div d) * d + d
  <2> SUFFICES ASSUME NEW n \in Int, NEW d \in Nat \ {0}
               PROVE  (n \div d) * d \in Int /\ n < (n \div d) * d + d
    OBVIOUS
  <2>1. (n \div d) \in Int /\ (n % d) \in 0 .. d - 1 /\ n = d * (n \div d) + (n % d)
    OBVIOUS
  <2> QED
    BY <2>1
<1> QED
  BY <1>1, <1>2 DEF OuterWindow

\* No watermark fires again what was fired before.
LEMMA TriggersAre ==
    ASSUME EventInvariant, ProcessWatermark
    PROVE  /\ fired' = fired \cup Triggers /\ Triggers \cap fired = {}
           /\ \A r \in Triggers :
                 /\ r.key \in Keys /\ r.start \in Starts
                 /\ window_state[<<r.key, r.start>>] # {}
                 /\ r.start + size <= pending
           /\ Triggers = ResultsOf(Triggered) \/ Triggers = {}
<1>1. PICK gone : Fires(gone)
  BY WindowsFire
<1>2. gone \in SUBSET Triggered /\ ResultsOf(gone) \cap fired = {}
  BY <1>1, ResultsAreNew DEF Fires, Made, EventInvariant
<1>3. \/ fired' = fired
      \/ gone = Triggered /\ fired' = fired \cup ResultsOf(gone)
  BY <1>1 DEF Fires
<1>4. \/ Triggers = {}
      \/ gone = Triggered /\ Triggers = ResultsOf(gone)
  BY <1>2, <1>3 DEF Triggers
<1>5. fired' = fired \cup Triggers /\ Triggers \cap fired = {}
  BY <1>3 DEF Triggers
<1>6. \A r \in ResultsOf(gone) :
         /\ r.key \in Keys /\ r.start \in Starts
         /\ window_state[<<r.key, r.start>>] # {}
         /\ r.start + size <= pending
  BY <1>2, ResultIs
<1> QED
  BY <1>4, <1>5, <1>6

LEMMA FedHave ==
    ASSUME EventInvariant, OuterHolds, ProcessWatermark, NEW r \in Fed
    PROVE  r.key \in Keys /\ r.start \in Starts /\ OuterWindow(r) \in Int
<1>1. CASE r \in outer_state
  <2>1. r \in fired
    BY <1>1 DEF OuterHolds
  <2> QED
    BY <2>1, OuterWindowHolds DEF EventInvariant, EventTypeOK
<1>2. CASE r \in Triggers
  BY <1>2, TriggersAre, OuterWindowHolds
<1> QED
  BY <1>1, <1>2 DEF Fed

\* The results of the second operator in a step.
LEMMA OuterFires ==
    ASSUME EventInvariant, OuterHolds, ProcessWatermark, OuterWatermark
    PROVE  /\ outer_fired' = outer_fired \cup {ResultOf(kw) : kw \in OuterTriggered}
           /\ \A r : r \in outer_state' <=>
                        r \in Fed /\ ~ (OuterWindow(r) + outer_size <= pending)
           /\ \A kw \in OuterTriggered :
                 /\ kw[1] \in Keys /\ kw[2] \in Int /\ kw = <<kw[1], kw[2]>>
                 /\ kw[2] + outer_size <= pending
                 /\ ResultOf(kw).values # {}
           /\ \A r \in Fed : OuterWindow(r) + outer_size <= pending =>
                 <<r.key, OuterWindow(r)>> \in OuterTriggered
<1>1. outer_fired' = outer_fired \cup {ResultOf(kw) : kw \in OuterTriggered}
  BY DEF OuterWatermark, ResultOf
<1>2. \A r : r \in outer_state' <=> r \in Fed /\ ~ (OuterWindow(r) + outer_size <= pending)
  BY DEF OuterWatermark, OuterComplete, Fed
<1>3. ASSUME NEW kw \in OuterTriggered
      PROVE  /\ kw[1] \in Keys /\ kw[2] \in Int /\ kw = <<kw[1], kw[2]>>
             /\ kw[2] + outer_size <= pending
             /\ ResultOf(kw).values # {}
  <2>1. PICK r \in Fed : kw = <<r.key, OuterWindow(r)>> /\ OuterWindow(r) + outer_size <= pending
    BY DEF OuterTriggered, OuterComplete
  <2>2. r.key \in Keys /\ OuterWindow(r) \in Int
    BY FedHave
  <2>3. kw[1] = r.key /\ kw[2] = OuterWindow(r)
    BY <2>1
  <2>4. r \in ResultOf(kw).values
    BY <2>3 DEF ResultOf
  <2> QED
    BY <2>1, <2>2, <2>3, <2>4
<1>4. \A r \in Fed : OuterWindow(r) + outer_size <= pending =>
         <<r.key, OuterWindow(r)>> \in OuterTriggered
  BY DEF OuterTriggered, OuterComplete
<1> QED
  BY <1>1, <1>2, <1>3, <1>4

LEMMA OuterHoldsNext ==
    ASSUME EventInvariant, OuterHolds, ProcessWatermark, OuterWatermark
    PROVE  OuterHolds'
<1>1. /\ outer_fired' = outer_fired \cup {ResultOf(kw) : kw \in OuterTriggered}
      /\ \A r : r \in outer_state' <=> r \in Fed /\ ~ (OuterWindow(r) + outer_size <= pending)
      /\ \A kw \in OuterTriggered :
            /\ kw[1] \in Keys /\ kw[2] \in Int /\ kw = <<kw[1], kw[2]>>
            /\ kw[2] + outer_size <= pending
            /\ ResultOf(kw).values # {}
      /\ \A r \in Fed : OuterWindow(r) + outer_size <= pending =>
            <<r.key, OuterWindow(r)>> \in OuterTriggered
  BY OuterFires
<1>2. fired' = fired \cup Triggers /\ Triggers \cap fired = {}
  BY TriggersAre
<1>3. \A r : OuterWindow(r)' = OuterWindow(r)
  BY DEF OuterWindow
<1>4. Fed = outer_state \cup Triggers /\ outer_state \subseteq fired
  BY DEF Fed, OuterHolds
<1>5. \A kw : /\ ResultOf(kw).key = kw[1] /\ ResultOf(kw).start = kw[2]
              /\ ResultOf(kw).values = {r \in Fed : r.key = kw[1] /\ OuterWindow(r) = kw[2]}
  BY DEF ResultOf
<1>6. outer_state' \subseteq fired'
  BY <1>1, <1>2, <1>4
<1>7. ASSUME NEW o \in outer_fired
      PROVE  /\ o.values \subseteq {r \in fired : r.key = o.key /\ OuterWindow(r) = o.start}
             /\ o.values \cap Fed = {}
  BY <1>2, <1>4 DEF OuterHolds
<1>8. ASSUME NEW o \in outer_fired'
      PROVE  /\ o.values \subseteq {r \in fired' : r.key = o.key /\ OuterWindow(r)' = o.start}
             /\ o.values \cap outer_state' = {}
  <2>1. CASE o \in outer_fired
    BY <1>1, <1>2, <1>3, <1>7, <2>1
  <2>2. ASSUME NEW kw \in OuterTriggered, o = ResultOf(kw)
        PROVE  /\ o.values \subseteq {r \in fired' : r.key = o.key /\ OuterWindow(r)' = o.start}
               /\ o.values \cap outer_state' = {}
    <3>1. o.values \subseteq {r \in fired' : r.key = o.key /\ OuterWindow(r)' = o.start}
      BY <1>2, <1>3, <1>4, <1>5, <2>2
    <3>2. \A r \in o.values : OuterWindow(r) = kw[2]
      BY <1>5, <2>2
    <3>3. kw[2] + outer_size <= pending
      BY <1>1
    <3> QED
      BY <1>1, <3>1, <3>2, <3>3
  <2> QED
    BY <1>1, <2>1, <2>2
<1>9. ASSUME NEW r \in fired'
      PROVE  r \in outer_state' \/ \E o \in outer_fired' : r \in o.values
  <2>1. CASE r \notin Fed
    BY <1>1, <1>2, <1>4, <2>1 DEF OuterHolds
  <2>2. CASE r \in Fed /\ OuterWindow(r) + outer_size <= pending
    <3>1. <<r.key, OuterWindow(r)>> \in OuterTriggered
      BY <1>1, <2>2
    <3>2. r \in ResultOf(<<r.key, OuterWindow(r)>>).values
      BY <1>5, <2>2
    <3> QED
      BY <1>1, <3>1, <3>2
  <2>3. CASE r \in Fed /\ ~ (OuterWindow(r) + outer_size <= pending)
    BY <1>1, <2>3
  <2> QED
    BY <2>1, <2>2, <2>3
<1>10. ASSUME NEW o1 \in outer_fired', NEW o2 \in outer_fired', o1.values \cap o2.values # {}
       PROVE  o1 = o2
  <2>1. CASE o1 \in outer_fired /\ o2 \in outer_fired
    BY <1>10, <2>1 DEF OuterHolds
  <2>2. ASSUME NEW kw1 \in OuterTriggered, NEW kw2 \in OuterTriggered,
               o1 = ResultOf(kw1), o2 = ResultOf(kw2)
        PROVE  o1 = o2
    <3>1. PICK r : r \in o1.values /\ r \in o2.values
      BY <1>10
    <3>2. r.key = kw1[1] /\ OuterWindow(r) = kw1[2] /\ r.key = kw2[1] /\ OuterWindow(r) = kw2[2]
      BY <1>5, <2>2, <3>1
    <3>3. kw1 = <<kw1[1], kw1[2]>> /\ kw2 = <<kw2[1], kw2[2]>>
      BY <1>1
    <3> QED
      BY <2>2, <3>2, <3>3
  <2>3. ASSUME NEW o \in outer_fired, NEW kw \in OuterTriggered
        PROVE  o.values \cap ResultOf(kw).values = {}
    BY <1>5, <1>7
  <2> QED
    BY <1>1, <1>10, <2>1, <2>2, <2>3
<1> QED
  BY <1>6, <1>8, <1>9, <1>10 DEF OuterHolds

LEMMA OuterIsOverNext ==
    ASSUME EventInvariant, OuterIsOver, OuterHolds, ProcessWatermark, OuterWatermark
    PROVE  OuterIsOver'
<1>1. /\ outer_fired' = outer_fired \cup {ResultOf(kw) : kw \in OuterTriggered}
      /\ \A kw \in OuterTriggered :
            /\ kw[1] \in Keys /\ kw[2] \in Int /\ kw = <<kw[1], kw[2]>>
            /\ kw[2] + outer_size <= pending
            /\ ResultOf(kw).values # {}
  BY OuterFires
<1>2. /\ highest' = highest /\ in_order' = in_order
      /\ held \subseteq held'
      /\ \A key \in Keys, start \in Starts :
            window_state'[<<key, start>>] # {} =>
               /\ window_state[<<key, start>>] # {}
               /\ <<key, start>> \notin held' => ~ (start + size <= pending)
  <2>1. PICK gone : Fires(gone)
    BY WindowsFire
  <2>2. held' = held \cup {kw \in Triggered : window_state'[kw] # {}}
    BY DEF OuterWatermark
  <2> QED
    BY <2>1, <2>2, WindowsFire, WindowsEmpty
<1>3. pending <= highest - max_out_of_orderness /\ pending \in Int /\ highest \in Int
      /\ max_out_of_orderness \in Int
  BY EventTimeAssumption
  DEF EventTimeAssumption, ProcessWatermark, WatermarksHold, EventTypeOK, EventInvariant
<1>4. \A kw : ResultOf(kw).start = kw[2]
  BY DEF ResultOf
<1>5. ASSUME NEW o \in outer_fired'
      PROVE  /\ o.start \in Int
             /\ o.start + outer_size <= highest - max_out_of_orderness
             /\ o.values # {}
             /\ in_order => \A key \in Keys, start \in Starts :
                   window_state'[<<key, start>>] # {} /\ <<key, start>> \notin held' =>
                      start + size > o.start + outer_size
  <2>1. CASE o \in outer_fired
    BY <1>2, <2>1 DEF OuterIsOver
  <2>2. ASSUME NEW kw \in OuterTriggered, o = ResultOf(kw)
        PROVE  /\ o.start \in Int
               /\ o.start + outer_size <= highest - max_out_of_orderness
               /\ o.values # {}
               /\ \A key \in Keys, start \in Starts :
                     window_state'[<<key, start>>] # {} /\ <<key, start>> \notin held' =>
                      start + size > o.start + outer_size
    <3>1. o.start = kw[2] /\ o.start \in Int /\ o.start + outer_size <= pending /\ o.values # {}
      BY <1>1, <1>4, <2>2
    <3>2. outer_size \in Int
      BY OperatorChainAssumption DEF OperatorChainAssumption
    <3>3. o.start + outer_size <= highest - max_out_of_orderness
      BY <1>3, <3>1, <3>2
    <3>4. ASSUME NEW key \in Keys, NEW start \in Starts, window_state'[<<key, start>>] # {},
                 <<key, start>> \notin held'
          PROVE  start + size > o.start + outer_size
      <4>1. ~ (start + size <= pending)
        BY <1>2, <3>4
      <4>2. start + size \in Int
        BY StartsAreInt
      <4> QED
        BY <1>3, <3>1, <3>2, <4>1, <4>2
    <3> QED
      BY <3>1, <3>3, <3>4
  <2> QED
    BY <1>1, <2>1, <2>2
<1> QED
  BY <1>2, <1>5 DEF OuterIsOver

LEMMA OuterIsOverElement ==
    ASSUME EventInvariant, OuterIsOver, NEW timestamp \in Timestamps, NEW side \in Sides,
           Element(timestamp, side), UNCHANGED behind
    PROVE  OuterIsOver'
<1>1. Read(timestamp) /\ outer_fired' = outer_fired /\ held' = held
  BY DEF Element, behind, operators
<1>2. \A key \in Keys, start \in Starts :
         window_state'[<<key, start>>] = window_state[<<key, start>>] \cup
            {n \in Added : stream'[n].key = key /\ start \in AssignWindows(timestamp)}
  BY WindowsGrow DEF EventInvariant
<1>3. /\ highest <= highest' /\ highest \in Int /\ highest' \in Int /\ timestamp \in Nat
      /\ max_out_of_orderness \in Int /\ outer_size \in Int /\ EventTypeOK
  BY <1>1, ReadStep, EventTimeAssumption, OperatorChainAssumption
  DEF EventTimeAssumption, OperatorChainAssumption, EventInvariant
<1>4. ASSUME NEW o \in outer_fired
      PROVE  /\ o.start \in Int /\ o.values # {}
             /\ o.start + outer_size <= highest' - max_out_of_orderness
  <2>1. /\ o.start \in Int /\ o.values # {}
        /\ o.start + outer_size <= highest - max_out_of_orderness
    BY DEF OuterIsOver
  <2> QED
    BY <1>3, <2>1
<1>5. ASSUME in_order', NEW o \in outer_fired, NEW key \in Keys, NEW start \in Starts,
             window_state'[<<key, start>>] # {}, <<key, start>> \notin held
      PROVE  start + size > o.start + outer_size
  <2>1. o.start + outer_size \in Int /\ o.start + outer_size <= highest - max_out_of_orderness
    BY <1>3 DEF OuterIsOver
  <2>2. in_order /\ o.start + outer_size <= timestamp
    BY <1>1, <1>3, <1>5, <2>1, InOrderIsLater
  <2>3. CASE window_state[<<key, start>>] # {}
    BY <1>5, <2>2, <2>3 DEF OuterIsOver
  <2>4. CASE start \in AssignWindows(timestamp)
    <3>1. timestamp < start + size /\ start + size \in Int
      BY <1>3, <2>4, AssignedHold, StartsAreInt
    <3> QED
      BY <1>3, <2>1, <2>2, <3>1
  <2> QED
    BY <1>2, <1>5, <2>3, <2>4
<1> QED
  BY <1>1, <1>4, <1>5 DEF OuterIsOver

LEMMA OuterFiresCompleteWatermark ==
    ASSUME EventInvariant, OuterInvariant, ProcessWatermark, OuterWatermark
    PROVE  OuterFiresComplete'
<1> USE DEF OuterInvariant
<1>1. /\ outer_fired' = outer_fired \cup {ResultOf(kw) : kw \in OuterTriggered}
      /\ \A kw \in OuterTriggered :
            /\ kw[1] \in Keys /\ kw[2] \in Int /\ kw = <<kw[1], kw[2]>>
            /\ kw[2] + outer_size <= pending
            /\ ResultOf(kw).values # {}
  BY OuterFires
<1>2. fired' = fired \cup Triggers /\ in_order' = in_order /\ held \subseteq held'
  BY WindowsFire, TriggersAre DEF OuterWatermark
<1>3. \A r : OuterWindow(r)' = OuterWindow(r)
  BY DEF OuterWindow
<1>4. \A kw : /\ ResultOf(kw).key = kw[1] /\ ResultOf(kw).start = kw[2]
              /\ ResultOf(kw).values = {r \in Fed : r.key = kw[1] /\ OuterWindow(r) = kw[2]}
  BY DEF ResultOf
<1>5. Fed = outer_state \cup Triggers /\ outer_state \subseteq fired
  BY DEF Fed, OuterHolds
<1> DEFINE in(o) == {r \in fired : r.key = o.key /\ OuterWindow(r) = o.start}
           next(o) == {r \in fired' : r.key = o.key /\ OuterWindow(r) = o.start}
<1>6. SUFFICES ASSUME in_order, NEW o \in outer_fired'
               PROVE  /\ o.values \subseteq next(o)
                      /\ \A x \in o.values, y \in next(o) :
                            <<x.key, x.start>> \notin held' /\ <<y.key, y.start>> \notin held' =>
                               y \in o.values
  BY <1>2, <1>3 DEF OuterFiresComplete
<1>7. \A old \in outer_fired :
         /\ old.values \subseteq in(old)
         /\ \A x \in old.values, y \in in(old) :
               <<x.key, x.start>> \notin held /\ <<y.key, y.start>> \notin held => y \in old.values
  BY <1>6 DEF OuterFiresComplete
<1>8. ASSUME NEW old \in outer_fired, NEW r \in Triggers, <<r.key, r.start>> \notin held
      PROVE  OuterWindow(r) # old.start
  <2>1. r.key \in Keys /\ r.start \in Starts /\ window_state[<<r.key, r.start>>] # {}
    BY TriggersAre
  <2>2. r.start + size > old.start + outer_size /\ old.start \in Int
    BY <1>6, <1>8, <2>1 DEF OuterIsOver
  <2>3. OuterWindow(r) \in Int /\ r.start + size < OuterWindow(r) + outer_size
    BY <2>1, OuterWindowHolds
  <2>4. r.start + size \in Int /\ outer_size \in Int
    BY <2>1, StartsAreInt, OperatorChainAssumption DEF OperatorChainAssumption
  <2> QED
    BY <2>2, <2>3, <2>4
<1>9. CASE o \in outer_fired
  <2>1. \A y \in next(o) : <<y.key, y.start>> \notin held' => y \in in(o)
    BY <1>2, <1>8, <1>9
  <2> QED
    BY <1>2, <1>7, <1>9, <2>1
<1>10. ASSUME NEW kw \in OuterTriggered, o = ResultOf(kw)
       PROVE  /\ o.values \subseteq next(o)
              /\ \A x \in o.values, y \in next(o) :
                    <<x.key, x.start>> \notin held' /\ <<y.key, y.start>> \notin held' =>
                       y \in o.values
  <2>1. o.values = {r \in Fed : r.key = o.key /\ OuterWindow(r) = o.start}
    BY <1>4, <1>10
  <2>2. SUFFICES ASSUME NEW x \in o.values, NEW y \in next(o),
                        <<x.key, x.start>> \notin held', <<y.key, y.start>> \notin held',
                        y \notin Fed
                 PROVE  FALSE
    BY <1>2, <1>5, <2>1
  <2>3. PICK old \in outer_fired : y \in old.values
    BY <1>2, <1>5, <2>2 DEF OuterHolds
  <2>4. old.key = o.key /\ old.start = o.start
    BY <2>2, <2>3 DEF OuterHolds
  <2>5. x \in Fed /\ x.key = o.key /\ OuterWindow(x) = o.start
    BY <2>1, <2>2
  <2>6. x \in outer_state
    BY <1>2, <1>5, <1>8, <2>2, <2>4, <2>5
  <2>7. x \in in(old)
    BY <1>5, <2>4, <2>5, <2>6
  <2>8. x \in old.values
    BY <1>2, <1>7, <2>2, <2>3, <2>7
  <2> QED
    BY <2>6, <2>8 DEF OuterHolds
<1> QED
  BY <1>1, <1>6, <1>9, <1>10

LEMMA OuterInvariantNext ==
    /\ EventInvariant /\ OuterInvariant /\ Saved!OuterInvariant
    /\ [ChainNext]_chainVars
    => OuterInvariant'
<1> SUFFICES ASSUME EventInvariant, OuterInvariant, Saved!OuterInvariant, [ChainNext]_chainVars
             PROVE  OuterInvariant'
  OBVIOUS
<1> USE DEF OuterInvariant
<1>1. CASE ChainWatermark
  <2>1. ProcessWatermark /\ OuterWatermark
    BY <1>1 DEF ChainWatermark
  <2> QED
    BY <2>1, OuterHoldsNext, OuterIsOverNext, OuterFiresCompleteWatermark
<1>2. ASSUME NEW timestamp \in Timestamps, NEW side \in Sides,
             Element(timestamp, side), UNCHANGED behind
      PROVE  OuterInvariant'
  <2>1. OuterIsOver'
    BY <1>2, OuterIsOverElement
  <2>2. Read(timestamp) /\ fired' = fired
    BY <1>2, ElementStep DEF EventInvariant
  <2>3. in_order' => in_order
    BY <2>2 DEF Read
  <2>4. outer_state' = outer_state /\ outer_fired' = outer_fired /\ held' = held
    BY <1>2 DEF behind, operators
  <2>5. OuterHolds' /\ OuterFiresComplete'
    BY <2>2, <2>3, <2>4 DEF OuterHolds, OuterFiresComplete, OuterWindow
  <2> QED
    BY <2>1, <2>5
<1>3. CASE ChainCheckpoint \/ UNCHANGED chainVars
  <2>1. UNCHANGED <<stream, highest, in_order, window_state, fired, outer_state, outer_fired, held>>
    BY <1>3 DEF ChainCheckpoint, Checkpoint, vars, source, windows, operators, behind, chainVars
  <2> QED
    BY <2>1 DEF OuterIsOver, OuterHolds, OuterFiresComplete, OuterWindow
<1>4. CASE ChainRecover
  <2> USE <1>4 DEF ChainRecover, Recover, Saved!OuterInvariant
  <2>1. OuterIsOver'
    BY DEF OuterIsOver, Starts, Saved!OuterIsOver, Saved!Starts
  <2>2. OuterHolds'
    BY DEF OuterHolds, OuterWindow, Saved!OuterHolds, Saved!OuterWindow
  <2>3. OuterFiresComplete'
    BY DEF OuterFiresComplete, OuterWindow, Saved!OuterFiresComplete, Saved!OuterWindow
  <2> QED
    BY <2>1, <2>2, <2>3
<1> QED
  BY <1>1, <1>2, <1>3, <1>4, ChainNextIs

LEMMA SavedOuter ==
    OuterInvariant /\ saved = Snapshot /\ behind_saved = BehindSnapshot => Saved!OuterInvariant
<1> SUFFICES ASSUME OuterInvariant, saved = Snapshot, behind_saved = BehindSnapshot
             PROVE  Saved!OuterInvariant
  OBVIOUS
<1> USE DEF OuterInvariant, Snapshot, BehindSnapshot
<1>1. Saved!OuterIsOver
  BY DEF OuterIsOver, Starts, Saved!OuterIsOver, Saved!Starts
<1>2. Saved!OuterHolds
  BY DEF OuterHolds, OuterWindow, Saved!OuterHolds, Saved!OuterWindow
<1>3. Saved!OuterFiresComplete
  BY DEF OuterFiresComplete, OuterWindow, Saved!OuterFiresComplete, Saved!OuterWindow
<1> QED
  BY <1>1, <1>2, <1>3 DEF Saved!OuterInvariant

LEMMA SavedOuterPrimed ==
    OuterInvariant' /\ (saved = Snapshot)' /\ (behind_saved = BehindSnapshot)'
    => Saved!OuterInvariant'
BY SavedOuter, PTL

LEMMA SnapshotsAreTaken ==
    ASSUME ChainCheckpoint
    PROVE  saved' = Snapshot' /\ behind_saved' = BehindSnapshot'
BY DEF ChainCheckpoint, Checkpoint, Snapshot, BehindSnapshot, source, windows, join, operators

LEMMA SavedUnlessCheckpoint ==
    ASSUME [ChainNext]_chainVars, ~ ChainCheckpoint
    PROVE  saved' = saved /\ behind_saved' = behind_saved
BY ChainNextIs
DEF ChainWatermark, ProcessWatermark, Element, ChainRecover, Recover, behind, chainVars, vars

LEMMA SavedOuterNext ==
    OuterInvariant' /\ Saved!OuterInvariant /\ [ChainNext]_chainVars => Saved!OuterInvariant'
<1> SUFFICES ASSUME OuterInvariant', Saved!OuterInvariant, [ChainNext]_chainVars
             PROVE  Saved!OuterInvariant'
  OBVIOUS
<1>1. CASE ChainCheckpoint
  BY <1>1, SnapshotsAreTaken, SavedOuterPrimed
<1>2. CASE ~ ChainCheckpoint
  <2> USE <1>2, SavedUnlessCheckpoint DEF Saved!OuterInvariant
  <2>1. Saved!OuterIsOver'
    BY DEF Saved!OuterIsOver, Saved!Starts
  <2>2. Saved!OuterHolds'
    BY DEF Saved!OuterHolds, Saved!OuterWindow
  <2>3. Saved!OuterFiresComplete'
    BY DEF Saved!OuterFiresComplete, Saved!OuterWindow
  <2> QED
    BY <2>1, <2>2, <2>3
<1> QED
  BY <1>1, <1>2

LEMMA OuterInvariantInit == ChainInit => OuterInvariant /\ Saved!OuterInvariant
<1> SUFFICES ASSUME ChainInit PROVE OuterInvariant /\ Saved!OuterInvariant
  OBVIOUS
<1>1. outer_fired = {} /\ outer_state = {} /\ fired = {}
  BY DEF ChainInit, Init
<1>2. OuterIsOver /\ OuterHolds /\ OuterFiresComplete
  BY <1>1 DEF OuterIsOver, OuterHolds, OuterFiresComplete
<1> QED
  BY <1>2, SavedOuter DEF OuterInvariant, ChainInit, Init

\* What holds of the chain and of its checkpoints.
ChainInvariant ==
    EventInvariant /\ Saved!EventInvariant /\ OuterInvariant /\ Saved!OuterInvariant

LEMMA ChainInvariantInit == ChainInit => ChainInvariant
BY EventInvariantInit, OuterInvariantInit DEF ChainInit, ChainInvariant

LEMMA ChainInvariantNext == ChainInvariant /\ [ChainNext]_chainVars => ChainInvariant'
BY ChainNextIs, EventInvariantNext, SavedEventsNext, OuterInvariantNext, SavedOuterNext
DEF ChainInvariant

(* For any sizes and slide, any disorder that the generator was told of and *)
(* recoveries at any time, a window over results of windows goes out with   *)
(* every result that will ever belong to it, but for those that a raising   *)
(* reduce function has held up.                                             *)
THEOREM OuterWindowsAreComplete == ChainSpec => []OuterFiresComplete
<1>1. ChainInvariant => OuterFiresComplete
  BY DEF ChainInvariant, OuterInvariant
<1> QED
  BY <1>1, ChainInvariantInit, ChainInvariantNext, PTL DEF ChainSpec
-----------------------------------------------------------------------------
(***************************************************************************)
(* The AggregateOperator and the sink behind it.                           *)
(***************************************************************************)

\* Behind place d a sequence grows, up to c.
After(s, d, c) ==
    \A i \in DOMAIN s : i > d => s[i] <= c /\ \A j \in DOMAIN s : i < j => s[i] < s[j]

SinkTypeOK == collected \in [Keys -> Seq(Nat)] /\ failures \in Nat

\* A recovery takes counts back, none of which is unwritten then that was not
\* before.
SinkHolds ==
    /\ \A k \in Keys : /\ After(collected[k], resumed[k], count[k])
                       /\ behind_saved.count[k] <= count[k]
    /\ IsFiniteSet(Unwritten) /\ Cardinality(Unwritten) <= failures

\* CountsHold of the checkpoint.  An instance would have a Cardinality of its own.
SavedCountsHold ==
    /\ behind_saved.count \in [Keys -> Nat]
    /\ behind_saved.cut \in [Keys -> Nat]
    /\ IsFiniteSet(saved.fired)
    /\ IsFiniteSet(behind_saved.outer_fired)
    /\ \A k \in Keys :
          behind_saved.count[k] + behind_saved.cut[k] =
             Cardinality({o \in behind_saved.outer_fired : o.key = k})

SinkInvariant == ChainInvariant /\ CountsHold /\ SavedCountsHold /\ SinkTypeOK /\ SinkHolds

LEMMA ImageIsFinite ==
    ASSUME NEW S, IsFiniteSet(S), NEW f, DOMAIN f = S
    PROVE  IsFiniteSet({f[x] : x \in S})
<1> DEFINE T == {f[x] : x \in S}
<1>1. [x \in S |-> f[x]] \in Surjection(S, T)
  BY DEF Surjection
<1> HIDE DEF T
<1>2. IsFiniteSet(T)
  BY <1>1, FS_Surjection
<1> QED
  BY <1>2 DEF T

LEMMA TriggersAreFinite ==
    ASSUME EventInvariant, ProcessWatermark
    PROVE  IsFiniteSet(Triggers)
<1>1. IsFiniteSet((DOMAIN stream) \X Starts)
  <2>1. Len(stream) \in Nat /\ DOMAIN stream = 1 .. Len(stream)
    BY LenProperties DEF EventInvariant, EventTypeOK
  <2>2. IsFiniteSet(DOMAIN stream)
    BY <2>1, FS_Interval
  <2>3. 1 - size \in Int /\ MaxTime \in Int
    BY EventTimeAssumption DEF EventTimeAssumption
  <2>4. IsFiniteSet(Starts)
    BY <2>3, FS_Interval DEF Starts
  <2> QED
    BY <2>2, <2>4, FS_Product
<1> DEFINE place == [x \in (DOMAIN stream) \X Starts |-> <<stream[x[1]].key, x[2]>>]
           places == {place[x] : x \in (DOMAIN stream) \X Starts}
<1>2. IsFiniteSet(places)
  <2>1. DOMAIN place = (DOMAIN stream) \X Starts
    OBVIOUS
  <2> HIDE DEF place
  <2> QED
    BY <1>1, <2>1, ImageIsFinite
<1>3. ASSUME NEW kw \in Triggered PROVE kw \in places
  <2>1. /\ kw[1] \in Keys /\ kw[2] \in Starts /\ kw = <<kw[1], kw[2]>>
        /\ window_state[<<kw[1], kw[2]>>] # {}
    BY DEF Triggered
  <2>2. PICK n \in DOMAIN stream : Belongs(n, kw[1], kw[2])
    BY <2>1 DEF EventInvariant, WindowsHold
  <2>3. <<n, kw[2]>> \in (DOMAIN stream) \X Starts /\ place[<<n, kw[2]>>] = kw
    BY <2>1, <2>2 DEF Belongs
  <2> HIDE DEF place
  <2> QED
    BY <2>3
<1>4. IsFiniteSet(Triggered)
  <2>1. Triggered \in SUBSET places
    BY <1>3
  <2> HIDE DEF places
  <2> QED
    BY <1>2, <2>1, FS_Subset
<1> DEFINE result == [kw \in Triggered |->
                         [key |-> kw[1], start |-> kw[2], values |-> window_state[kw]]]
<1>5. ResultsOf(Triggered) = {result[kw] : kw \in Triggered}
  BY DEF ResultsOf
<1>6. DOMAIN result = Triggered
  OBVIOUS
<1> HIDE DEF result
<1>7. IsFiniteSet(ResultsOf(Triggered))
  BY <1>4, <1>5, <1>6, ImageIsFinite
<1> QED
  BY <1>7, TriggersAre, FS_EmptySet

LEMMA OuterTriggeredIsFinite ==
    ASSUME EventInvariant, OuterInvariant, ProcessWatermark, IsFiniteSet(fired)
    PROVE  IsFiniteSet(OuterTriggered)
<1>1. IsFiniteSet(fired \cup Triggers)
  BY TriggersAreFinite, FS_Union
<1>2. OuterComplete(Fed) \in SUBSET (fired \cup Triggers)
  BY DEF OuterComplete, Fed, OuterInvariant, OuterHolds
<1>3. IsFiniteSet(OuterComplete(Fed))
  BY <1>1, <1>2, FS_Subset
<1> DEFINE window == [r \in OuterComplete(Fed) |-> <<r.key, OuterWindow(r)>>]
<1>4. OuterTriggered = {window[r] : r \in OuterComplete(Fed)}
  BY DEF OuterTriggered
<1>5. DOMAIN window = OuterComplete(Fed)
  OBVIOUS
<1> HIDE DEF window
<1> QED
  BY <1>3, <1>4, <1>5, ImageIsFinite

LEMMA OuterFiredIsFinite ==
    ASSUME EventInvariant, OuterInvariant, CountsHold, ProcessWatermark, OuterWatermark
    PROVE  IsFiniteSet(outer_fired')
<1> DEFINE result == [kw \in OuterTriggered |-> ResultOf(kw)]
<1>1. {ResultOf(kw) : kw \in OuterTriggered} = {result[kw] : kw \in OuterTriggered}
  OBVIOUS
<1>2. DOMAIN result = OuterTriggered
  OBVIOUS
<1>3. IsFiniteSet(OuterTriggered)
  BY OuterTriggeredIsFinite DEF CountsHold
<1> HIDE DEF result
<1>4. IsFiniteSet({ResultOf(kw) : kw \in OuterTriggered})
  BY <1>1, <1>2, <1>3, ImageIsFinite
<1>5. outer_fired' = outer_fired \cup {ResultOf(kw) : kw \in OuterTriggered}
  BY OuterFires DEF OuterInvariant
<1> QED
  BY <1>4, <1>5, FS_Union DEF CountsHold

\* The results of a key grow by one for each window of it that fires.
LEMMA ResultsGrow ==
    ASSUME EventInvariant, OuterInvariant, CountsHold, ProcessWatermark, OuterWatermark,
           NEW k \in Keys
    PROVE  /\ IsFiniteSet(OuterTriggered)
           /\ Of(k, OuterTriggered) \in Nat
           /\ Cardinality(Results(k)) \in Nat
           /\ Cardinality(Results(k)') = Cardinality(Results(k)) + Of(k, OuterTriggered)
<1>1. IsFiniteSet(OuterTriggered)
  BY OuterTriggeredIsFinite DEF CountsHold
<1>2. /\ outer_fired' = outer_fired \cup {ResultOf(kw) : kw \in OuterTriggered}
      /\ \A kw \in OuterTriggered :
            /\ kw[1] \in Keys /\ kw[2] \in Int /\ kw = <<kw[1], kw[2]>>
            /\ ResultOf(kw).values # {}
  BY OuterFires DEF OuterInvariant
<1> DEFINE W == {kw \in OuterTriggered : kw[1] = k}
           f == [kw \in W |-> ResultOf(kw)]
           R == {ResultOf(kw) : kw \in W}
<1>3. IsFiniteSet(W) /\ Cardinality(W) \in Nat /\ Of(k, OuterTriggered) = Cardinality(W)
  <2>1. W \in SUBSET OuterTriggered
    OBVIOUS
  <2>2. IsFiniteSet(W)
    BY <1>1, <2>1, FS_Subset
  <2> QED
    BY <2>2, FS_CardinalityType DEF Of
<1>4. \A kw : /\ ResultOf(kw).key = kw[1] /\ ResultOf(kw).start = kw[2]
              /\ ResultOf(kw).values = {r \in Fed : r.key = kw[1] /\ OuterWindow(r) = kw[2]}
  BY DEF ResultOf
<1>5. IsFiniteSet(R) /\ Cardinality(R) = Cardinality(W)
  <2>1. f \in [W -> R]
    OBVIOUS
  <2>2. \A kw1, kw2 \in W : f[kw1] = f[kw2] => kw1 = kw2
    <3> SUFFICES ASSUME NEW kw1 \in W, NEW kw2 \in W, ResultOf(kw1) = ResultOf(kw2)
                 PROVE  kw1 = kw2
      OBVIOUS
    <3>1. kw1[1] = kw2[1] /\ kw1[2] = kw2[2]
      BY <1>4
    <3>2. kw1 = <<kw1[1], kw1[2]>> /\ kw2 = <<kw2[1], kw2[2]>>
      BY <1>2
    <3> QED
      BY <3>1, <3>2
  <2>3. \A o \in R : \E kw \in W : f[kw] = o
    OBVIOUS
  <2> HIDE DEF f, R, W
  <2>4. f \in Bijection(W, R)
    BY <2>1, <2>2, <2>3 DEF Bijection, Injection, Surjection, IsInjective
  <2> QED
    BY <1>3, <2>4, FS_Bijection DEF ExistsBijection
<1>6. Results(k)' = Results(k) \cup R
  BY <1>2, <1>4 DEF Results
<1>7. Results(k) \cap R = {}
  <2>1. ASSUME NEW o \in outer_fired, NEW kw \in OuterTriggered PROVE o # ResultOf(kw)
    <3>1. o.values \subseteq fired /\ o.values \cap outer_state = {}
      BY DEF OuterInvariant, OuterHolds
    <3>2. Triggers \cap fired = {}
      BY TriggersAre
    <3>3. ResultOf(kw).values \subseteq Fed /\ ResultOf(kw).values # {}
      BY <1>2, <1>4
    <3> QED
      BY <3>1, <3>2, <3>3 DEF Fed
  <2> QED
    BY <2>1 DEF Results
<1>8. IsFiniteSet(Results(k)) /\ Cardinality(Results(k)) \in Nat
  <2>1. Results(k) \in SUBSET outer_fired
    BY DEF Results
  <2>2. IsFiniteSet(Results(k))
    BY <2>1, FS_Subset DEF CountsHold
  <2> QED
    BY <2>2, FS_CardinalityType
<1> HIDE DEF R, W
<1>9. Cardinality(Results(k) \cup R)
          = Cardinality(Results(k)) + Cardinality(R) - Cardinality(Results(k) \cap R)
  BY <1>5, <1>8, FS_Union
<1>10. Cardinality(Results(k) \cap R) = 0
  <2>1. Cardinality({}) = 0
    BY FS_EmptySet
  <2> QED
    BY <1>7, <2>1
<1>11. Cardinality(Results(k)') = Cardinality(Results(k)) + Cardinality(W)
  <2>1. \A r, w, c \in Nat : c = r + w - 0 => c = r + w
    OBVIOUS
  <2>2. Cardinality(Results(k)') = Cardinality(Results(k) \cup R)
    BY <1>6
  <2>3. Cardinality(Results(k) \cup R) = Cardinality(Results(k)) + Cardinality(W) - 0
    BY <1>5, <1>9, <1>10
  <2> QED
    BY <1>3, <1>8, <2>2, <2>3
<1> QED
  BY <1>1, <1>3, <1>8, <1>11

\* What the sink has of a key when m more counts of it are written.
LEMMA CountsAreWritten ==
    ASSUME NEW s \in Seq(Nat), NEW c \in Nat, NEW m \in Nat, NEW d, After(s, d, c)
    PROVE  LET t == s \o [i \in 1 .. m |-> c + i]
           IN  /\ t \in Seq(Nat)
               /\ ToSet(s) \cup (c + 1 .. c + m) \subseteq ToSet(t)
               /\ After(t, d, c + m)
<1> DEFINE u == [i \in 1 .. m |-> c + i]
           t == s \o u
           L == Len(s)
<1>1. u \in Seq(Nat) /\ Len(u) = m
  <2>1. \A i \in 1 .. m : c + i \in Nat
    OBVIOUS
  <2>2. u \in Seq(Nat)
    BY <2>1, IsASeq
  <2> QED
    BY <2>2, LenProperties
<1>2. \A i \in 1 .. m : u[i] = c + i
  OBVIOUS
<1> HIDE DEF u
<1>3. /\ L \in Nat /\ DOMAIN s = 1 .. L
      /\ t \in Seq(Nat) /\ DOMAIN t = 1 .. L + m
      /\ \A i \in 1 .. L + m : t[i] = IF i <= L THEN s[i] ELSE u[i - L]
  <2>1. /\ t \in Seq(Nat) /\ Len(t) = Len(s) + Len(u)
        /\ \A i \in 1 .. Len(s) + Len(u) : t[i] = IF i <= Len(s) THEN s[i] ELSE u[i - Len(s)]
    BY <1>1, ConcatProperties
  <2>2. Len(s) \in Nat /\ DOMAIN s = 1 .. Len(s) /\ DOMAIN t = 1 .. Len(t)
    BY <2>1, LenProperties
  <2> HIDE DEF t
  <2> QED
    BY <1>1, <2>1, <2>2
<1> HIDE DEF t, L
<1>4. \A i \in 1 .. L + m : i > L => t[i] = c + (i - L) /\ t[i] > c /\ t[i] <= c + m
  <2> SUFFICES ASSUME NEW i \in 1 .. L + m, i > L
               PROVE  t[i] = c + (i - L) /\ t[i] > c /\ t[i] <= c + m
    OBVIOUS
  <2>1. i - L \in 1 .. m /\ i \in Int /\ L \in Int /\ ~ (i <= L)
    BY <1>3
  <2>2. t[i] = u[i - L]
    BY <1>3, <2>1, Zenon
  <2>3. u[i - L] = c + (i - L)
    BY <1>2, <2>1
  <2>4. t[i] = c + (i - L)
    BY <2>2, <2>3
  <2> QED
    BY <1>3, <2>1, <2>4
<1>5. \A i \in 1 .. L : t[i] = s[i] /\ t[i] \in Nat
  <2> SUFFICES ASSUME NEW i \in 1 .. L PROVE t[i] = s[i] /\ t[i] \in Nat
    OBVIOUS
  <2>1. t[i] = s[i]
    BY <1>3
  <2>2. s[i] \in Nat
    BY <1>3, ElementOfSeq DEF L
  <2> QED
    BY <2>1, <2>2
<1>6. ASSUME NEW i \in DOMAIN t, i > d
      PROVE  t[i] <= c + m /\ \A j \in DOMAIN t : i < j => t[i] < t[j]
  <2>1. CASE i > L
    <3>1. i \in 1 .. L + m /\ t[i] = c + (i - L) /\ t[i] <= c + m
      BY <1>3, <1>4, <2>1
    <3>2. ASSUME NEW j \in DOMAIN t, i < j PROVE t[i] < t[j]
      <4>1. j \in 1 .. L + m /\ j > L
        BY <1>3, <2>1, <3>1, <3>2
      <4>2. t[j] = c + (j - L)
        BY <1>4, <4>1
      <4> QED
        BY <1>3, <3>1, <3>2, <4>1, <4>2
    <3> QED
      BY <3>1, <3>2
  <2>2. CASE i <= L
    <3>1. i \in 1 .. L /\ t[i] = s[i] /\ t[i] \in Nat
      BY <1>3, <1>5, <2>2
    <3>2. t[i] <= c /\ \A j \in 1 .. L : i < j => t[i] < s[j]
      BY <1>3, <1>6, <3>1 DEF After
    <3>3. ASSUME NEW j \in DOMAIN t, i < j PROVE t[i] < t[j]
      <4>1. CASE j <= L
        <5>1. j \in 1 .. L /\ t[j] = s[j]
          BY <1>3, <1>5, <4>1
        <5> QED
          BY <3>2, <3>3, <5>1
      <4>2. CASE j > L
        <5>1. t[j] = c + (j - L) /\ t[j] > c /\ j \in Int
          BY <1>3, <1>4, <4>2
        <5> QED
          BY <1>3, <3>1, <3>2, <5>1
      <4> QED
        BY <1>3, <4>1, <4>2
    <3>4. t[i] <= c + m
      BY <3>1, <3>2
    <3> QED
      BY <3>3, <3>4
  <2> QED
    BY <1>3, <2>1, <2>2
<1>7. ToSet(s) \cup (c + 1 .. c + m) \subseteq ToSet(t)
  <2>1. ASSUME NEW x \in ToSet(s) PROVE x \in ToSet(t)
    <3>1. PICK i \in 1 .. L : x = s[i]
      BY <1>3 DEF ToSet
    <3>2. i \in DOMAIN t /\ t[i] = x
      BY <1>3, <1>5, <3>1
    <3> QED
      BY <3>2 DEF ToSet
  <2>2. ASSUME NEW x \in c + 1 .. c + m PROVE x \in ToSet(t)
    <3> DEFINE i == L + (x - c)
    <3>1. i \in 1 .. L + m /\ i > L /\ c + (i - L) = x
      BY <1>3
    <3> HIDE DEF i
    <3>2. i \in DOMAIN t /\ t[i] = x
      BY <1>3, <1>4, <3>1
    <3> QED
      BY <3>2 DEF ToSet
  <2> QED
    BY <2>1, <2>2
<1>8. After(t, d, c + m)
  BY <1>6 DEF After
<1> QED
  BY <1>3, <1>7, <1>8 DEF t, u

\* How many of a set of windows are a key's.
LEMMA OfParts ==
    ASSUME NEW S, IsFiniteSet(S), NEW T \in SUBSET S, NEW k
    PROVE  /\ Of(k, S) \in Nat /\ Of(k, T) \in Nat /\ Of(k, S \ T) \in Nat
           /\ Of(k, S) = Of(k, T) + Of(k, S \ T)
<1> DEFINE of(R) == {kw \in R : kw[1] = k}
<1>1. IsFiniteSet(T) /\ IsFiniteSet(S \ T)
  BY FS_Subset
<1>2. of(S) \in SUBSET S /\ of(T) \in SUBSET T /\ of(S \ T) \in SUBSET (S \ T)
  OBVIOUS
<1>3. of(S) = of(T) \cup of(S \ T) /\ of(T) \cap of(S \ T) = {}
  OBVIOUS
<1>4. Of(k, S) = Cardinality(of(S)) /\ Of(k, T) = Cardinality(of(T))
      /\ Of(k, S \ T) = Cardinality(of(S \ T))
  BY DEF Of
<1> HIDE DEF of
<1>5. IsFiniteSet(of(S)) /\ IsFiniteSet(of(T)) /\ IsFiniteSet(of(S \ T))
  BY <1>1, <1>2, FS_Subset
<1>6. Cardinality(of(S)) \in Nat /\ Cardinality(of(T)) \in Nat /\ Cardinality(of(S \ T)) \in Nat
  BY <1>5, FS_CardinalityType
<1>7. Cardinality(of(T) \cup of(S \ T)) =
         Cardinality(of(T)) + Cardinality(of(S \ T)) - Cardinality(of(T) \cap of(S \ T))
  BY <1>5, FS_Union
<1>8. Cardinality({}) = 0
  BY FS_EmptySet
<1>9. Cardinality(of(S)) = Cardinality(of(T)) + Cardinality(of(S \ T)) - 0
  BY <1>3, <1>7, <1>8
<1>10. \A a, b, c \in Nat : a = b + c - 0 => a = b + c
  OBVIOUS
<1>11. Cardinality(of(S)) = Cardinality(of(T)) + Cardinality(of(S \ T))
  BY <1>6, <1>9, <1>10
<1> QED
  BY <1>4, <1>6, <1>11

LEMMA OfOne ==
    ASSUME NEW w, NEW k
    PROVE  Of(k, {w}) = IF w[1] = k THEN 1 ELSE 0
<1>1. {kw \in {w} : kw[1] = k} = IF w[1] = k THEN {w} ELSE {}
  OBVIOUS
<1>2. Cardinality({w}) = 1 /\ Cardinality({}) = 0
  BY FS_Singleton, FS_EmptySet
<1> QED
  BY <1>1, <1>2 DEF Of

\* The AggregateOperator counts the windows in 'counted', and the sink writes
\* those in 'written', all but at most one.
Sends(counted, written) ==
    /\ counted \subseteq OuterTriggered
    /\ Aggregate(counted) /\ Collect(written)
    /\ cut' = [k \in Keys |-> cut'[k]]
    /\ \A k \in Keys : cut'[k] = cut[k] + Of(k, OuterTriggered \ counted)
    /\ \/ written = counted /\ failures' \in {failures, failures + 1}
       \/ \E failing \in counted : written = counted \ {failing} /\ failures' = failures + 1

LEMMA SendsAre ==
    ASSUME CountsHold, ChainWatermark
    PROVE  \E counted, written : Sends(counted, written)
<1>1. CASE Aggregate(OuterTriggered) /\ Collect(OuterTriggered) /\ UNCHANGED <<failures, cut>>
  <2>1. ASSUME NEW k PROVE Of(k, OuterTriggered \ OuterTriggered) = 0
    <3>1. {kw \in OuterTriggered \ OuterTriggered : kw[1] = k} = {}
      OBVIOUS
    <3> QED
      BY <3>1, FS_EmptySet DEF Of
  <2>2. cut' = [k \in Keys |-> cut'[k]]
        /\ \A k \in Keys : cut'[k] = cut[k] + Of(k, OuterTriggered \ OuterTriggered)
    BY <1>1, <2>1 DEF CountsHold
  <2>3. Sends(OuterTriggered, OuterTriggered)
    BY <1>1, <2>2 DEF Sends
  <2> QED
    BY <2>3
<1>2. ASSUME NEW failing \in OuterTriggered, NEW written \in SUBSET (OuterTriggered \ {failing}),
             SinkRaises(written, failing)
      PROVE  \E counted, sent : Sends(counted, sent)
  <2> DEFINE counted == written \cup {failing}
  <2>1. /\ Aggregate(counted) /\ (Collect(written) \/ Collect(counted))
        /\ failures' = failures + 1
        /\ cut' = [k \in Keys |-> cut[k] + Of(k, OuterTriggered \ counted)]
    BY <1>2 DEF SinkRaises
  <2>2. counted \subseteq OuterTriggered /\ failing \in counted /\ written = counted \ {failing}
    OBVIOUS
  <2> HIDE DEF counted
  <2>3. cut' = [k \in Keys |-> cut'[k]]
        /\ \A k \in Keys : cut'[k] = cut[k] + Of(k, OuterTriggered \ counted)
    BY <2>1
  <2>4. Sends(counted, written) \/ Sends(counted, counted)
    BY <2>1, <2>2, <2>3 DEF Sends
  <2> QED
    BY <2>4
<1> QED
  BY <1>1, <1>2 DEF ChainWatermark

\* What the AggregateOperator and the sink do for a key.
LEMMA SinkStep ==
    ASSUME CountsHold, SinkTypeOK, SinkHolds, NEW k \in Keys, NEW counted, NEW written,
           Of(k, counted) \in Nat, Of(k, written) \in Nat,
           Of(k, written) <= Of(k, counted), Aggregate(counted), Collect(written)
    PROVE  /\ count'[k] = count[k] + Of(k, counted) /\ count'[k] \in Nat
           /\ collected'[k] \in Seq(Nat)
           /\ After(collected'[k], resumed[k], count'[k])
           /\ ToSet(collected[k]) \cup (count[k] + 1 .. count[k] + Of(k, written))
                 \subseteq ToSet(collected'[k])
<1> DEFINE m == Of(k, written)
           t == collected[k] \o [i \in 1 .. m |-> count[k] + i]
<1>1. count[k] \in Nat /\ collected[k] \in Seq(Nat)
  BY DEF SinkTypeOK, CountsHold
<1>2. count'[k] = count[k] + Of(k, counted) /\ count'[k] \in Nat
  BY <1>1 DEF Aggregate, Counted
<1>3. collected'[k] = t
  <2>1. collected'[k] = collected[k] \o [i \in 1 .. m |-> (count[k] + m) - m + i]
    BY DEF Collect, Counted
  <2> HIDE DEF m
  <2>2. \A i \in 1 .. m : (count[k] + m) - m + i = count[k] + i
    BY <1>1 DEF m
  <2> QED
    BY <2>1, <2>2
<1>4. After(collected[k], resumed[k], count[k])
  BY DEF SinkHolds
<1>5. m \in Nat
  OBVIOUS
<1> HIDE DEF m
<1>6. /\ t \in Seq(Nat) /\ After(t, resumed[k], count[k] + m)
      /\ ToSet(collected[k]) \cup (count[k] + 1 .. count[k] + m) \subseteq ToSet(t)
  BY <1>1, <1>4, <1>5, CountsAreWritten
<1>7. After(t, resumed[k], count'[k])
  <2> HIDE DEF t
  <2>1. count'[k] = count[k] + Of(k, counted) /\ Of(k, counted) \in Nat /\ m <= Of(k, counted)
    BY <1>2 DEF m
  <2>2. ASSUME NEW i \in DOMAIN t, t[i] <= count[k] + m PROVE t[i] <= count'[k]
    <3>1. t[i] \in Nat
      BY <1>6, ElementOfSeq
    <3> QED
      BY <1>1, <1>5, <2>1, <2>2, <3>1
  <2> QED
    BY <1>6, <2>2 DEF After
<1> HIDE DEF t
<1> QED
  BY <1>2, <1>3, <1>6, <1>7 DEF m

LEMMA CountsHoldWatermark ==
    ASSUME EventInvariant, OuterInvariant, CountsHold, ProcessWatermark, OuterWatermark,
           NEW counted, NEW written, Sends(counted, written)
    PROVE  CountsHold'
<1>1. ASSUME NEW k \in Keys
      PROVE  /\ IsFiniteSet(OuterTriggered)
             /\ Of(k, OuterTriggered) \in Nat
             /\ Cardinality(Results(k)) \in Nat
             /\ Cardinality(Results(k)') = Cardinality(Results(k)) + Of(k, OuterTriggered)
  BY ResultsGrow
<1>2. IsFiniteSet(fired') /\ IsFiniteSet(outer_fired')
  <2>1. fired' = fired \cup Triggers /\ IsFiniteSet(Triggers)
    BY TriggersAre, TriggersAreFinite
  <2> QED
    BY <2>1, FS_Union, OuterFiredIsFinite DEF CountsHold
<1>3. ASSUME NEW k \in Keys
      PROVE  /\ count'[k] \in Nat /\ cut'[k] \in Nat
             /\ count'[k] + cut'[k] = Cardinality(Results(k)')
  <2>1. /\ Of(k, counted) \in Nat /\ Of(k, OuterTriggered \ counted) \in Nat
        /\ Of(k, OuterTriggered) = Of(k, counted) + Of(k, OuterTriggered \ counted)
    <3>1. counted \in SUBSET OuterTriggered /\ IsFiniteSet(OuterTriggered)
      BY <1>1 DEF Sends
    <3> QED
      BY <3>1, OfParts
  <2>2. count'[k] = count[k] + Of(k, counted)
    BY DEF Sends, Aggregate, Counted
  <2>3. cut'[k] = cut[k] + Of(k, OuterTriggered \ counted)
    BY DEF Sends
  <2>4. count[k] \in Nat /\ cut[k] \in Nat /\ count[k] + cut[k] = Cardinality(Results(k))
    BY DEF CountsHold
  <2> QED
    BY <1>1, <2>1, <2>2, <2>3, <2>4
<1>4. count' = [k \in Keys |-> count'[k]] /\ cut' = [k \in Keys |-> cut'[k]]
  BY DEF Sends, Aggregate
<1>5. count' \in [Keys -> Nat] /\ cut' \in [Keys -> Nat]
  BY <1>3, <1>4
<1> QED
  BY <1>2, <1>3, <1>5 DEF CountsHold

\* No send leaves a count unwritten but a failed one, and that one at most.
LEMMA UnwrittenStep ==
    ASSUME CountsHold, SinkTypeOK, SinkHolds, IsFiniteSet(OuterTriggered),
           NEW counted, NEW written, Sends(counted, written)
    PROVE  SinkTypeOK' /\ IsFiniteSet(Unwritten') /\ Cardinality(Unwritten') <= failures'
           /\ \A k \in Keys : /\ After(collected'[k], resumed[k], count'[k])
                              /\ count[k] <= count'[k]
<1>1. counted \in SUBSET OuterTriggered /\ written \in SUBSET counted
  BY DEF Sends
<1>2. IsFiniteSet(counted)
  BY <1>1, FS_Subset
<1>3. ASSUME NEW k \in Keys
      PROVE  /\ Of(k, counted) \in Nat /\ Of(k, written) \in Nat
             /\ Of(k, counted) = Of(k, written) + Of(k, counted \ written)
             /\ Of(k, counted \ written) \in Nat
  BY <1>1, <1>2, OfParts
<1>4. ASSUME NEW k \in Keys
      PROVE  /\ count'[k] = count[k] + Of(k, counted) /\ count'[k] \in Nat
             /\ collected'[k] \in Seq(Nat)
             /\ After(collected'[k], resumed[k], count'[k])
             /\ ToSet(collected[k]) \cup (count[k] + 1 .. count[k] + Of(k, written))
                   \subseteq ToSet(collected'[k])
  <2>1. Of(k, counted) \in Nat /\ Of(k, written) \in Nat /\ Of(k, written) <= Of(k, counted)
    BY <1>3
  <2> QED
    BY <2>1, SinkStep DEF Sends
<1>5. SinkTypeOK'
  <2>1. collected' = [k \in Keys |-> collected'[k]]
    BY DEF Sends, Collect
  <2>2. collected' \in [Keys -> Seq(Nat)]
    BY <1>4, <2>1
  <2>3. failures' \in Nat
    BY DEF Sends, SinkTypeOK
  <2> QED
    BY <2>2, <2>3 DEF SinkTypeOK
<1>6. \A k \in Keys : count[k] \in Nat /\ count[k] <= count'[k]
  BY <1>3, <1>4 DEF CountsHold
<1>7. ASSUME NEW u \in Unwritten', u \notin Unwritten
      PROVE  \E k \in Keys : /\ u = <<k, u[2]>> /\ u[2] \in Nat
                            /\ count[k] + Of(k, written) < u[2] /\ u[2] <= count[k] + Of(k, counted)
  <2>1. PICK k \in Keys : u \in {k} \X ((1 .. count'[k]) \ ToSet(collected'[k]))
    BY DEF Unwritten
  <2>2. u = <<k, u[2]>> /\ u[2] \in 1 .. count'[k] /\ u[2] \notin ToSet(collected'[k])
    BY <2>1
  <2>3. u[2] \notin ToSet(collected[k])
        /\ u[2] \notin count[k] + 1 .. count[k] + Of(k, written)
    BY <1>4, <2>2
  <2>4. u[2] \notin 1 .. count[k]
    BY <1>7, <2>2, <2>3 DEF Unwritten
  <2>5. count[k] \in Nat /\ Of(k, written) \in Nat /\ Of(k, counted) \in Nat
        /\ count'[k] = count[k] + Of(k, counted)
    BY <1>3, <1>4, <1>6
  <2>6. u[2] \in Nat /\ count[k] + Of(k, written) < u[2] /\ u[2] <= count[k] + Of(k, counted)
    BY <2>2, <2>3, <2>4, <2>5
  <2> QED
    BY <2>2, <2>6
<1>8. CASE written = counted
  <2>1. Unwritten' \in SUBSET Unwritten
    <3>1. ASSUME NEW u \in Unwritten', u \notin Unwritten PROVE FALSE
      <4>1. PICK k \in Keys : /\ u[2] \in Nat /\ count[k] + Of(k, written) < u[2]
                              /\ u[2] <= count[k] + Of(k, counted)
        BY <1>7, <3>1
      <4>2. count[k] + Of(k, counted) \in Nat
        BY <1>3, <1>6
      <4> QED
        BY <1>8, <4>1, <4>2
    <3> QED
      BY <3>1
  <2>2. IsFiniteSet(Unwritten') /\ Cardinality(Unwritten') <= Cardinality(Unwritten)
    BY <2>1, FS_Subset DEF SinkHolds
  <2>3. Cardinality(Unwritten) \in Nat /\ Cardinality(Unwritten') \in Nat
    BY <2>2, FS_CardinalityType DEF SinkHolds
  <2>4. Cardinality(Unwritten') <= failures'
    <3>1. Cardinality(Unwritten) <= failures /\ failures \in Nat
          /\ failures' \in {failures, failures + 1}
      BY DEF SinkHolds, SinkTypeOK, Sends
    <3> QED
      BY <2>2, <2>3, <3>1
  <2> QED
    BY <1>4, <1>5, <1>6, <2>2, <2>4
<1>9. CASE written # counted
  <2>1. PICK failing \in counted : written = counted \ {failing} /\ failures' = failures + 1
    BY <1>9 DEF Sends
  <2> DEFINE lost == <<failing[1], count[failing[1]] + Of(failing[1], counted)>>
  <2>2. ASSUME NEW u \in Unwritten', u \notin Unwritten PROVE u = lost
    <3>1. PICK k \in Keys : /\ u = <<k, u[2]>> /\ u[2] \in Nat
                            /\ count[k] + Of(k, written) < u[2]
                            /\ u[2] <= count[k] + Of(k, counted)
      BY <1>7, <2>2
    <3>2. Of(k, counted) = Of(k, written) + (IF failing[1] = k THEN 1 ELSE 0)
      <4>1. counted \ written = {failing}
        BY <2>1
      <4> QED
        BY <1>3, <4>1, OfOne
    <3>3. count[k] \in Nat /\ Of(k, written) \in Nat
      BY <1>3, <1>6
    <3>4. failing[1] = k
      <4>1. failing[1] # k => Of(k, counted) = Of(k, written)
        BY <3>2, <3>3
      <4>2. count[k] + Of(k, written) # count[k] + Of(k, counted) \/ ~ (u[2] \in Nat)
        BY <3>1, <3>3
      <4> QED
        BY <3>1, <4>1, <4>2
    <3>5. u[2] = count[k] + Of(k, counted)
      <4>1. Of(k, counted) = Of(k, written) + 1
        BY <3>2, <3>4
      <4>2. u[2] \in Nat /\ count[k] + Of(k, written) < u[2]
            /\ u[2] <= count[k] + (Of(k, written) + 1)
        BY <3>1, <4>1
      <4> QED
        BY <3>3, <4>1, <4>2
    <3> QED
      BY <3>1, <3>4, <3>5
  <2> HIDE DEF lost
  <2>3. Unwritten' \in SUBSET (Unwritten \cup {lost})
    BY <2>2
  <2>4. IsFiniteSet(Unwritten) /\ Cardinality(Unwritten) \in Nat
    BY FS_CardinalityType DEF SinkHolds
  <2>5. /\ IsFiniteSet(Unwritten \cup {lost})
        /\ Cardinality(Unwritten \cup {lost}) \in {Cardinality(Unwritten), Cardinality(Unwritten) + 1}
    BY <2>4, FS_AddElement
  <2>6. IsFiniteSet(Unwritten') /\ Cardinality(Unwritten') <= Cardinality(Unwritten \cup {lost})
    BY <2>3, <2>5, FS_Subset
  <2>7. Cardinality(Unwritten') \in Nat
    BY <2>6, FS_CardinalityType
  <2>8. Cardinality(Unwritten') <= failures'
    <3>1. Cardinality(Unwritten) <= failures /\ failures \in Nat
      BY DEF SinkHolds, SinkTypeOK
    <3> QED
      BY <2>1, <2>4, <2>5, <2>6, <2>7, <3>1
  <2> QED
    BY <1>4, <1>5, <1>6, <2>6, <2>8
<1> QED
  BY <1>8, <1>9

LEMMA SinkWatermark ==
    ASSUME SinkInvariant, ChainWatermark
    PROVE  CountsHold' /\ SinkTypeOK' /\ SinkHolds'
<1>1. /\ EventInvariant /\ OuterInvariant /\ CountsHold /\ SinkTypeOK /\ SinkHolds
      /\ ProcessWatermark /\ OuterWatermark
      /\ resumed' = resumed /\ behind_saved' = behind_saved
  BY DEF SinkInvariant, ChainInvariant, ChainWatermark
<1>2. PICK counted, written : Sends(counted, written)
  BY <1>1, SendsAre
<1>3. CountsHold'
  BY <1>1, <1>2, CountsHoldWatermark
<1>4. IsFiniteSet(OuterTriggered)
  BY <1>1, OuterTriggeredIsFinite DEF CountsHold
<1>5. /\ SinkTypeOK' /\ IsFiniteSet(Unwritten') /\ Cardinality(Unwritten') <= failures'
      /\ \A k \in Keys : /\ After(collected'[k], resumed[k], count'[k])
                         /\ count[k] <= count'[k]
  BY <1>1, <1>2, <1>4, UnwrittenStep
<1>6. ASSUME NEW k \in Keys PROVE behind_saved'.count[k] <= count'[k]
  <2>1. behind_saved.count[k] \in Nat /\ count[k] \in Nat /\ count'[k] \in Nat
    BY <1>1, <1>3 DEF SinkInvariant, CountsHold, SavedCountsHold
  <2>2. behind_saved.count[k] <= count[k]
    BY <1>1 DEF SinkHolds
  <2> QED
    BY <1>1, <1>5, <2>1, <2>2
<1> QED
  BY <1>1, <1>3, <1>5, <1>6 DEF SinkHolds

LEMMA SinkRecover ==
    ASSUME SinkInvariant, ChainRecover
    PROVE  CountsHold' /\ SinkTypeOK' /\ SinkHolds'
<1> USE DEF SinkInvariant
<1>1. CountsHold'
  BY DEF ChainRecover, Recover, CountsHold, Results, SavedCountsHold
<1>2. count' = behind_saved.count /\ collected' = collected /\ failures' = failures
      /\ behind_saved' = behind_saved
  BY DEF ChainRecover
<1>3. \A k \in Keys : count'[k] \in Nat /\ count[k] \in Nat /\ count'[k] <= count[k]
  BY <1>2 DEF CountsHold, SavedCountsHold, SinkHolds
<1>4. Unwritten' \in SUBSET Unwritten
  <2>1. \A k \in Keys : 1 .. count'[k] \subseteq 1 .. count[k]
    BY <1>3
  <2> QED
    BY <1>2, <2>1 DEF Unwritten
<1>5. IsFiniteSet(Unwritten') /\ Cardinality(Unwritten') <= Cardinality(Unwritten)
  BY <1>4, FS_Subset DEF SinkHolds
<1>6. Cardinality(Unwritten') <= failures'
  <2>1. Cardinality(Unwritten) \in Nat /\ Cardinality(Unwritten') \in Nat
    BY <1>5, FS_CardinalityType DEF SinkHolds
  <2> QED
    BY <1>2, <1>5, <2>1 DEF SinkHolds, SinkTypeOK
<1>7. ASSUME NEW k \in Keys PROVE After(collected'[k], resumed'[k], count'[k])
  <2>1. resumed'[k] = Len(collected[k]) /\ collected[k] \in Seq(Nat)
    BY DEF ChainRecover, SinkTypeOK
  <2>2. \A i \in DOMAIN collected[k] : ~ (i > resumed'[k])
    BY <2>1, LenProperties
  <2> QED
    BY <1>2, <2>2 DEF After
<1> QED
  BY <1>1, <1>2, <1>3, <1>5, <1>6, <1>7 DEF SinkTypeOK, SinkHolds

LEMMA SavedCounts ==
    CountsHold /\ saved = Snapshot /\ behind_saved = BehindSnapshot => SavedCountsHold
BY DEF Snapshot, BehindSnapshot, CountsHold, Results, SavedCountsHold

LEMMA SavedCountsPrimed ==
    CountsHold' /\ (saved = Snapshot)' /\ (behind_saved = BehindSnapshot)' => SavedCountsHold'
BY SavedCounts, PTL

LEMMA SinkInvariantNext == SinkInvariant /\ [ChainNext]_chainVars => SinkInvariant'
<1> SUFFICES ASSUME SinkInvariant, [ChainNext]_chainVars PROVE SinkInvariant'
  OBVIOUS
<1>1. ChainInvariant'
  BY ChainInvariantNext DEF SinkInvariant
<1>2. CountsHold' /\ SinkTypeOK' /\ SinkHolds'
  <2>1. CASE ChainWatermark
    BY <2>1, SinkWatermark
  <2>2. CASE ChainRecover
    BY <2>2, SinkRecover
  <2>3. CASE ChainCheckpoint
    <3>1. UNCHANGED <<fired, outer_fired, count, cut, collected, resumed, failures>>
          /\ behind_saved'.count = count
      BY <2>3 DEF ChainCheckpoint, Checkpoint, BehindSnapshot, windows, operators, sink
    <3>2. \A k \in Keys : count[k] <= count[k]
      BY DEF SinkInvariant, CountsHold
    <3> QED
      BY <3>1, <3>2 DEF SinkInvariant, CountsHold, Results, SinkTypeOK, SinkHolds, Unwritten
  <2>4. CASE UNCHANGED behind /\ fired' = fired
    BY <2>4 DEF SinkInvariant, CountsHold, Results, SinkTypeOK, SinkHolds, Unwritten, behind,
       operators, sink
  <2>5. ASSUME NEW timestamp \in Timestamps, NEW side \in Sides, Element(timestamp, side)
        PROVE  fired' = fired
    BY <2>5, ElementStep DEF SinkInvariant, ChainInvariant, EventInvariant
  <2> QED
    BY <2>1, <2>2, <2>3, <2>4, <2>5, ChainNextIs DEF chainVars, vars, windows
<1>3. SavedCountsHold'
  <2>1. CASE ChainCheckpoint
    BY <1>2, <2>1, SnapshotsAreTaken, SavedCountsPrimed
  <2>2. CASE ~ ChainCheckpoint
    BY <2>2, SavedUnlessCheckpoint DEF SinkInvariant, SavedCountsHold
  <2> QED
    BY <2>1, <2>2
<1> QED
  BY <1>1, <1>2, <1>3 DEF SinkInvariant

LEMMA SinkInvariantInit == ChainInit => SinkInvariant
<1> SUFFICES ASSUME ChainInit PROVE SinkInvariant
  OBVIOUS
<1>1. IsFiniteSet({}) /\ Cardinality({}) = 0
  BY FS_EmptySet
<1>2. /\ outer_fired = {} /\ fired = {} /\ failures = 0
      /\ count = [k \in Keys |-> 0] /\ cut = [k \in Keys |-> 0]
      /\ collected = [k \in Keys |-> << >>]
      /\ saved = Snapshot /\ behind_saved = BehindSnapshot
  BY DEF ChainInit, Init
<1>3. CountsHold
  <2>1. \A k \in Keys : Cardinality(Results(k)) = 0
    BY <1>1, <1>2 DEF Results
  <2>2. \A k \in Keys : count[k] = 0 /\ cut[k] = 0
    BY <1>2
  <2>3. \A k \in Keys : count[k] + cut[k] = Cardinality(Results(k))
    BY <2>1, <2>2
  <2>4. count \in [Keys -> Nat] /\ cut \in [Keys -> Nat]
    BY <1>2
  <2>5. IsFiniteSet(fired) /\ IsFiniteSet(outer_fired)
    BY <1>1, <1>2
  <2> QED
    BY <2>3, <2>4, <2>5 DEF CountsHold
<1>4. SinkTypeOK
  <2>1. << >> \in Seq(Nat)
    OBVIOUS
  <2> QED
    BY <1>2, <2>1 DEF SinkTypeOK
<1>5. SinkHolds
  <2>1. \A k \in Keys : 1 .. count[k] = {}
    BY <1>2
  <2>2. Unwritten = {}
    BY <2>1 DEF Unwritten
  <2>3. \A k \in Keys : DOMAIN collected[k] = {} /\ behind_saved.count[k] <= count[k]
    BY <1>2 DEF BehindSnapshot
  <2> QED
    BY <1>1, <1>2, <2>2, <2>3 DEF SinkHolds, After
<1> QED
  BY <1>2, <1>3, <1>4, <1>5, SavedCounts, ChainInvariantInit DEF SinkInvariant

(* However many sends fail, whenever the chain recovers and whatever the    *)
(* sink has written by then: each failed send leaves at most one count      *)
(* unwritten, the counts and what failed sends cut off are all results      *)
(* there are, and what is written since the last recovery is written once   *)
(* and in order.                                                            *)
THEOREM CountsReachTheSink == ChainSpec => []SinkAccounts
<1>1. SinkInvariant => SinkAccounts
  <2>1. CountsHold => \A k \in Keys :
           count[k] + cut[k] = Cardinality({o \in outer_fired : o.key = k})
    BY DEF CountsHold, Results
  <2>2. SinkHolds => /\ Cardinality(Unwritten) <= failures
                     /\ \A k \in Keys : \A i \in DOMAIN collected[k] : i > resumed[k] =>
                           /\ collected[k][i] <= count[k]
                           /\ \A j \in DOMAIN collected[k] :
                                 i < j => collected[k][i] < collected[k][j]
    BY DEF SinkHolds, After
  <2> QED
    BY <2>1, <2>2 DEF SinkInvariant, SinkAccounts
<1> QED
  BY <1>1, SinkInvariantInit, SinkInvariantNext, PTL DEF ChainSpec
-----------------------------------------------------------------------------
(* The chain adds operators behind the window and takes nothing from it:   *)
(* every behaviour of OperatorChain is one of EventTime, so what is proved *)
(* of the watermarks, windows and joins alone holds in the chain, whatever *)
(* the operators behind do and however often its sink raises.              *)
THEOREM ChainExtendsEventTime == ChainSpec => Spec
<1>1. ChainInit => Init
  BY DEF ChainInit
<1>2. [ChainNext]_chainVars => [Next]_vars
  <2>1. ChainNext => Next
    BY DEF ChainNext, ChainWatermark, ChainCheckpoint, ChainRecover, Next
  <2>2. UNCHANGED chainVars => UNCHANGED vars
    BY DEF chainVars
  <2> QED
    BY <2>1, <2>2
<1> QED
  BY <1>1, <1>2, PTL DEF ChainSpec, Spec
=============================================================================

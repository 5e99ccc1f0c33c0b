---------------------------- MODULE OperatorChain ----------------------------
(***************************************************************************)
(* A chain in which the results of the WindowOperator go on, to a second   *)
(* one with a TumblingWindow, from there to an AggregateOperator that      *)
(* counts, and to a sink (operators/base.py, stateful.py, sinks.py).  The  *)
(* second has no reduce function: what it emits is the list of its values. *)
(* OperatorChain.process_watermark takes each operator's results through   *)
(* all that follow before the next operator sees the watermark.            *)
(***************************************************************************)
EXTENDS EventTime, FiniteSetsExt

CONSTANTS
    outer_size,     \* of the TumblingWindow
    MaxFailures,    \* bound: sends that fail
    MaxRecoveries   \* bound: recoveries

ASSUME OperatorChainAssumption ==
    outer_size \in Nat \ {0} /\ {MaxFailures, MaxRecoveries} \subseteq Nat

VARIABLES
    outer_state,    \* results of the first that are in windows of the second
    outer_fired,    \* results of the second WindowOperator
    count,          \* key -> 'count' in the AggregateOperator
    collected,      \* key -> what the sink has written
    behind_saved,   \* the last checkpoint
    failures, recoveries,
    held,           \* ghost: windows of the first that did not go out when they
                    \* were due, since the reduce function raised
    cut,            \* ghost: key -> results that a failed send kept from being
                    \* counted
    resumed         \* ghost: key -> how much was written before the last recovery

operators == <<outer_state, outer_fired, count, held, cut>>
sink == <<collected, failures, recoveries, resumed>>
behind == <<operators, sink, behind_saved>>
chainVars == <<vars, behind>>

BehindSnapshot ==
    [outer_state |-> outer_state, outer_fired |-> outer_fired, count |-> count,
     held |-> held, cut |-> cut]

ChainInit ==
    /\ Init
    /\ outer_state = {}
    /\ outer_fired = {}
    /\ count = [k \in Keys |-> 0]
    /\ collected = [k \in Keys |-> << >>]
    /\ failures = 0
    /\ recoveries = 0
    /\ held = {}
    /\ cut = [k \in Keys |-> 0]
    /\ resumed = [k \in Keys |-> 0]
    /\ behind_saved = BehindSnapshot

\* TumblingWindow.assign_windows, for a result, whose timestamp is the end of
\* the window that it is of.
OuterWindow(result) == ((result.start + size) \div outer_size) * outer_size

\* What the first operator returns for the watermark.
Triggers == fired' \ fired

\* Mutant of Fed: the second operator sees the watermark before the results.
FedLater == outer_state
Fed == outer_state \cup Triggers

OuterComplete(fed) == {r \in fed : OuterWindow(r) + outer_size <= pending}

\* The windows that the second operator fires: key and start.
OuterTriggered == {<<r.key, OuterWindow(r)>> : r \in OuterComplete(Fed)}

OuterWatermark ==
    /\ outer_fired' = outer_fired \cup
          {[key |-> kw[1], start |-> kw[2],
            values |-> {r \in Fed : r.key = kw[1] /\ OuterWindow(r) = kw[2]}] :
              kw \in OuterTriggered}
    /\ outer_state' = (outer_state \cup Triggers) \ OuterComplete(Fed)
    /\ held' = held \cup {kw \in Triggered : window_state'[kw] # {}}

Of(key, windowsOf) == Cardinality({kw \in windowsOf : kw[1] = key})

\* Mutant of Counted: a result starts the count of its key anew.
CountedAnew(key, results) == IF Of(key, results) = 0 THEN count[key] ELSE Of(key, results)
Counted(key, results) == count[key] + Of(key, results)

\* The AggregateOperator and the sink, for the results that come to them.
Aggregate(results) == count' = [k \in Keys |-> Counted(k, results)]

Collect(results) ==
    collected' = [k \in Keys |->
        collected[k] \o
            [i \in 1 .. Of(k, results) |-> Counted(k, results) - Of(k, results) + i]]

(* The sink raises at one of the results: the AggregateOperator has counted *)
(* it, and those behind it are gone, since the second WindowOperator has    *)
(* removed them all.  The task goes on.  A send that times out may have     *)
(* reached the topic all the same.                                          *)
SinkRaises(written, failing) ==
    /\ failures < MaxFailures
    /\ failures' = failures + 1
    /\ Aggregate(written \cup {failing})
    /\ Collect(written) \/ Collect(written \cup {failing})
    /\ cut' = [k \in Keys |->
          cut[k] + Of(k, OuterTriggered \ (written \cup {failing}))]

ChainWatermark ==
    /\ ProcessWatermark
    /\ OuterWatermark
    /\ \/ /\ Aggregate(OuterTriggered)
          /\ Collect(OuterTriggered)
          /\ UNCHANGED <<failures, cut>>
       \/ \E failing \in OuterTriggered :
          \E written \in SUBSET (OuterTriggered \ {failing}) : SinkRaises(written, failing)
    /\ UNCHANGED <<behind_saved, recoveries, resumed>>

(* KafkaSinkOperator has no state; what it has written stays written.       *)
ChainCheckpoint ==
    /\ recoveries < MaxRecoveries  \* bound: none that no recovery goes back to
    /\ Checkpoint
    /\ behind_saved' = BehindSnapshot
    /\ UNCHANGED <<operators, sink>>

ChainRecover ==
    /\ recoveries < MaxRecoveries
    /\ recoveries' = recoveries + 1
    /\ Recover
    /\ outer_state' = behind_saved.outer_state
    /\ outer_fired' = behind_saved.outer_fired
    /\ count' = behind_saved.count
    /\ held' = behind_saved.held
    /\ cut' = behind_saved.cut
    /\ resumed' = [k \in Keys |-> Len(collected[k])]
    /\ UNCHANGED <<behind_saved, collected, failures>>

ChainNext ==
    \/ ChainWatermark
    \/ (\E input \in Inputs : Element(input[1], input[2])) /\ UNCHANGED behind
    \/ ChainCheckpoint
    \/ ChainRecover

ChainSpec == ChainInit /\ [][ChainNext]_chainVars
-----------------------------------------------------------------------------
(* Within the disorder allowed, the results of a window over the results of *)
(* windows go out together, for the watermark that lets them go comes to it *)
(* behind them: only those that a raising reduce function held up may come  *)
(* by themselves.                                                           *)
OuterFiresComplete ==
    in_order => \A o \in outer_fired :
        LET results == {r \in fired : r.key = o.key /\ OuterWindow(r) = o.start}
            onTime == {r \in results : <<r.key, r.start>> \notin held}
        IN  /\ o.values \subseteq results
            /\ o.values \cap onTime # {} => onTime \subseteq o.values

\* Counts that no write of the sink has ever had.
Unwritten ==
    UNION {{k} \X ((1 .. count[k]) \ ToSet(collected[k])) : k \in Keys}

(* Each result of the second WindowOperator is counted, but for those that  *)
(* came behind a failed send, and each count reaches the sink, but for one  *)
(* with each failed send.  Between two recoveries it gets them once and in  *)
(* order; a recovery takes the counts back and not what is written, so that *)
(* behind it the sink may get counts again that it has.                     *)
SinkAccounts ==
    /\ Cardinality(Unwritten) <= failures
    /\ \A k \in Keys :
          /\ count[k] + cut[k] = Cardinality({o \in outer_fired : o.key = k})
          /\ \A i \in DOMAIN collected[k] : i > resumed[k] =>
                /\ collected[k][i] <= count[k]
                /\ \A j \in DOMAIN collected[k] : i < j => collected[k][i] < collected[k][j]
=============================================================================

--------------------------- MODULE DashboardFeeds ----------------------------
(***************************************************************************)
(* What the dashboard of gui/app_gcp.py shows as it comes in: three lists  *)
(* in the global dictionary `state`, each kept by                          *)
(*     state[name].insert(0, event); state[name] = state[name][:50]        *)
(* in several threads and without a lock, and the demo, whose threads run  *)
(* while the flag demo_running is set and look at it every few seconds.    *)
(* Requests are handled in threads of their own.                           *)
(***************************************************************************)
EXTENDS Naturals, Sequences

CONSTANTS
    Handlers,       \* threads that handle requests
    Demos,          \* bound: the demo threads that are ever started
    Consumer,       \* the thread kafka_output_consumer
    Limit,          \* 50 (20 for sent_messages)
    EmitLimit,      \* 30: events an upload displays
    MaxRetries,     \* 5
    MaxEvents,      \* bound: events of a list, up to which one more is made
    MaxCheckpoints  \* bound: checkpoints a demo thread reports

ASSUME FeedsAssumption ==
    /\ {Limit, EmitLimit, MaxRetries, MaxEvents, MaxCheckpoints} \subseteq Nat \ {0}
    /\ Handlers \cap Demos = {}
    /\ Consumer \notin Handlers \cup Demos

Lists == {"recent_events", "job_output", "sent_messages"}
Writers == Handlers \cup Demos \cup {Consumer}

VARIABLES
    lists,          \* name -> newest first, an event being its number
    at,             \* writer -> where it is
    target,         \* writer -> the list it writes
    slice,          \* writer -> the slice it has taken
    stale,          \* writers whose list, since they loaded it, has been replaced
    emitted,        \* handler -> len(processed_results) of its upload
    attempts,       \* of the consumer to connect
    demo_running, demo_stats, latest_checkpoint,
    counting,       \* demo thread -> the dictionary and the count it has read
    checkpoint_id,  \* demo thread -> its local count of checkpoints
    inserted,       \* ghost: name -> what was inserted, newest first
    overlapped,     \* ghost: lists that were written while a writer was
                    \* between its slice and its store, or held a replaced one
    abandoned,      \* ghost: lists no writer has cut since an upload failed
    uninserted      \* ghost: events of this demo that were counted only

listVars == <<lists, target, slice, stale, emitted, inserted, overlapped, abandoned>>
demoVars ==
    <<demo_running, demo_stats, latest_checkpoint, counting, checkpoint_id, uninserted>>
feedVars == <<listVars, demoVars, at, attempts>>

NotCounting == [session |-> 0, read |-> 0]

FeedsInit ==
    /\ lists = [l \in Lists |-> << >>]
    /\ at = [w \in Writers |-> IF w = Consumer THEN "connect" ELSE "idle"]
    /\ target = [w \in Writers |-> IF w \in Demos THEN "recent_events" ELSE "job_output"]
    /\ slice = [w \in Writers |-> << >>]
    /\ stale = {}
    /\ emitted = [h \in Handlers |-> 0]
    /\ attempts = 0
    /\ demo_running = FALSE
    /\ demo_stats = [session |-> 0, total_events |-> 0, checkpoints |-> 0]
    /\ latest_checkpoint = 0
    /\ counting = [d \in Demos |-> NotCounting]
    /\ checkpoint_id = [d \in Demos |-> 0]
    /\ inserted = lists
    /\ overlapped = {}
    /\ abandoned = {}
    /\ uninserted = 0

Goto(w, step) == at' = [at EXCEPT ![w] = step]
Alive(d) == at[d] \notin {"idle", "ended"}

----------------------------------------------------------------------------
(* The lists *)

\* Those who have loaded the list, and hold it when another takes its place.
Holders(list) == {w \in Writers : at[w] = "insert" /\ target[w] = list}

AfterInsert(w) ==
    IF w \in Handlers /\ target[w] = "job_output" THEN "records" ELSE "slice"

\* state[list].insert(0, event), of the list that was loaded: a replaced one
\* is seen by nobody any more.
Insert(w) ==
    LET list == target[w]
        event == Len(inserted[list]) + 1
    IN  /\ at[w] = "insert" /\ Goto(w, AfterInsert(w))
        /\ lists' = IF w \in stale THEN lists ELSE [lists EXCEPT ![list] = <<event>> \o @]
        /\ inserted' = [inserted EXCEPT ![list] = <<event>> \o @]
        /\ overlapped' = IF \/ w \in stale
                            \/ \E o \in Writers \ {w} : at[o] = "store" /\ target[o] = list
                         THEN overlapped \cup {list} ELSE overlapped
        /\ stale' = stale \ {w}
        /\ UNCHANGED <<target, slice, emitted, abandoned, demoVars, attempts>>

\* Mutant of Newest: the slice is one too long.
NewestAndOneMore(events) ==
    SubSeq(events, 1, IF Len(events) <= Limit THEN Len(events) ELSE Limit + 1)

Newest(events) == SubSeq(events, 1, IF Len(events) < Limit THEN Len(events) ELSE Limit)

\* The right-hand side of state[list] = state[list][:50] ...
Slice(w) ==
    /\ at[w] = "slice" /\ Goto(w, "store")
    /\ slice' = [slice EXCEPT ![w] = Newest(lists[target[w]])]
    /\ UNCHANGED <<lists, target, stale, emitted, inserted, overlapped, abandoned, demoVars,
                   attempts>>

\* ... and its assignment.
Store(w) ==
    /\ at[w] = "store"
    /\ Goto(w, IF w \in Demos THEN "sleep" ELSE IF w = Consumer THEN "poll" ELSE "idle")
    /\ lists' = [lists EXCEPT ![target[w]] = slice[w]]
    /\ slice' = [slice EXCEPT ![w] = << >>]
    /\ stale' = stale \cup Holders(target[w])
    /\ abandoned' = abandoned \ {target[w]}
    /\ target' = IF w \in Handlers THEN [target EXCEPT ![w] = "job_output"] ELSE target
    /\ UNCHANGED <<emitted, inserted, overlapped, demoVars, attempts>>

----------------------------------------------------------------------------
(* Requests and the consumer *)

\* An upload is read and parsed.
Upload(h) ==
    /\ at[h] = "idle" /\ Goto(h, "records")
    /\ target' = [target EXCEPT ![h] = "job_output"]
    /\ UNCHANGED <<lists, slice, stale, emitted, inserted, overlapped, abandoned, demoVars,
                   attempts>>

\* A record whose operation has a result; of the others, and of those over
\* the limit, nothing is displayed.
ProcessRecord(h) ==
    /\ at[h] = "records" /\ emitted[h] < EmitLimit
    /\ Len(inserted["job_output"]) < MaxEvents
    /\ Goto(h, "insert")
    /\ emitted' = [emitted EXCEPT ![h] = @ + 1]
    /\ UNCHANGED <<lists, target, slice, stale, inserted, overlapped, abandoned, demoVars,
                   attempts>>

UploadDone(h) ==
    /\ at[h] = "records" /\ Goto(h, "slice")
    /\ emitted' = [emitted EXCEPT ![h] = 0]
    /\ UNCHANGED <<lists, target, slice, stale, inserted, overlapped, abandoned, demoVars,
                   attempts>>

\* A record that is no dictionary raises, and so may flush(): status 500,
\* and the list stays as long as it is.
UploadFails(h) ==
    /\ at[h] = "records" /\ Goto(h, "idle")
    /\ abandoned' = abandoned \cup {"job_output"}
    /\ emitted' = [emitted EXCEPT ![h] = 0]
    /\ UNCHANGED <<lists, target, slice, stale, inserted, overlapped, demoVars, attempts>>

SendTestData(h) ==
    /\ at[h] = "idle" /\ Goto(h, "insert")
    /\ Len(inserted["sent_messages"]) < MaxEvents
    /\ target' = [target EXCEPT ![h] = "sent_messages"]
    /\ UNCHANGED <<lists, slice, stale, emitted, inserted, overlapped, abandoned, demoVars,
                   attempts>>

ConnectConsumer ==
    /\ at[Consumer] = "connect" /\ Goto(Consumer, "poll")
    /\ UNCHANGED <<listVars, demoVars, attempts>>

ConnectFails ==
    /\ at[Consumer] = "connect"
    /\ attempts' = attempts + 1
    /\ Goto(Consumer, IF attempts' = MaxRetries THEN "disabled" ELSE "connect")
    /\ UNCHANGED <<listVars, demoVars>>

ConsumeMessage ==
    /\ at[Consumer] = "poll" /\ Goto(Consumer, "insert")
    /\ Len(inserted["job_output"]) < MaxEvents
    /\ UNCHANGED <<listVars, demoVars, attempts>>
----------------------------------------------------------------------------
(* The demo *)

\* start_demo looks at the flag ...
TestRunning(h) ==
    /\ at[h] = "idle" /\ ~demo_running /\ Goto(h, "starting")
    /\ UNCHANGED <<listVars, demoVars, attempts>>

\* Mutant of FreshStats: the values are not set back.
StatsKept == [demo_stats EXCEPT !.session = @ + 1]

FreshStats == [session |-> demo_stats.session + 1, total_events |-> 0, checkpoints |-> 0]

\* ... sets it, puts fresh values in the place of the last demo's and starts
\* a thread: that a thread of the last demo is still there is not looked at.
StartDemo(h, d) ==
    /\ at[h] = "starting" /\ at[d] = "idle"
    /\ at' = [at EXCEPT ![h] = "idle", ![d] = "test"]
    /\ demo_running' = TRUE
    /\ demo_stats' = FreshStats
    /\ latest_checkpoint' = 0
    /\ uninserted' = 0
    /\ stale' = stale \cup Holders("recent_events")
    /\ lists' = [lists EXCEPT !["recent_events"] = << >>]
    /\ inserted' = [inserted EXCEPT !["recent_events"] = << >>]
    /\ overlapped' = IF \E o \in Demos : Alive(o) THEN overlapped \cup {"recent_events"}
                                                  ELSE overlapped
    /\ UNCHANGED <<target, slice, emitted, abandoned, counting, checkpoint_id, attempts>>

StopDemo ==
    /\ demo_running' = FALSE
    /\ UNCHANGED <<listVars, at, attempts, demo_stats, latest_checkpoint, counting, checkpoint_id,
                   uninserted>>

\* Mutant of AfterTest: while True.
RunsOn == "fetch"

AfterTest == IF demo_running THEN "fetch" ELSE "ended"

TestFlag(d) ==
    /\ at[d] = "test" /\ Goto(d, AfterTest)
    /\ checkpoint_id' = [checkpoint_id EXCEPT ![d] = IF AfterTest = "ended" THEN 0 ELSE @]
    /\ UNCHANGED <<listVars, attempts, demo_running, demo_stats, latest_checkpoint, counting,
                   uninserted>>

Fetch(d) ==
    /\ at[d] = "fetch"
    /\ \/ /\ Len(inserted["recent_events"]) + uninserted < MaxEvents
          /\ Goto(d, "count")
       \/ Goto(d, "sleep")
    /\ UNCHANGED <<listVars, demoVars, attempts>>

\* state['demo_stats']['total_events'] += 1 reads the count of a dictionary ...
ReadCount(d) ==
    /\ at[d] = "count" /\ Goto(d, "add")
    /\ counting' = [counting EXCEPT ![d] =
            [session |-> demo_stats.session, read |-> demo_stats.total_events]]
    /\ UNCHANGED <<listVars, attempts, demo_running, demo_stats, latest_checkpoint, checkpoint_id,
                   uninserted>>

\* ... and writes it back to the same dictionary.
WriteCount(d) ==
    /\ at[d] = "add" /\ Goto(d, "event")
    /\ demo_stats' = IF demo_stats.session = counting[d].session
                     THEN [demo_stats EXCEPT !.total_events = counting[d].read + 1]
                     ELSE demo_stats
    /\ counting' = [counting EXCEPT ![d] = NotCounting]
    /\ UNCHANGED <<listVars, attempts, demo_running, latest_checkpoint, checkpoint_id, uninserted>>

\* The event is made and sent ...
MakeEvent(d) ==
    /\ at[d] = "event" /\ Goto(d, "insert")
    /\ UNCHANGED <<listVars, demoVars, attempts>>

\* ... unless that raises, for a value that is missing or a producer that
\* cannot send: what is counted is not inserted.
EventFails(d) ==
    /\ at[d] = "event" /\ Goto(d, "sleep")
    /\ uninserted' = uninserted + 1
    /\ UNCHANGED <<listVars, attempts, demo_running, demo_stats, latest_checkpoint, counting,
                   checkpoint_id>>

\* After its sleep a thread may find that its checkpoint is due.
ReportCheckpoint(d) ==
    /\ at[d] = "sleep" /\ Goto(d, "test")
    /\ checkpoint_id[d] < MaxCheckpoints
    /\ checkpoint_id' = [checkpoint_id EXCEPT ![d] = @ + 1]
    /\ demo_stats' = [demo_stats EXCEPT !.checkpoints = @ + 1]
    /\ latest_checkpoint' = checkpoint_id'[d]
    /\ UNCHANGED <<listVars, attempts, demo_running, counting, uninserted>>

WakeUp(d) ==
    /\ at[d] = "sleep" /\ Goto(d, "test")
    /\ UNCHANGED <<listVars, demoVars, attempts>>

DemoStep(d) ==
    \/ TestFlag(d) \/ Fetch(d) \/ ReadCount(d) \/ WriteCount(d) \/ MakeEvent(d)
    \/ EventFails(d) \/ ReportCheckpoint(d) \/ WakeUp(d)

WriteList(w) == Insert(w) \/ Slice(w) \/ Store(w)

DemoThread(d) == DemoStep(d) \/ WriteList(d)

OutputNext ==
    \/ \E h \in Handlers :
          \/ Upload(h) \/ ProcessRecord(h) \/ UploadDone(h) \/ UploadFails(h) \/ SendTestData(h)
    \/ ConnectConsumer \/ ConnectFails \/ ConsumeMessage
    \/ \E w \in Handlers \cup {Consumer} : WriteList(w)

DemoNext ==
    \/ \E h \in Handlers : TestRunning(h) \/ \E d \in Demos : StartDemo(h, d)
    \/ StopDemo
    \/ \E d \in Demos : DemoThread(d)
----------------------------------------------------------------------------
(* Properties *)

Quiet(list) ==
    \A w \in Writers : target[w] = list => at[w] \notin {"records", "insert", "slice", "store"}

\* Whoever writes a list that no two have written at once, it shows the
\* newest events in their order, at least as many as it is to keep; and any
\* list is back at its limit when nobody writes it, unless the last who
\* wrote it was an upload that failed.
ListsKeepNewest ==
    \A l \in Lists :
        /\ l \notin overlapped =>
              /\ Len(lists[l]) <= Len(inserted[l])
              /\ lists[l] = SubSeq(inserted[l], 1, Len(lists[l]))
              /\ Len(lists[l]) < Limit => lists[l] = inserted[l]
        /\ Quiet(l) /\ l \notin abandoned => Len(lists[l]) <= Limit

\* Unless a demo is started over a thread of the last, one thread runs, the
\* numbers are those of its demo, its checkpoints are counted in order, and
\* each event that is counted comes to the list, unless making it raised.
SessionIsOwn ==
    "recent_events" \notin overlapped =>
        /\ \A c, d \in Demos : Alive(c) /\ Alive(d) => c = d
        /\ demo_stats.total_events = Len(inserted["recent_events"]) + uninserted
              + (IF \E d \in Demos : at[d] \in {"event", "insert"} THEN 1 ELSE 0)
        /\ latest_checkpoint = demo_stats.checkpoints

\* A demo that is stopped for good ends, however many threads it has got.
DemoEnds == <>[]~demo_running => <>[](\A d \in Demos : ~Alive(d))
=============================================================================

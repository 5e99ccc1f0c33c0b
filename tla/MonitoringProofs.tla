-------------------------- MODULE MonitoringProofs ---------------------------
(***************************************************************************)
(* Proofs about Monitoring: the lists and the demo of the dashboard, for   *)
(* any number of handlers, demo threads and events, and any limit; what    *)
(* its page shows, for any requests and outages; and the registry of the   *)
(* web sockets, for any clients and jobs.                                  *)
(***************************************************************************)
EXTENDS Monitoring, SequenceTheorems, SequenceLemmas

HandlerSteps == {"idle", "records", "insert", "slice", "store", "starting"}
DemoSteps ==
    {"idle", "test", "fetch", "count", "add", "event", "insert", "slice", "store", "sleep", "ended"}
ConsumerSteps == {"connect", "poll", "insert", "slice", "store", "disabled"}
Steps == HandlerSteps \cup DemoSteps \cup ConsumerSteps

\* Every writer is at a step of its kind of thread, on a list this kind writes.
WritersTypeOK ==
    /\ at \in [Writers -> Steps]
    /\ target \in [Writers -> Lists]
    /\ \A h \in Handlers :
          /\ at[h] \in HandlerSteps
          /\ target[h] # "recent_events"
          /\ at[h] = "records" => target[h] = "job_output"
    /\ \A d \in Demos : at[d] \in DemoSteps /\ target[d] = "recent_events"
    /\ at[Consumer] \in ConsumerSteps /\ target[Consumer] = "job_output"

ListsTypeOK ==
    /\ lists \in [Lists -> Seq(Nat)]
    /\ inserted \in [Lists -> Seq(Nat)]
    /\ slice \in [Writers -> Seq(Nat)]
    /\ overlapped \subseteq Lists
    /\ abandoned \subseteq Lists

DemoTypeOK ==
    /\ demo_running \in BOOLEAN
    /\ demo_stats \in [session : Nat, total_events : Nat, checkpoints : Nat]
    /\ latest_checkpoint \in Nat
    /\ counting \in [Demos -> [session : Nat, read : Nat]]
    /\ checkpoint_id \in [Demos -> Nat]
    /\ uninserted \in Nat

FeedsTypeOK == WritersTypeOK /\ ListsTypeOK /\ DemoTypeOK

\* The first of s, no fewer than Limit of them unless they are all.
Heads(t, s) ==
    /\ Len(t) <= Len(s)
    /\ \A i \in 1 .. Len(t) : t[i] = s[i]
    /\ Len(t) < Limit => Len(t) = Len(s)

\* A list that nobody else wrote in between, and a slice on its way into it.
ListsAreHeads ==
    \A l \in Lists \ overlapped :
        /\ Heads(lists[l], inserted[l])
        /\ \A w \in Writers :
              at[w] = "store" /\ target[w] = l => Heads(slice[w], inserted[l])

\* Whoever leaves a list behind has cut it, or it counts as abandoned.
ListsAreCut ==
    /\ \A w \in Writers : at[w] = "store" => Len(slice[w]) <= Limit
    /\ \A l \in Lists \ abandoned : Quiet(l) => Len(lists[l]) <= Limit

FeedsStep == OutputNext \/ DemoNext
-----------------------------------------------------------------------------
(***************************************************************************)
(* The lists.                                                              *)
(***************************************************************************)

LEMMA NewestIs ==
    ASSUME NEW s \in Seq(Nat)
    PROVE  /\ Newest(s) \in Seq(Nat)
           /\ Len(Newest(s)) = IF Len(s) < Limit THEN Len(s) ELSE Limit
           /\ \A i \in 1 .. Len(Newest(s)) : Newest(s)[i] = s[i]
<1> DEFINE n == IF Len(s) < Limit THEN Len(s) ELSE Limit
<1>1. n \in Nat /\ n <= Len(s)
  BY FeedsAssumption DEF FeedsAssumption
<1>2. Newest(s) = SubSeq(s, 1, n)
  BY DEF Newest
<1>3. \A i \in 1 .. n : s[i] \in Nat
  BY <1>1
<1>4. /\ SubSeq(s, 1, n) \in Seq(Nat)
      /\ Len(SubSeq(s, 1, n)) = IF 1 <= n THEN n - 1 + 1 ELSE 0
      /\ \A i \in 1 .. n - 1 + 1 : SubSeq(s, 1, n)[i] = s[1 + i - 1]
  BY <1>1, <1>3, SubSeqProperties
<1>5. Len(SubSeq(s, 1, n)) = n /\ \A i \in 1 .. n : SubSeq(s, 1, n)[i] = s[i]
  <2>1. n - 1 + 1 = n /\ \A i \in 1 .. n : 1 + i - 1 = i
    BY <1>1
  <2> HIDE DEF n
  <2> QED
    BY <1>1, <1>4, <2>1
<1> HIDE DEF n
<1>6. Len(Newest(s)) = n
  BY <1>2, <1>5
<1> QED
  BY <1>2, <1>4, <1>5, <1>6 DEF n

LEMMA NewestAreHeads ==
    ASSUME NEW t \in Seq(Nat), NEW s \in Seq(Nat), Heads(t, s)
    PROVE  Heads(Newest(t), s)
<1> DEFINE u == Newest(t)
<1>1. Len(t) \in Nat /\ Len(s) \in Nat /\ Limit \in Nat
  BY FeedsAssumption DEF FeedsAssumption
<1>2. /\ u \in Seq(Nat)
      /\ Len(u) = IF Len(t) < Limit THEN Len(t) ELSE Limit
      /\ \A i \in 1 .. Len(u) : u[i] = t[i]
  BY NewestIs
<1> HIDE DEF u
<1>3. Len(u) \in Nat /\ Len(u) <= Len(t)
  BY <1>1, <1>2
<1>4. Len(u) <= Len(s) /\ (Len(u) < Limit => Len(u) = Len(s))
  BY <1>1, <1>2, <1>3 DEF Heads
<1>5. \A i \in 1 .. Len(u) : u[i] = s[i]
  <2>1. \A i \in 1 .. Len(u) : i \in 1 .. Len(t)
    BY <1>1, <1>3
  <2>2. \A i \in 1 .. Len(t) : t[i] = s[i]
    BY DEF Heads
  <2> QED
    BY <1>2, <2>1, <2>2
<1>6. Heads(u, s)
  BY <1>4, <1>5 DEF Heads
<1> QED
  BY <1>6 DEF u

LEMMA InsertAtFront ==
    ASSUME NEW s \in Seq(Nat), NEW e \in Nat
    PROVE  /\ <<e>> \o s \in Seq(Nat)
           /\ Len(<<e>> \o s) = Len(s) + 1
           /\ \A i \in 1 .. Len(s) + 1 : (<<e>> \o s)[i] = IF i = 1 THEN e ELSE s[i - 1]
<1>1. <<e>> \in Seq(Nat) /\ Len(<<e>>) = 1 /\ <<e>>[1] = e
  OBVIOUS
<1> QED
  BY <1>1, ConcatProperties

LEMMA InsertedAreHeads ==
    ASSUME NEW t \in Seq(Nat), NEW s \in Seq(Nat), NEW e \in Nat, Heads(t, s)
    PROVE  Heads(<<e>> \o t, <<e>> \o s)
<1>1. Len(t) \in Nat /\ Len(s) \in Nat /\ Limit \in Nat
  BY FeedsAssumption DEF FeedsAssumption
<1>2. \A i \in 1 .. Len(t) + 1 : (<<e>> \o t)[i] = (<<e>> \o s)[i]
  <2>1. SUFFICES ASSUME NEW i \in 1 .. Len(t) + 1
                 PROVE  (<<e>> \o t)[i] = (<<e>> \o s)[i]
    OBVIOUS
  <2>2. i \in 1 .. Len(s) + 1
    BY <1>1 DEF Heads
  <2>3. i # 1 => i - 1 \in 1 .. Len(t)
    BY <1>1
  <2> QED
    BY <2>2, <2>3, InsertAtFront DEF Heads
<1>3. Len(<<e>> \o t) = Len(t) + 1 /\ Len(<<e>> \o s) = Len(s) + 1
  BY InsertAtFront
<1> QED
  BY <1>1, <1>2, <1>3 DEF Heads

LEMMA HeadsAreSubSeq ==
    ASSUME NEW t \in Seq(Nat), NEW s \in Seq(Nat), Heads(t, s)
    PROVE  /\ t = SubSeq(s, 1, Len(t))
           /\ Len(t) < Limit => t = s
<1>1. Len(t) \in Nat /\ Len(s) \in Nat /\ Limit \in Nat
  BY FeedsAssumption DEF FeedsAssumption
<1>2. t = SubSeq(s, 1, Len(t))
  <2> DEFINE n == Len(t)
             u == SubSeq(s, 1, n)
  <2>1. n \in Int /\ \A i \in 1 .. n : s[i] \in Nat
    BY <1>1 DEF Heads
  <2>2. /\ u \in Seq(Nat)
        /\ Len(u) = IF 1 <= n THEN n - 1 + 1 ELSE 0
        /\ \A i \in 1 .. n - 1 + 1 : u[i] = s[1 + i - 1]
    BY <2>1, SubSeqProperties
  <2>3. n - 1 + 1 = n /\ \A i \in 1 .. n : 1 + i - 1 = i
    BY <1>1
  <2> HIDE DEF u
  <2>4. Len(u) = Len(t)
    BY <1>1, <2>2, <2>3
  <2>5. \A i \in 1 .. Len(t) : t[i] = u[i]
    BY <2>2, <2>3 DEF Heads
  <2>6. t = u
    BY <2>2, <2>4, <2>5, SeqEqual
  <2> QED
    BY <2>6 DEF u
<1>3. Len(t) < Limit => t = s
  BY SeqEqual DEF Heads
<1> QED
  BY <1>2, <1>3
-----------------------------------------------------------------------------
(***************************************************************************)
(* Types.                                                                  *)
(***************************************************************************)

LEMMA Threads ==
    /\ \A h \in Handlers : h \in Writers /\ h \notin Demos /\ h # Consumer
    /\ \A d \in Demos : d \in Writers /\ d \notin Handlers /\ d # Consumer
    /\ Consumer \in Writers
    /\ Lists = {"recent_events", "job_output", "sent_messages"}
BY FeedsAssumption DEF FeedsAssumption, Writers, Lists

LEMMA FeedsTypeInit == FeedsInit => FeedsTypeOK
<1> SUFFICES ASSUME FeedsInit PROVE FeedsTypeOK
  OBVIOUS
<1>1. WritersTypeOK
  BY Threads DEF FeedsInit, WritersTypeOK, Writers, Steps, HandlerSteps, DemoSteps, ConsumerSteps
<1>2. << >> \in Seq(Nat)
  OBVIOUS
<1>3. ListsTypeOK
  BY <1>2 DEF FeedsInit, ListsTypeOK
<1>4. DemoTypeOK
  BY DEF FeedsInit, DemoTypeOK, NotCounting
<1> QED
  BY <1>1, <1>3, <1>4 DEF FeedsTypeOK

LEMMA InsertIs ==
    ASSUME FeedsTypeOK, NEW w \in Writers, NEW l \in Lists, l = target[w], Insert(w)
    PROVE  /\ lists' \in {lists, [lists EXCEPT ![l] = <<Len(inserted[l]) + 1>> \o lists[l]]}
           /\ inserted' = [inserted EXCEPT ![l] = <<Len(inserted[l]) + 1>> \o inserted[l]]
           /\ l \notin overlapped' =>
                 /\ lists' = [lists EXCEPT ![l] = <<Len(inserted[l]) + 1>> \o lists[l]]
                 /\ ~ \E o \in Writers \ {w} : at[o] = "store" /\ target[o] = l
           /\ overlapped' \in {overlapped, overlapped \cup {l}}
           /\ UNCHANGED <<target, slice, abandoned, demoVars>>
           /\ at[w] = "insert" /\ at'[w] \in {"records", "slice"}
           /\ w \notin Handlers => at'[w] = "slice"
           /\ \A o \in Writers \ {w} : at'[o] = at[o]
           /\ at' \in [Writers -> Steps]
<1>1. at \in [Writers -> Steps] /\ at' = [at EXCEPT ![w] = AfterInsert(w)]
  BY DEF FeedsTypeOK, WritersTypeOK, Insert, Goto
<1>2. AfterInsert(w) \in {"records", "slice"} /\ {"records", "slice"} \subseteq Steps
      /\ (w \notin Handlers => AfterInsert(w) = "slice")
  BY DEF AfterInsert, Steps, HandlerSteps
<1>3. /\ at'[w] \in {"records", "slice"} /\ (w \notin Handlers => at'[w] = "slice")
      /\ \A o \in Writers \ {w} : at'[o] = at[o]
      /\ at' \in [Writers -> Steps]
  BY <1>1, <1>2
<1> QED
  BY <1>3 DEF Insert

LEMMA InsertType ==
    ASSUME FeedsTypeOK, NEW w \in Writers, Insert(w)
    PROVE  ListsTypeOK'
<1> DEFINE l == target[w]
           e == Len(inserted[l]) + 1
<1>0. l \in Lists
  BY DEF FeedsTypeOK, WritersTypeOK
<1>1. lists[l] \in Seq(Nat) /\ inserted[l] \in Seq(Nat) /\ e \in Nat
  BY <1>0 DEF FeedsTypeOK, ListsTypeOK
<1>2. <<e>> \o lists[l] \in Seq(Nat) /\ <<e>> \o inserted[l] \in Seq(Nat)
  BY <1>1, InsertAtFront
<1>3. /\ lists' \in {lists, [lists EXCEPT ![l] = <<e>> \o lists[l]]}
      /\ inserted' = [inserted EXCEPT ![l] = <<e>> \o inserted[l]]
      /\ overlapped' \in {overlapped, overlapped \cup {l}}
      /\ UNCHANGED <<slice, abandoned>>
  BY <1>0, InsertIs
<1> HIDE DEF e, l
<1> QED
  BY <1>0, <1>2, <1>3 DEF FeedsTypeOK, ListsTypeOK

LEMMA WritersTypeNext == FeedsTypeOK /\ FeedsStep => WritersTypeOK'
<1> SUFFICES ASSUME FeedsTypeOK, WritersTypeOK, FeedsStep PROVE WritersTypeOK'
  BY DEF FeedsTypeOK
<1> USE Threads DEF WritersTypeOK, Goto, Steps, HandlerSteps, DemoSteps, ConsumerSteps
<1>1. ASSUME NEW h \in Handlers, Upload(h) PROVE WritersTypeOK'
  BY <1>1 DEF Upload
<1>2. ASSUME NEW h \in Handlers, ProcessRecord(h) PROVE WritersTypeOK'
  BY <1>2 DEF ProcessRecord
<1>3. ASSUME NEW h \in Handlers, UploadDone(h) PROVE WritersTypeOK'
  BY <1>3 DEF UploadDone
<1>4. ASSUME NEW h \in Handlers, UploadFails(h) PROVE WritersTypeOK'
  BY <1>4 DEF UploadFails
<1>5. ASSUME NEW h \in Handlers, SendTestData(h) PROVE WritersTypeOK'
  BY <1>5 DEF SendTestData
<1>6. CASE ConnectConsumer
  BY <1>6 DEF ConnectConsumer, listVars
<1>7. CASE ConnectFails
  BY <1>7 DEF ConnectFails, listVars
<1>8. CASE ConsumeMessage
  BY <1>8 DEF ConsumeMessage, listVars
<1>9. ASSUME NEW w \in Writers, Slice(w) PROVE WritersTypeOK'
  BY <1>9 DEF Slice
<1>10. ASSUME NEW w \in Writers, Store(w) PROVE WritersTypeOK'
  <2>1. CASE w \in Handlers
    BY <1>10, <2>1 DEF Store
  <2>2. CASE w \in Demos
    BY <1>10, <2>2 DEF Store
  <2>3. CASE w = Consumer
    BY <1>10, <2>3 DEF Store
  <2> QED
    BY <2>1, <2>2, <2>3 DEF Writers
<1>11. ASSUME NEW h \in Handlers, TestRunning(h) PROVE WritersTypeOK'
  BY <1>11 DEF TestRunning, listVars
<1>12. ASSUME NEW h \in Handlers, NEW d \in Demos, StartDemo(h, d) PROVE WritersTypeOK'
  BY <1>12 DEF StartDemo
<1>13. CASE StopDemo
  BY <1>13 DEF StopDemo, listVars
<1>14. ASSUME NEW d \in Demos, DemoStep(d) PROVE WritersTypeOK'
  BY <1>14 DEF DemoStep, TestFlag, AfterTest, Fetch, ReadCount, WriteCount, MakeEvent, EventFails,
               ReportCheckpoint, WakeUp, listVars
<1>15. ASSUME NEW w \in Writers, Insert(w) PROVE WritersTypeOK'
  <2>1. target' = target /\ at' \in [Writers -> Steps]
        /\ \A o \in Writers \ {w} : at'[o] = at[o]
    BY <1>15, InsertIs
  <2>2. CASE w \in Handlers
    <3>1. at'[w] = IF target[w] = "job_output" THEN "records" ELSE "slice"
      BY <1>15, <2>2 DEF Insert, AfterInsert
    <3> QED
      BY <2>1, <2>2, <3>1
  <2>3. CASE w \notin Handlers
    <3>1. at'[w] = "slice"
      BY <1>15, <2>3, InsertIs
    <3> QED
      BY <2>1, <2>3, <3>1 DEF Writers
  <2> QED
    BY <2>2, <2>3
<1> QED
  BY <1>1, <1>2, <1>3, <1>4, <1>5, <1>6, <1>7, <1>8, <1>9, <1>10, <1>11, <1>12, <1>13, <1>14, <1>15
  DEF FeedsStep, OutputNext, DemoNext, DemoThread, WriteList

LEMMA ListsTypeNext == FeedsTypeOK /\ FeedsStep => ListsTypeOK'
<1> SUFFICES ASSUME FeedsTypeOK, WritersTypeOK, ListsTypeOK, FeedsStep PROVE ListsTypeOK'
  BY DEF FeedsTypeOK
<1> USE Threads
<1>1. ASSUME UNCHANGED listVars PROVE ListsTypeOK'
  BY <1>1 DEF ListsTypeOK, listVars
<1>2. ASSUME NEW h \in Handlers, Upload(h) \/ UploadDone(h) \/ UploadFails(h)
      PROVE  ListsTypeOK'
  BY <1>2 DEF Upload, UploadDone, UploadFails, ListsTypeOK
<1>3. ASSUME NEW w \in Writers, Insert(w) PROVE ListsTypeOK'
  BY <1>3, InsertType
<1>4. ASSUME NEW w \in Writers, Slice(w) PROVE ListsTypeOK'
  <2>1. Newest(lists[target[w]]) \in Seq(Nat)
    BY NewestIs DEF ListsTypeOK, WritersTypeOK
  <2> QED
    BY <1>4, <2>1 DEF Slice, ListsTypeOK
<1>5. ASSUME NEW w \in Writers, Store(w) PROVE ListsTypeOK'
  <2>1. << >> \in Seq(Nat)
    OBVIOUS
  <2> QED
    BY <1>5, <2>1 DEF Store, ListsTypeOK, WritersTypeOK
<1>6. ASSUME NEW h \in Handlers, NEW d \in Demos, StartDemo(h, d) PROVE ListsTypeOK'
  <2>1. << >> \in Seq(Nat)
    OBVIOUS
  <2> QED
    BY <1>6, <2>1 DEF StartDemo, ListsTypeOK
<1>7. ASSUME NEW h \in Handlers, ProcessRecord(h) \/ SendTestData(h) PROVE ListsTypeOK'
  BY <1>7 DEF ProcessRecord, SendTestData, ListsTypeOK
<1>8. CASE ConsumeMessage
  BY <1>1, <1>8 DEF ConsumeMessage
<1>9. ASSUME NEW d \in Demos, DemoStep(d) PROVE ListsTypeOK'
  BY <1>1, <1>9 DEF DemoStep, TestFlag, Fetch, ReadCount, WriteCount, MakeEvent, EventFails,
               ReportCheckpoint, WakeUp
<1> QED
  BY <1>1, <1>2, <1>3, <1>4, <1>5, <1>6, <1>7, <1>8, <1>9
  DEF FeedsStep, OutputNext, DemoNext, DemoThread, WriteList, ConnectConsumer, ConnectFails,
      TestRunning, StopDemo, Writers

LEMMA DemoTypeNext == FeedsTypeOK /\ FeedsStep => DemoTypeOK'
<1> SUFFICES ASSUME WritersTypeOK, DemoTypeOK, FeedsStep PROVE DemoTypeOK'
  BY DEF FeedsTypeOK
<1> USE DEF DemoTypeOK
<1>1. ASSUME UNCHANGED demoVars PROVE DemoTypeOK'
  BY <1>1 DEF demoVars
<1>2. ASSUME NEW h \in Handlers, NEW d \in Demos, StartDemo(h, d) PROVE DemoTypeOK'
  BY <1>2 DEF StartDemo, FreshStats
<1>3. CASE StopDemo
  BY <1>3 DEF StopDemo
<1>4. ASSUME NEW d \in Demos, DemoStep(d) PROVE DemoTypeOK'
  <2>1. CASE Fetch(d) \/ MakeEvent(d) \/ WakeUp(d)
    BY <1>1, <2>1 DEF Fetch, MakeEvent, WakeUp
  <2>2. CASE TestFlag(d)
    BY <2>2 DEF TestFlag
  <2>3. CASE ReadCount(d)
    BY <2>3 DEF ReadCount
  <2>4. CASE WriteCount(d)
    BY <2>4 DEF WriteCount, NotCounting
  <2>5. CASE ReportCheckpoint(d)
    BY <2>5 DEF ReportCheckpoint
  <2>6. CASE EventFails(d)
    BY <2>6 DEF EventFails
  <2> QED
    BY <1>4, <2>1, <2>2, <2>3, <2>4, <2>5, <2>6 DEF DemoStep
<1> QED
  BY <1>1, <1>2, <1>3, <1>4
  DEF FeedsStep, OutputNext, DemoNext, DemoThread, WriteList, ConnectConsumer, ConnectFails,
      TestRunning, Upload, ProcessRecord, UploadDone, UploadFails, SendTestData, ConsumeMessage,
      Insert, Slice, Store

LEMMA FeedsTypeNext == FeedsTypeOK /\ FeedsStep => FeedsTypeOK'
BY WritersTypeNext, ListsTypeNext, DemoTypeNext DEF FeedsTypeOK
-----------------------------------------------------------------------------
(***************************************************************************)
(* The lists keep the newest events.                                       *)
(***************************************************************************)

\* No list is written, and nobody begins or ends to write one.
Aside ==
    /\ UNCHANGED listVars
    /\ \A w \in Writers : at'[w] # at[w] =>
          {at[w], at'[w]} \cap {"records", "insert", "slice", "store"} = {}

LEMMA AsideKeeps ==
    ASSUME Aside
    PROVE  (ListsAreHeads => ListsAreHeads') /\ (ListsAreCut => ListsAreCut')
<1>1. \A w \in Writers : (at'[w] = "store") <=> (at[w] = "store")
  BY DEF Aside
<1>2. \A l \in Lists : Quiet(l)' <=> Quiet(l)
  BY DEF Aside, Quiet, listVars
<1> QED
  BY <1>1, <1>2 DEF Aside, listVars, ListsAreHeads, ListsAreCut, Heads

LEMMA InsertKeepsHeads ==
    ASSUME FeedsTypeOK, ListsAreHeads, NEW w \in Writers, Insert(w)
    PROVE  ListsAreHeads'
<1> DEFINE l == target[w]
           e == Len(inserted[l]) + 1
<1>0. l \in Lists
  BY DEF FeedsTypeOK, WritersTypeOK
<1>1. lists[l] \in Seq(Nat) /\ inserted[l] \in Seq(Nat) /\ e \in Nat
  BY <1>0 DEF FeedsTypeOK, ListsTypeOK
<1>2. /\ lists' \in {lists, [lists EXCEPT ![l] = <<e>> \o lists[l]]}
      /\ inserted' = [inserted EXCEPT ![l] = <<e>> \o inserted[l]]
      /\ l \notin overlapped' =>
            /\ lists' = [lists EXCEPT ![l] = <<e>> \o lists[l]]
            /\ ~ \E o \in Writers \ {w} : at[o] = "store" /\ target[o] = l
      /\ overlapped \subseteq overlapped'
      /\ UNCHANGED <<slice, target>>
      /\ at'[w] # "store"
      /\ \A o \in Writers \ {w} : at'[o] = at[o]
  BY <1>0, InsertIs
<1> HIDE DEF e, l
<1>3. slice' = slice
  BY <1>2
<1>4. SUFFICES ASSUME NEW k \in Lists \ overlapped'
               PROVE  /\ Heads(lists'[k], inserted'[k])
                      /\ \A o \in Writers :
                            at'[o] = "store" /\ target'[o] = k => Heads(slice[o], inserted'[k])
  BY <1>3 DEF ListsAreHeads, Heads
<1>5. k \notin overlapped /\ Heads(lists[k], inserted[k])
  BY <1>2 DEF ListsAreHeads
<1>6. CASE k = l
  <2>1. lists'[k] = <<e>> \o lists[l] /\ inserted'[k] = <<e>> \o inserted[l]
    BY <1>0, <1>2, <1>6 DEF FeedsTypeOK, ListsTypeOK
  <2>2. Heads(lists'[k], inserted'[k])
    BY <1>1, <1>5, <1>6, <2>1, InsertedAreHeads
  <2>3. \A o \in Writers : ~ (at'[o] = "store" /\ target'[o] = k)
    BY <1>2, <1>6
  <2> QED
    BY <2>2, <2>3
<1>7. CASE k # l
  <2>1. lists'[k] = lists[k] /\ inserted'[k] = inserted[k]
    BY <1>2, <1>7 DEF FeedsTypeOK, ListsTypeOK
  <2>2. \A o \in Writers :
           at'[o] = "store" /\ target'[o] = k => at[o] = "store" /\ target[o] = k
    BY <1>2
  <2> QED
    BY <1>5, <2>1, <2>2 DEF ListsAreHeads
<1> QED
  BY <1>6, <1>7

LEMMA SliceKeepsLists ==
    ASSUME FeedsTypeOK, ListsAreHeads, ListsAreCut, NEW w \in Writers, Slice(w)
    PROVE  ListsAreHeads' /\ ListsAreCut'
<1> DEFINE new == Newest(lists[target[w]])
<1>1. /\ target[w] \in Lists
      /\ lists[target[w]] \in Seq(Nat)
      /\ inserted[target[w]] \in Seq(Nat)
  BY DEF FeedsTypeOK, ListsTypeOK, WritersTypeOK
<1>2. /\ target' = target /\ lists' = lists /\ inserted' = inserted
      /\ overlapped' = overlapped /\ abandoned' = abandoned
      /\ at[w] = "slice"
      /\ at' = [at EXCEPT ![w] = "store"]
      /\ slice' = [slice EXCEPT ![w] = new]
  BY DEF Slice, Goto
<1>3. slice'[w] = new /\ \A o \in Writers \ {w} : slice'[o] = slice[o] /\ at'[o] = at[o]
  BY <1>2 DEF FeedsTypeOK, ListsTypeOK, WritersTypeOK
<1>4. target[w] \notin overlapped => Heads(new, inserted[target[w]])
  BY <1>1, NewestAreHeads DEF ListsAreHeads
<1>5. Len(new) <= Limit
  <2>1. Len(new) = IF Len(lists[target[w]]) < Limit THEN Len(lists[target[w]]) ELSE Limit
    BY <1>1, NewestIs
  <2>2. Len(lists[target[w]]) \in Nat /\ Limit \in Nat
    BY <1>1, FeedsAssumption DEF FeedsAssumption
  <2> HIDE DEF new
  <2> QED
    BY <2>1, <2>2
<1> HIDE DEF new
<1>6. ListsAreHeads'
  <2> SUFFICES ASSUME NEW k \in Lists \ overlapped
               PROVE  /\ Heads(lists[k], inserted[k])
                      /\ \A o \in Writers :
                            at'[o] = "store" /\ target[o] = k => Heads(slice'[o], inserted[k])
    BY <1>2 DEF ListsAreHeads, Heads
  <2> QED
    BY <1>3, <1>4 DEF ListsAreHeads
<1>7. \A k \in Lists : Quiet(k)' => Quiet(k)
  <2> SUFFICES ASSUME NEW k \in Lists, Quiet(k)', NEW o \in Writers, target[o] = k
               PROVE  at[o] \notin {"records", "insert", "slice", "store"}
    BY DEF Quiet
  <2>1. at'[o] \notin {"records", "insert", "slice", "store"}
    BY <1>2 DEF Quiet
  <2>2. o # w
    BY <1>2, <2>1 DEF FeedsTypeOK, WritersTypeOK
  <2> QED
    BY <1>3, <2>1, <2>2
<1>8. ListsAreCut'
  BY <1>2, <1>3, <1>5, <1>7 DEF ListsAreCut
<1> QED
  BY <1>6, <1>8

LEMMA StoreKeepsLists ==
    ASSUME FeedsTypeOK, ListsAreHeads, ListsAreCut, NEW w \in Writers, Store(w)
    PROVE  ListsAreHeads' /\ ListsAreCut'
<1>1. /\ lists' = [lists EXCEPT ![target[w]] = slice[w]]
      /\ inserted' = inserted /\ overlapped' = overlapped
      /\ abandoned' = abandoned \ {target[w]}
      /\ at[w] = "store"
      /\ slice' = [slice EXCEPT ![w] = << >>]
      /\ at' = [at EXCEPT ![w] = IF w \in Demos THEN "sleep"
                                 ELSE IF w = Consumer THEN "poll" ELSE "idle"]
      /\ target' = IF w \in Handlers THEN [target EXCEPT ![w] = "job_output"] ELSE target
  BY DEF Store, Goto
<1>2. \A o \in Writers \ {w} : slice'[o] = slice[o] /\ at'[o] = at[o] /\ target'[o] = target[o]
  BY <1>1 DEF FeedsTypeOK, ListsTypeOK, WritersTypeOK
<1>3. at'[w] \notin {"records", "insert", "slice", "store"}
  BY <1>1 DEF FeedsTypeOK, WritersTypeOK
<1>4. target[w] \in Lists /\ lists'[target[w]] = slice[w]
      /\ \A k \in Lists \ {target[w]} : lists'[k] = lists[k]
  BY <1>1 DEF FeedsTypeOK, ListsTypeOK, WritersTypeOK
<1>5. ListsAreHeads'
  <2> SUFFICES ASSUME NEW k \in Lists \ overlapped
               PROVE  /\ Heads(lists'[k], inserted[k])
                      /\ \A o \in Writers :
                            at'[o] = "store" /\ target'[o] = k => Heads(slice'[o], inserted[k])
    BY <1>1 DEF ListsAreHeads, Heads
  <2>1. Heads(lists'[k], inserted[k])
    BY <1>1, <1>4 DEF ListsAreHeads
  <2>2. ASSUME NEW o \in Writers, at'[o] = "store", target'[o] = k
        PROVE  Heads(slice'[o], inserted[k])
    BY <1>2, <1>3, <2>2 DEF ListsAreHeads
  <2> QED
    BY <2>1, <2>2
<1>6. ASSUME NEW k \in Lists \ abandoned', Quiet(k)' PROVE Len(lists'[k]) <= Limit
  <2>1. CASE k = target[w]
    BY <1>1, <1>4, <2>1 DEF ListsAreCut
  <2>2. CASE k # target[w]
    <3>1. \A o \in Writers : target[o] = k => o # w /\ target'[o] = k /\ at'[o] = at[o]
      BY <1>2, <2>2
    <3>2. Quiet(k)
      BY <1>6, <3>1 DEF Quiet
    <3> QED
      BY <1>1, <1>4, <1>6, <2>2, <3>2 DEF ListsAreCut
  <2> QED
    BY <2>1, <2>2
<1>7. \A o \in Writers : at'[o] = "store" => Len(slice'[o]) <= Limit
  BY <1>2, <1>3 DEF ListsAreCut
<1> QED
  BY <1>5, <1>6, <1>7 DEF ListsAreCut

LEMMA CutKept ==
    ASSUME ListsAreCut, UNCHANGED slice, abandoned \subseteq abandoned',
           NEW w \in Writers, at'[w] # "store",
           \A o \in Writers \ {w} : at'[o] = at[o] /\ target'[o] = target[o],
           \A k \in Lists \ abandoned' : Quiet(k)' =>
              /\ lists'[k] = lists[k]
              /\ target[w] = k => at[w] \notin {"records", "insert", "slice", "store"}
    PROVE  ListsAreCut'
<1>1. ASSUME NEW k \in Lists \ abandoned', Quiet(k)' PROVE Len(lists'[k]) <= Limit
  <2>1. \A o \in Writers : target[o] = k => at[o] \notin {"records", "insert", "slice", "store"}
    BY <1>1 DEF Quiet
  <2>2. Quiet(k)
    BY <2>1 DEF Quiet
  <2> QED
    BY <1>1, <2>2 DEF ListsAreCut
<1> QED
  BY <1>1 DEF ListsAreCut

LEMMA HeadsKept ==
    ASSUME ListsAreHeads, UNCHANGED <<lists, inserted, overlapped, slice>>,
           NEW w \in Writers, at'[w] # "store",
           \A o \in Writers \ {w} : at'[o] = at[o] /\ target'[o] = target[o]
    PROVE  ListsAreHeads'
BY DEF ListsAreHeads, Heads

LEMMA UploadKeepsLists ==
    ASSUME FeedsTypeOK, ListsAreHeads, ListsAreCut, NEW h \in Handlers,
           Upload(h) \/ UploadDone(h) \/ UploadFails(h)
    PROVE  ListsAreHeads' /\ ListsAreCut'
<1> USE Threads
<1>1. /\ lists' = lists /\ inserted' = inserted /\ overlapped' = overlapped /\ slice' = slice
      /\ abandoned \subseteq abandoned'
      /\ at'[h] # "store"
      /\ \A o \in Writers \ {h} : at'[o] = at[o] /\ target'[o] = target[o]
  BY DEF Upload, UploadDone, UploadFails, Goto, FeedsTypeOK, WritersTypeOK
<1>2. \A k \in Lists \ abandoned' : Quiet(k)' =>
         (target[h] = k => at[h] \notin {"records", "insert", "slice", "store"})
  <2>1. CASE Upload(h)
    BY <2>1 DEF Upload
  <2>2. CASE UploadDone(h)
    BY <2>2 DEF UploadDone, Goto, Quiet, FeedsTypeOK, WritersTypeOK
  <2>3. CASE UploadFails(h)
    BY <2>3 DEF UploadFails, FeedsTypeOK, WritersTypeOK
  <2> QED
    BY <2>1, <2>2, <2>3
<1>3. ListsAreHeads'
  BY <1>1, HeadsKept
<1>4. ListsAreCut'
  BY <1>1, <1>2, CutKept
<1> QED
  BY <1>3, <1>4

LEMMA InsertKeepsLists ==
    ASSUME FeedsTypeOK, ListsAreHeads, ListsAreCut, NEW w \in Writers, Insert(w)
    PROVE  ListsAreHeads' /\ ListsAreCut'
<1>1. ListsAreHeads'
  BY InsertKeepsHeads
<1>2. PICK l \in Lists : l = target[w]
  BY DEF FeedsTypeOK, WritersTypeOK
<1>3. /\ lists' \in {lists, [lists EXCEPT ![l] = <<Len(inserted[l]) + 1>> \o lists[l]]}
      /\ UNCHANGED <<slice, target, abandoned>>
      /\ at'[w] \in {"records", "slice"}
      /\ \A o \in Writers \ {w} : at'[o] = at[o]
  BY <1>2, InsertIs
<1>4. ~ Quiet(l)'
  BY <1>2, <1>3 DEF Quiet
<1>5. \A k \in Lists \ {l} : lists'[k] = lists[k]
  BY <1>3 DEF FeedsTypeOK, ListsTypeOK
<1>6. ListsAreCut'
  BY <1>2, <1>3, <1>4, <1>5, CutKept
<1> QED
  BY <1>1, <1>6

(* A writer that has loaded the list it is to write.                       *)
LEMMA LoadKeepsLists ==
    ASSUME ListsAreHeads, ListsAreCut, NEW w \in Writers,
           UNCHANGED <<lists, slice, inserted, overlapped, abandoned>>,
           at'[w] = "insert", at[w] \in {"records", "idle", "poll", "event"},
           at[w] = "records" => target'[w] = target[w],
           \A o \in Writers \ {w} : at'[o] = at[o] /\ target'[o] = target[o]
    PROVE  ListsAreHeads' /\ ListsAreCut'
<1>1. ListsAreHeads'
  BY HeadsKept
<1>2. \A k \in Lists \ abandoned' : Quiet(k)' =>
         (target[w] = k => at[w] \notin {"records", "insert", "slice", "store"})
  BY DEF Quiet
<1>3. ListsAreCut'
  BY <1>2, CutKept
<1> QED
  BY <1>1, <1>3

LEMMA StartKeepsLists ==
    ASSUME FeedsTypeOK, ListsAreHeads, ListsAreCut, NEW h \in Handlers, NEW d \in Demos,
           StartDemo(h, d)
    PROVE  ListsAreHeads' /\ ListsAreCut'
<1> USE Threads
<1>1. /\ lists' = [lists EXCEPT !["recent_events"] = << >>]
      /\ inserted' = [inserted EXCEPT !["recent_events"] = << >>]
      /\ slice' = slice /\ target' = target /\ abandoned' = abandoned
      /\ at' = [at EXCEPT ![h] = "idle", ![d] = "test"]
      /\ at[h] = "starting" /\ at[d] = "idle"
      /\ overlapped \subseteq overlapped'
      /\ "recent_events" \notin overlapped' => \A o \in Demos : ~ Alive(o)
  BY DEF StartDemo
<1>2. at'[h] = "idle" /\ at'[d] = "test"
      /\ \A o \in Writers \ {h, d} : at'[o] = at[o]
  BY <1>1 DEF FeedsTypeOK, WritersTypeOK
<1>3. lists'["recent_events"] = << >> /\ inserted'["recent_events"] = << >>
      /\ \A k \in Lists \ {"recent_events"} : lists'[k] = lists[k] /\ inserted'[k] = inserted[k]
  BY <1>1 DEF FeedsTypeOK, ListsTypeOK
<1>4. "recent_events" \notin overlapped' =>
         \A o \in Writers : ~ (at[o] = "store" /\ target[o] = "recent_events")
  BY <1>1 DEF Alive, Writers, FeedsTypeOK, WritersTypeOK
<1>5. ASSUME NEW k \in Lists \ overlapped'
      PROVE  /\ Heads(lists'[k], inserted'[k])
             /\ \A o \in Writers :
                   at'[o] = "store" /\ target'[o] = k => Heads(slice'[o], inserted'[k])
  <2>1. CASE k = "recent_events"
    <3>1. Heads(<< >>, << >>)
      BY DEF Heads
    <3>2. Heads(lists'[k], inserted'[k])
      BY <1>3, <2>1, <3>1
    <3>3. \A o \in Writers : ~ (at'[o] = "store" /\ target'[o] = k)
      BY <1>1, <1>2, <1>4, <1>5, <2>1
    <3> QED
      BY <3>2, <3>3
  <2>2. CASE k # "recent_events"
    BY <1>1, <1>2, <1>3, <1>5, <2>2 DEF ListsAreHeads
  <2> QED
    BY <2>1, <2>2
<1>6. ListsAreHeads'
  BY <1>5 DEF ListsAreHeads, Heads
<1>7. ASSUME NEW k \in Lists \ abandoned, Quiet(k)' PROVE Len(lists'[k]) <= Limit
  <2>1. CASE k = "recent_events"
    BY <1>3, <2>1, FeedsAssumption DEF FeedsAssumption
  <2>2. CASE k # "recent_events"
    <3>1. Quiet(k)
      BY <1>1, <1>2, <1>7 DEF Quiet
    <3> QED
      BY <1>3, <2>2, <3>1, <1>7 DEF ListsAreCut
  <2> QED
    BY <2>1, <2>2
<1>8. \A o \in Writers : at'[o] = "store" => Len(slice[o]) <= Limit
  BY <1>2 DEF ListsAreCut
<1> QED
  BY <1>1, <1>6, <1>7, <1>8 DEF ListsAreCut

LEMMA ListsNext ==
    FeedsTypeOK /\ ListsAreHeads /\ ListsAreCut /\ FeedsStep => ListsAreHeads' /\ ListsAreCut'
<1> SUFFICES ASSUME FeedsTypeOK, ListsAreHeads, ListsAreCut, FeedsStep
             PROVE  ListsAreHeads' /\ ListsAreCut'
  OBVIOUS
<1> USE Threads
<1>1. CASE Aside
  BY <1>1, AsideKeeps
<1>2. ASSUME NEW h \in Handlers, Upload(h) \/ UploadDone(h) \/ UploadFails(h)
      PROVE  ListsAreHeads' /\ ListsAreCut'
  BY <1>2, UploadKeepsLists
<1>3. ASSUME NEW h \in Handlers, ProcessRecord(h) PROVE ListsAreHeads' /\ ListsAreCut'
  BY <1>3, LoadKeepsLists DEF ProcessRecord, Goto, FeedsTypeOK, WritersTypeOK
<1>4. ASSUME NEW h \in Handlers, SendTestData(h) PROVE ListsAreHeads' /\ ListsAreCut'
  BY <1>4, LoadKeepsLists DEF SendTestData, Goto, FeedsTypeOK, WritersTypeOK
<1>5. CASE ConsumeMessage
  BY <1>5, LoadKeepsLists DEF ConsumeMessage, listVars, Goto, FeedsTypeOK, WritersTypeOK
<1>6. ASSUME NEW w \in Writers, WriteList(w) PROVE ListsAreHeads' /\ ListsAreCut'
  BY <1>6, InsertKeepsLists, SliceKeepsLists, StoreKeepsLists DEF WriteList
<1>7. ASSUME NEW h \in Handlers, NEW d \in Demos, StartDemo(h, d)
      PROVE  ListsAreHeads' /\ ListsAreCut'
  BY <1>7, StartKeepsLists
<1>8. ASSUME NEW d \in Demos, MakeEvent(d) PROVE ListsAreHeads' /\ ListsAreCut'
  BY <1>8, LoadKeepsLists DEF MakeEvent, listVars, Goto, FeedsTypeOK, WritersTypeOK
<1>9. ASSUME NEW d \in Demos, DemoStep(d), ~ MakeEvent(d) PROVE Aside
  BY <1>9 DEF DemoStep, TestFlag, AfterTest, Fetch, ReadCount, WriteCount, EventFails,
              ReportCheckpoint, WakeUp, Aside, Goto, FeedsTypeOK, WritersTypeOK
<1>10. ConnectConsumer \/ ConnectFails \/ StopDemo => Aside
  BY DEF ConnectConsumer, ConnectFails, StopDemo, Aside, Goto, FeedsTypeOK, WritersTypeOK
<1>11. ASSUME NEW h \in Handlers, TestRunning(h) PROVE Aside
  BY <1>11 DEF TestRunning, Aside, Goto, FeedsTypeOK, WritersTypeOK
<1> QED
  BY <1>1, <1>2, <1>3, <1>4, <1>5, <1>6, <1>7, <1>8, <1>9, <1>10, <1>11
  DEF FeedsStep, OutputNext, DemoNext, DemoThread
-----------------------------------------------------------------------------
(***************************************************************************)
(* The demo's numbers are those of its session.                            *)
(***************************************************************************)

SessionIsCurrent ==
    /\ \A d \in Demos : ~ Alive(d) => checkpoint_id[d] = 0
    /\ "recent_events" \notin overlapped =>
          /\ \A c, d \in Demos : Alive(c) /\ Alive(d) => c = d
          /\ (\E d \in Demos : at[d] \in {"event", "insert"}) =>
                demo_stats.total_events = Len(inserted["recent_events"]) + uninserted + 1
          /\ (\A d \in Demos : at[d] \notin {"event", "insert"}) =>
                demo_stats.total_events = Len(inserted["recent_events"]) + uninserted
          /\ latest_checkpoint = demo_stats.checkpoints
          /\ \A d \in Demos : Alive(d) => checkpoint_id[d] = latest_checkpoint
          /\ \A d \in Demos : at[d] = "add" =>
                counting[d] = [session |-> demo_stats.session, read |-> demo_stats.total_events]

LEMMA SessionUndisturbed ==
    ASSUME SessionIsCurrent, overlapped \subseteq overlapped',
           inserted'["recent_events"] = inserted["recent_events"],
           UNCHANGED <<demo_stats, latest_checkpoint, counting, checkpoint_id, uninserted>>,
           \A d \in Demos : at'[d] # "add" \/ at[d] = "add",
           \A d \in Demos : Alive(d)' <=> Alive(d),
           \A d \in Demos : at'[d] \in {"event", "insert"} <=> at[d] \in {"event", "insert"}
    PROVE  SessionIsCurrent'
BY DEF SessionIsCurrent

\* A thread of the demo goes on, and its events stay counted.
LEMMA DemoThreadKeepsSession ==
    ASSUME FeedsTypeOK, SessionIsCurrent, NEW d \in Demos, DemoThread(d)
    PROVE  SessionIsCurrent'
<1> USE Threads
<1>1. /\ \A o \in Demos \ {d} : at'[o] = at[o] /\ checkpoint_id'[o] = checkpoint_id[o]
      /\ at[d] \notin {"idle", "ended"}
      /\ Alive(d)
      /\ overlapped \subseteq overlapped'
  <2>1. DemoStep(d) \/ Insert(d) \/ Slice(d) \/ Store(d)
    BY DEF DemoThread, WriteList
  <2>2. \A o \in Demos \ {d} : at'[o] = at[o] /\ checkpoint_id'[o] = checkpoint_id[o]
    BY <2>1 DEF DemoStep, Insert, Slice, Store, TestFlag, AfterTest, Fetch, ReadCount, WriteCount,
        MakeEvent, EventFails, ReportCheckpoint, WakeUp, Goto, demoVars, FeedsTypeOK, WritersTypeOK,
        DemoTypeOK
  <2>3. at[d] \notin {"idle", "ended"}
    BY <2>1 DEF DemoStep, Insert, Slice, Store, TestFlag, Fetch, ReadCount, WriteCount,
        MakeEvent, EventFails, ReportCheckpoint, WakeUp
  <2>4. overlapped \subseteq overlapped'
    BY <2>1 DEF DemoStep, Slice, Store, TestFlag, Fetch, ReadCount, WriteCount,
        MakeEvent, EventFails, ReportCheckpoint, WakeUp, listVars, Insert
  <2> QED
    BY <2>2, <2>3, <2>4 DEF Alive
<1>2. \A o \in Demos \ {d} : Alive(o)' <=> Alive(o)
  BY <1>1 DEF Alive
<1> DEFINE Moves(from, to) == at[d] = from /\ at' = [at EXCEPT ![d] = to]
<1>3. ASSUME NEW from \in DemoSteps, NEW to \in DemoSteps, Moves(from, to),
             {from, to} \cap {"ended", "idle"} = {}, to # "add",
             from \in {"event", "insert"} <=> to \in {"event", "insert"},
             UNCHANGED <<demo_stats, latest_checkpoint, counting, checkpoint_id, uninserted>>,
             inserted'["recent_events"] = inserted["recent_events"]
      PROVE  SessionIsCurrent'
  BY <1>1, <1>2, <1>3, SessionUndisturbed DEF Alive, FeedsTypeOK, WritersTypeOK
<1>4. CASE TestFlag(d)
  <2>1. CASE demo_running
    BY <1>3, <1>4, <2>1 DEF TestFlag, AfterTest, Goto, listVars, DemoSteps, DemoTypeOK, FeedsTypeOK
  <2>2. CASE ~ demo_running
    <3>1. /\ at[d] = "test" /\ at'[d] = "ended" /\ checkpoint_id'[d] = 0
          /\ UNCHANGED <<demo_stats, latest_checkpoint, counting, inserted, uninserted>>
      BY <1>4, <2>2 DEF TestFlag, AfterTest, Goto, listVars, FeedsTypeOK, WritersTypeOK, DemoTypeOK
    <3> QED
      BY <1>1, <1>2, <3>1 DEF SessionIsCurrent, Alive
  <2> QED
    BY <2>1, <2>2
<1>5. CASE Fetch(d) \/ WakeUp(d) \/ MakeEvent(d)
  BY <1>3, <1>5 DEF Fetch, WakeUp, MakeEvent, Goto, listVars, demoVars, DemoSteps
<1>6. CASE Slice(d) \/ Store(d)
  BY <1>3, <1>6 DEF Slice, Store, Goto, demoVars, DemoSteps
<1>7. CASE ReadCount(d)
  <2>1. /\ at[d] = "count" /\ at'[d] = "add"
        /\ UNCHANGED <<demo_stats, latest_checkpoint, checkpoint_id, inserted, uninserted>>
        /\ counting'[d] = [session |-> demo_stats.session, read |-> demo_stats.total_events]
        /\ \A o \in Demos \ {d} : counting'[o] = counting[o]
    BY <1>7 DEF ReadCount, Goto, listVars, FeedsTypeOK, WritersTypeOK, DemoTypeOK
  <2> QED
    BY <1>1, <1>2, <2>1 DEF SessionIsCurrent, Alive
<1>8. CASE WriteCount(d)
  <2>1. /\ at[d] = "add" /\ at'[d] = "event"
        /\ UNCHANGED <<latest_checkpoint, checkpoint_id, inserted, uninserted>>
        /\ \A o \in Demos \ {d} : counting'[o] = counting[o]
    BY <1>8 DEF WriteCount, Goto, listVars, FeedsTypeOK, WritersTypeOK, DemoTypeOK
  <2>2. ASSUME "recent_events" \notin overlapped'
        PROVE  /\ demo_stats'.total_events = demo_stats.total_events + 1
               /\ demo_stats'.checkpoints = demo_stats.checkpoints
               /\ \A o \in Demos \ {d} : ~ Alive(o)
    <3>1. "recent_events" \notin overlapped
      BY <1>1, <2>2
    <3>2. counting[d] = [session |-> demo_stats.session, read |-> demo_stats.total_events]
      BY <2>1, <3>1 DEF SessionIsCurrent
    <3>3. demo_stats' = [demo_stats EXCEPT !.total_events = demo_stats.total_events + 1]
      BY <1>8, <3>2 DEF WriteCount
    <3>4. \A o \in Demos \ {d} : ~ Alive(o)
      BY <1>1, <3>1 DEF SessionIsCurrent
    <3> QED
      BY <3>3, <3>4 DEF FeedsTypeOK, DemoTypeOK
  <2>3. \A o \in Demos : at[o] \in {"event", "insert", "add"} => Alive(o)
    BY DEF Alive
  <2>4. "recent_events" \notin overlapped' =>
           demo_stats.total_events = Len(inserted["recent_events"]) + uninserted
    BY <1>1, <2>1, <2>2, <2>3 DEF SessionIsCurrent
  <2>5. \A o \in Demos : ~ Alive(o)' => checkpoint_id'[o] = 0
    BY <1>1, <1>2, <2>1 DEF SessionIsCurrent, Alive
  <2>6. ASSUME "recent_events" \notin overlapped'
        PROVE  /\ latest_checkpoint' = demo_stats'.checkpoints
               /\ \A o \in Demos : Alive(o)' => o = d /\ checkpoint_id'[o] = latest_checkpoint'
               /\ \A o \in Demos : at'[o] # "add"
    BY <1>1, <1>2, <2>1, <2>2, <2>3, <2>6 DEF SessionIsCurrent
  <2> QED
    BY <2>1, <2>2, <2>4, <2>5, <2>6 DEF SessionIsCurrent
<1>9. ASSUME at[d] \in {"event", "insert"}, at'[d] \notin {"event", "insert", "add", "idle", "ended"},
             UNCHANGED <<demo_stats, latest_checkpoint, counting, checkpoint_id>>,
             Len(inserted'["recent_events"]) + uninserted' =
                Len(inserted["recent_events"]) + uninserted + 1
      PROVE  SessionIsCurrent'
  <2>1. \A o \in Demos : at[o] \in {"event", "insert", "add"} => Alive(o)
    BY DEF Alive
  <2>2. Alive(d)'
    BY <1>9 DEF Alive
  <2>3. ASSUME "recent_events" \notin overlapped'
        PROVE  \A o \in Demos : at'[o] \notin {"event", "insert", "add"}
    BY <1>1, <1>9, <2>1, <2>3 DEF SessionIsCurrent
  <2> QED
    BY <1>1, <1>2, <1>9, <2>2, <2>3 DEF SessionIsCurrent
<1>10. inserted["recent_events"] \in Seq(Nat) /\ Len(inserted["recent_events"]) \in Nat
       /\ uninserted \in Nat
  BY DEF FeedsTypeOK, ListsTypeOK, DemoTypeOK
<1>11. CASE Insert(d)
  <2>1. /\ at[d] = "insert" /\ at'[d] = "slice"
        /\ UNCHANGED <<demo_stats, latest_checkpoint, counting, checkpoint_id, uninserted>>
        /\ inserted' = [inserted EXCEPT !["recent_events"] =
                           <<Len(inserted["recent_events"]) + 1>> \o inserted["recent_events"]]
    BY <1>11, InsertIs DEF demoVars, FeedsTypeOK, WritersTypeOK
  <2>2. Len(inserted'["recent_events"]) = Len(inserted["recent_events"]) + 1
    <3>1. Len(inserted["recent_events"]) + 1 \in Nat
      BY <1>10
    <3> QED
      BY <1>10, <2>1, <3>1, InsertAtFront DEF FeedsTypeOK, ListsTypeOK
  <2>3. Len(inserted'["recent_events"]) + uninserted' = Len(inserted["recent_events"]) + uninserted + 1
    BY <1>10, <2>1, <2>2
  <2>4. UNCHANGED <<demo_stats, latest_checkpoint, counting, checkpoint_id>>
        /\ at[d] \in {"event", "insert"} /\ at'[d] \notin {"event", "insert", "add", "idle", "ended"}
    BY <2>1
  <2> QED
    BY <1>9, <2>3, <2>4
<1>12. CASE EventFails(d)
  <2>0. uninserted' = uninserted + 1
    BY <1>12 DEF EventFails
  <2>1. /\ at[d] = "event" /\ at'[d] = "sleep"
        /\ UNCHANGED <<demo_stats, latest_checkpoint, counting, checkpoint_id, inserted>>
    BY <1>12 DEF EventFails, Goto, listVars, FeedsTypeOK, WritersTypeOK
  <2>2. Len(inserted'["recent_events"]) = Len(inserted["recent_events"])
    BY <2>1
  <2>3. Len(inserted'["recent_events"]) + uninserted' = Len(inserted["recent_events"]) + uninserted + 1
    <3>1. \A x, y \in Nat : x + (y + 1) = x + y + 1
      OBVIOUS
    <3> QED
      BY <1>10, <2>0, <2>2, <3>1
  <2>4. UNCHANGED <<demo_stats, latest_checkpoint, counting, checkpoint_id>>
        /\ at[d] \in {"event", "insert"} /\ at'[d] \notin {"event", "insert", "add", "idle", "ended"}
    BY <2>1
  <2> QED
    BY <1>9, <2>3, <2>4
<1>13. CASE ReportCheckpoint(d)
  <2>1. /\ at[d] = "sleep" /\ at'[d] = "test"
        /\ UNCHANGED <<counting, inserted, uninserted>>
        /\ checkpoint_id'[d] = checkpoint_id[d] + 1
        /\ latest_checkpoint' = checkpoint_id[d] + 1
        /\ demo_stats'.checkpoints = demo_stats.checkpoints + 1
        /\ demo_stats'.total_events = demo_stats.total_events
    BY <1>13 DEF ReportCheckpoint, Goto, listVars, FeedsTypeOK, WritersTypeOK, DemoTypeOK
  <2>2. Alive(d)'
    BY <2>1 DEF Alive
  <2>3. \A o \in Demos : at[o] \in {"event", "insert", "add"} => Alive(o)
    BY DEF Alive
  <2>4. ASSUME "recent_events" \notin overlapped'
        PROVE  \A o \in Demos : at'[o] # "add"
    BY <1>1, <2>1, <2>3, <2>4 DEF SessionIsCurrent
  <2> QED
    BY <1>1, <1>2, <2>1, <2>2, <2>4 DEF SessionIsCurrent
<1> QED
  BY <1>4, <1>5, <1>6, <1>7, <1>8, <1>11, <1>12, <1>13 DEF DemoThread, DemoStep, WriteList

LEMMA SessionNext == FeedsTypeOK /\ SessionIsCurrent /\ FeedsStep => SessionIsCurrent'
<1> SUFFICES ASSUME FeedsTypeOK, SessionIsCurrent, FeedsStep PROVE SessionIsCurrent'
  OBVIOUS
<1> USE Threads
<1> DEFINE Apart ==
           /\ UNCHANGED demoVars
           /\ inserted'["recent_events"] = inserted["recent_events"]
           /\ overlapped \subseteq overlapped'
           /\ \A d \in Demos : at'[d] = at[d]
<1>2. CASE Apart
  BY <1>2, SessionUndisturbed DEF demoVars, Alive
<1>3. CASE OutputNext
  <2> USE DEF Goto, FeedsTypeOK, WritersTypeOK
  <2>1. ASSUME NEW h \in Handlers, Upload(h) \/ UploadDone(h) \/ UploadFails(h) PROVE Apart
    BY <2>1 DEF Upload, UploadDone, UploadFails
  <2>2. ASSUME NEW h \in Handlers, ProcessRecord(h) \/ SendTestData(h) PROVE Apart
    BY <2>2 DEF ProcessRecord, SendTestData
  <2>3. ConnectConsumer \/ ConnectFails => Apart
    BY DEF ConnectConsumer, ConnectFails, listVars
  <2>4. ConsumeMessage => Apart
    BY DEF ConsumeMessage, listVars
  <2>5. ASSUME NEW w \in Handlers \cup {Consumer}, Slice(w) \/ Store(w) PROVE Apart
    BY <2>5 DEF Slice, Store
  <2>6. ASSUME NEW w \in Handlers \cup {Consumer}, Insert(w) PROVE Apart
    <3>1. w \in Writers \ Demos /\ target[w] \in Lists \ {"recent_events"}
      BY <2>6
    <3>2. /\ inserted' = [inserted EXCEPT ![target[w]] =
                             <<Len(inserted[target[w]]) + 1>> \o inserted[target[w]]]
          /\ overlapped' \in {overlapped, overlapped \cup {target[w]}}
      BY <2>6, <3>1 DEF Insert
    <3>3. UNCHANGED demoVars /\ at' = [at EXCEPT ![w] = AfterInsert(w)]
      BY <2>6 DEF Insert
    <3>4. inserted'["recent_events"] = inserted["recent_events"]
      BY <3>1, <3>2 DEF ListsTypeOK
    <3>5. overlapped \subseteq overlapped' /\ \A d \in Demos : at'[d] = at[d]
      BY <3>1, <3>2, <3>3
    <3> QED
      BY <3>3, <3>4, <3>5
  <2> HIDE DEF Apart
  <2> QED
    BY <1>2, <1>3, <2>1, <2>2, <2>3, <2>4, <2>5, <2>6 DEF OutputNext, WriteList
<1>4. ASSUME NEW h \in Handlers, TestRunning(h) PROVE Apart
  BY <1>4 DEF TestRunning, listVars, Goto, FeedsTypeOK, WritersTypeOK
<1>5. CASE StopDemo
  BY <1>5, SessionUndisturbed DEF StopDemo, listVars, Alive
<1>6. ASSUME NEW h \in Handlers, NEW d \in Demos, StartDemo(h, d) PROVE SessionIsCurrent'
  <2>1. /\ inserted'["recent_events"] = << >>
        /\ demo_stats' = [session |-> demo_stats.session + 1, total_events |-> 0, checkpoints |-> 0]
        /\ latest_checkpoint' = 0 /\ uninserted' = 0
        /\ counting' = counting /\ checkpoint_id' = checkpoint_id
        /\ at[d] = "idle" /\ at'[d] = "test"
        /\ \A o \in Demos \ {d} : at'[o] = at[o]
        /\ "recent_events" \notin overlapped' => \A o \in Demos : ~ Alive(o)
    BY <1>6 DEF StartDemo, FreshStats, FeedsTypeOK, ListsTypeOK, WritersTypeOK
  <2>2. Alive(d)' /\ ~ Alive(d) /\ \A o \in Demos \ {d} : Alive(o)' <=> Alive(o)
    BY <2>1 DEF Alive
  <2>3. \A o \in Demos : ~ Alive(o)' => checkpoint_id'[o] = 0
    BY <2>1, <2>2 DEF SessionIsCurrent
  <2>4. ASSUME "recent_events" \notin overlapped'
        PROVE  /\ \A o \in Demos \ {d} : ~ Alive(o)' /\ at'[o] \notin {"event", "insert", "add"}
               /\ checkpoint_id'[d] = 0
    BY <2>1, <2>2, <2>4 DEF SessionIsCurrent, Alive
  <2>5. Len(inserted'["recent_events"]) = 0
    BY <2>1
  <2> QED
    BY <2>1, <2>2, <2>3, <2>4, <2>5 DEF SessionIsCurrent
<1>7. ASSUME NEW d \in Demos, DemoThread(d) PROVE SessionIsCurrent'
  BY <1>7, DemoThreadKeepsSession
<1> QED
  BY <1>2, <1>3, <1>4, <1>5, <1>6, <1>7 DEF FeedsStep, DemoNext
-----------------------------------------------------------------------------
(***************************************************************************)
(* The theorems.                                                           *)
(***************************************************************************)

FeedsInvariant == FeedsTypeOK /\ ListsAreHeads /\ ListsAreCut /\ SessionIsCurrent

LEMMA FeedsInvariantInit == MonitoringInit => FeedsInvariant
<1> SUFFICES ASSUME FeedsInit PROVE FeedsInvariant
  BY DEF MonitoringInit
<1>1. FeedsTypeOK
  BY FeedsTypeInit
<1>2. /\ \A l \in Lists : lists[l] = << >> /\ inserted[l] = << >>
      /\ \A w \in Writers : at[w] # "store"
  BY DEF FeedsInit
<1>3. Heads(<< >>, << >>) /\ Len(<< >>) = 0
  BY DEF Heads
<1>4. ListsAreHeads
  BY <1>2, <1>3 DEF ListsAreHeads
<1>5. ListsAreCut
  BY <1>2, <1>3, FeedsAssumption DEF ListsAreCut, FeedsAssumption
<1>6. SessionIsCurrent
  <2>1. \A d \in Demos : at[d] = "idle"
    BY Threads DEF FeedsInit
  <2>2. Len(inserted["recent_events"]) = 0
    BY <1>2, <1>3, Threads
  <2> QED
    BY <2>1, <2>2 DEF FeedsInit, SessionIsCurrent, Alive
<1> QED
  BY <1>1, <1>4, <1>5, <1>6 DEF FeedsInvariant

LEMMA FeedsInvariantNext == FeedsInvariant /\ [MonitoringNext]_monitoringVars => FeedsInvariant'
<1> SUFFICES ASSUME FeedsInvariant, [MonitoringNext]_monitoringVars PROVE FeedsInvariant'
  OBVIOUS
<1>1. CASE FeedsStep
  BY <1>1, FeedsTypeNext, ListsNext, SessionNext DEF FeedsInvariant
<1>2. CASE UNCHANGED feedVars
  <2> USE <1>2 DEF feedVars, listVars, demoVars
  <2>1. FeedsTypeOK'
    BY DEF FeedsInvariant, FeedsTypeOK, WritersTypeOK, ListsTypeOK, DemoTypeOK
  <2>2. Aside
    BY DEF Aside
  <2>3. ListsAreHeads' /\ ListsAreCut'
    BY <2>2, AsideKeeps DEF FeedsInvariant
  <2>4. SessionIsCurrent'
    BY DEF FeedsInvariant, SessionIsCurrent, Alive
  <2> QED
    BY <2>1, <2>3, <2>4 DEF FeedsInvariant
<1> QED
  BY <1>1, <1>2
  DEF MonitoringNext, Output, Demo, Poll, Sockets, FeedsStep, monitoringVars

LEMMA FeedsInvariantHolds == MonitoringSpec => []FeedsInvariant
BY FeedsInvariantInit, FeedsInvariantNext, PTL DEF MonitoringSpec

(* However many requests, demo threads and messages write the dashboard's  *)
(* lists, one that no two wrote at once shows the newest events in their   *)
(* order, and none stays over its limit that was not left by a failed      *)
(* upload.                                                                 *)
THEOREM ListsStayNewest == MonitoringSpec => []ListsKeepNewest
<1>1. FeedsInvariant => ListsKeepNewest
  <2> SUFFICES ASSUME FeedsInvariant, NEW l \in Lists
               PROVE  /\ l \notin overlapped =>
                            /\ Len(lists[l]) <= Len(inserted[l])
                            /\ lists[l] = SubSeq(inserted[l], 1, Len(lists[l]))
                            /\ Len(lists[l]) < Limit => lists[l] = inserted[l]
                      /\ Quiet(l) /\ l \notin abandoned => Len(lists[l]) <= Limit
    BY DEF ListsKeepNewest
  <2>1. lists[l] \in Seq(Nat) /\ inserted[l] \in Seq(Nat)
    BY DEF FeedsInvariant, FeedsTypeOK, ListsTypeOK
  <2>2. ASSUME l \notin overlapped
        PROVE  Heads(lists[l], inserted[l])
    BY <2>2 DEF FeedsInvariant, ListsAreHeads
  <2>3. Heads(lists[l], inserted[l]) => Len(lists[l]) <= Len(inserted[l])
    BY DEF Heads
  <2> QED
    BY <2>1, <2>2, <2>3, HeadsAreSubSeq DEF FeedsInvariant, ListsAreCut
<1> QED
  BY <1>1, FeedsInvariantHolds, PTL

(* However often a demo is stopped and started, and however many threads   *)
(* were left of it, unless one is started over a thread of the last the    *)
(* numbers on the page are those of one thread and its session: an event   *)
(* that is counted comes to the list, unless making it raised.             *)
THEOREM SessionsAreTheirOwn == MonitoringSpec => []SessionIsOwn
<1>1. FeedsInvariant => SessionIsOwn
  <2> SUFFICES ASSUME SessionIsCurrent, FeedsTypeOK, "recent_events" \notin overlapped
               PROVE  /\ \A c, d \in Demos : Alive(c) /\ Alive(d) => c = d
                      /\ demo_stats.total_events = Len(inserted["recent_events"]) + uninserted
                            + (IF \E d \in Demos : at[d] \in {"event", "insert"} THEN 1 ELSE 0)
                      /\ latest_checkpoint = demo_stats.checkpoints
    BY DEF FeedsInvariant, SessionIsOwn
  <2>1. Len(inserted["recent_events"]) + uninserted + 0 = Len(inserted["recent_events"]) + uninserted
    <3>1. inserted["recent_events"] \in Seq(Nat) /\ uninserted \in Nat
      BY Threads DEF FeedsTypeOK, ListsTypeOK, DemoTypeOK
    <3>2. Len(inserted["recent_events"]) \in Nat
      BY <3>1
    <3> QED
      BY <3>1, <3>2
  <2> QED
    BY <2>1 DEF SessionIsCurrent
<1> QED
  BY <1>1, FeedsInvariantHolds, PTL
-----------------------------------------------------------------------------
(***************************************************************************)
(* The web sockets.                                                        *)
(***************************************************************************)

Streaming == {"send", "sleep", "error"}
Handling == [at : {"accept"} \cup Streaming, job : JobIds]

SocketTypeOK ==
    /\ open \subseteq Clients
    /\ coroutine \in [Clients -> {Idle} \cup Handling]
    /\ DOMAIN active_connections \subseteq JobIds

\* A client is in the registry, for the job that it asked for, exactly while
\* its handler is between connect and disconnect, and a job without clients
\* has no entry.
RegistryIsExact ==
    /\ \A c, j : c \in Active(j) <=>
          c \in Clients /\ coroutine[c].at \in Streaming /\ coroutine[c].job = j
    /\ \A j \in DOMAIN active_connections : active_connections[j] # {}

SocketInvariant == SocketTypeOK /\ RegistryIsExact

LEMMA SetIs ==
    ASSUME NEW j, NEW clients, active_connections' = Set(j, clients)
    PROVE  /\ Active(j)' = clients
           /\ \A k : k # j => Active(k)' = Active(k)
           /\ DOMAIN active_connections' \subseteq DOMAIN active_connections \cup {j}
           /\ \A k \in DOMAIN active_connections' :
                 active_connections'[k] = {} => k \in DOMAIN active_connections /\ active_connections[k] = {}
BY DEF Set, Active

\* A step of one handler that leaves the registry alone, and does not pass
\* connect or disconnect.
LEMMA RegistryUndisturbed ==
    ASSUME SocketInvariant, NEW c \in Clients, NEW new \in {Idle} \cup Handling,
           coroutine' = [coroutine EXCEPT ![c] = new], UNCHANGED active_connections,
           open' \subseteq Clients,
           \/ coroutine[c].at \in Streaming /\ new.at \in Streaming /\ new.job = coroutine[c].job
           \/ coroutine[c].at \notin Streaming /\ new.at \notin Streaming
    PROVE  SocketInvariant'
<1>1. /\ coroutine'[c] = new
      /\ \A o \in Clients \ {c} : coroutine'[o] = coroutine[o]
      /\ coroutine' \in [Clients -> {Idle} \cup Handling]
  BY DEF SocketInvariant, SocketTypeOK
<1>2. \A j : Active(j)' = Active(j)
  BY DEF Active
<1>3. \A o, j : o \in Active(j)' <=>
          o \in Clients /\ coroutine'[o].at \in Streaming /\ coroutine'[o].job = j
  <2> SUFFICES ASSUME NEW o, NEW j
               PROVE  o \in Active(j)' <=>
                         o \in Clients /\ coroutine'[o].at \in Streaming /\ coroutine'[o].job = j
    OBVIOUS
  <2>1. CASE o = c
    BY <1>1, <1>2, <2>1 DEF SocketInvariant, RegistryIsExact
  <2>2. CASE o # c
    BY <1>1, <1>2, <2>2 DEF SocketInvariant, RegistryIsExact
  <2> QED
    BY <2>1, <2>2
<1> QED
  BY <1>1, <1>3 DEF SocketInvariant, SocketTypeOK, RegistryIsExact

\* connect and disconnect change the entry of the handler's job, by its client.
LEMMA RegistryFollows ==
    ASSUME SocketInvariant, NEW c \in Clients, NEW new \in {Idle} \cup Handling,
           NEW of \in JobIds, NEW clients,
           coroutine' = [coroutine EXCEPT ![c] = new],
           active_connections' = Set(of, clients), UNCHANGED open,
           \A o : o # c => (o \in clients <=> o \in Active(of)),
           c \in clients <=> new.at \in Streaming,
           coroutine[c].at \in Streaming => coroutine[c].job = of,
           new.at \in Streaming => new.job = of
    PROVE  SocketInvariant'
<1>1. /\ coroutine'[c] = new
      /\ \A o \in Clients \ {c} : coroutine'[o] = coroutine[o]
      /\ coroutine' \in [Clients -> {Idle} \cup Handling]
  BY DEF SocketInvariant, SocketTypeOK
<1>2. /\ Active(of)' = clients
      /\ \A k : k # of => Active(k)' = Active(k)
      /\ DOMAIN active_connections' \subseteq DOMAIN active_connections \cup {of}
      /\ \A k \in DOMAIN active_connections' :
            active_connections'[k] = {} => k \in DOMAIN active_connections /\ active_connections[k] = {}
  BY SetIs
<1>3. \A o, j : o \in Active(j)' <=>
          o \in Clients /\ coroutine'[o].at \in Streaming /\ coroutine'[o].job = j
  <2> SUFFICES ASSUME NEW o, NEW j
               PROVE  o \in Active(j)' <=>
                         o \in Clients /\ coroutine'[o].at \in Streaming /\ coroutine'[o].job = j
    OBVIOUS
  <2>1. o \in Active(j) <=> o \in Clients /\ coroutine[o].at \in Streaming /\ coroutine[o].job = j
    BY DEF SocketInvariant, RegistryIsExact
  <2>2. CASE o = c
    BY <1>1, <1>2, <2>1, <2>2
  <2>3. CASE o # c
    BY <1>1, <1>2, <2>1, <2>3
  <2> QED
    BY <2>2, <2>3
<1> QED
  BY <1>1, <1>2, <1>3 DEF SocketInvariant, SocketTypeOK, RegistryIsExact

LEMMA SocketInvariantNext == SocketInvariant /\ SocketNext => SocketInvariant'
<1> SUFFICES ASSUME SocketInvariant, NEW c \in Clients,
                    Leave(c) \/ Coroutine(c) \/ \E of \in JobIds : Accept(c, of)
             PROVE  SocketInvariant'
  BY DEF SocketNext
<1>1. /\ coroutine[c] \in {Idle} \cup Handling
      /\ coroutine[c].at # "idle" => coroutine[c] \in Handling
      /\ \A to \in Streaming : coroutine[c] \in Handling =>
            /\ [coroutine[c] EXCEPT !.at = to] \in Handling
            /\ [coroutine[c] EXCEPT !.at = to].at = to
            /\ [coroutine[c] EXCEPT !.at = to].job = coroutine[c].job
  BY DEF SocketInvariant, SocketTypeOK, Handling, Idle
<1>2. Idle.at \notin Streaming /\ "accept" \notin Streaming /\ "idle" \notin Streaming
  BY DEF Idle, Streaming
<1>3. CASE Leave(c)
  <2>1. open' \subseteq Clients /\ UNCHANGED <<coroutine, active_connections>>
    BY <1>3 DEF Leave, SocketInvariant, SocketTypeOK
  <2> QED
    BY <2>1 DEF SocketInvariant, SocketTypeOK, RegistryIsExact, Active
<1>4. ASSUME NEW of \in JobIds, Accept(c, of) PROVE SocketInvariant'
  <2> DEFINE new == [at |-> "accept", job |-> of]
  <2>1. new \in Handling /\ new.at \notin Streaming
    BY <1>2 DEF Handling
  <2>2. /\ coroutine' = [coroutine EXCEPT ![c] = new] /\ UNCHANGED active_connections
        /\ open' \subseteq Clients /\ coroutine[c].at \notin Streaming
    BY <1>2, <1>4 DEF Accept, SocketInvariant, SocketTypeOK
  <2> HIDE DEF new
  <2> QED
    BY <2>1, <2>2, RegistryUndisturbed
<1>5. CASE Connect(c)
  <2> DEFINE new == [coroutine[c] EXCEPT !.at = "send"]
             of == coroutine[c].job
             clients == Active(of) \cup {c}
  <2>1. /\ coroutine[c].at = "accept"
        /\ coroutine' = [coroutine EXCEPT ![c] = new]
        /\ active_connections' = Set(of, clients) /\ UNCHANGED open
    BY <1>5 DEF Connect, Await
  <2>2. new \in Handling /\ new.at \in Streaming /\ new.job = of /\ of \in JobIds
    BY <1>1, <2>1 DEF Streaming, Handling
  <2>3. c \in clients /\ \A o : o # c => (o \in clients <=> o \in Active(of))
    OBVIOUS
  <2>4. coroutine[c].at \notin Streaming
    BY <1>2, <2>1
  <2> HIDE DEF new, of, clients
  <2> QED
    BY <2>1, <2>2, <2>3, <2>4, RegistryFollows
<1>6. CASE AcceptFails(c)
  <2>1. /\ coroutine' = [coroutine EXCEPT ![c] = Idle] /\ UNCHANGED active_connections
        /\ open' \subseteq Clients /\ coroutine[c].at \notin Streaming
    BY <1>2, <1>6 DEF AcceptFails, SocketInvariant, SocketTypeOK
  <2> QED
    BY <1>2, <2>1, RegistryUndisturbed
<1>7. ASSUME NEW to \in Streaming, coroutine[c].at \in Streaming, Await(c, to),
             UNCHANGED <<open, active_connections>>
      PROVE  SocketInvariant'
  <2> DEFINE new == [coroutine[c] EXCEPT !.at = to]
  <2>1. coroutine' = [coroutine EXCEPT ![c] = new] /\ open' \subseteq Clients
    BY <1>7 DEF Await, SocketInvariant, SocketTypeOK
  <2>2. new \in Handling /\ new.at \in Streaming /\ new.job = coroutine[c].job
    BY <1>1, <1>2, <1>7
  <2> HIDE DEF new
  <2> QED
    BY <1>7, <2>1, <2>2, RegistryUndisturbed
<1>8. CASE Send(c) \/ SendError(c) \/ SleepOver(c)
  BY <1>7, <1>8 DEF Send, SendError, SleepOver, Streaming
<1>9. CASE Disconnect(c)
  <2> DEFINE of == coroutine[c].job
             clients == Active(of) \ {c}
  <2>1. /\ coroutine[c].at = "error"
        /\ coroutine' = [coroutine EXCEPT ![c] = Idle]
        /\ active_connections' = Set(of, clients) /\ UNCHANGED open
    BY <1>9 DEF Disconnect, Disconnected
  <2>2. of \in JobIds
    BY <1>1, <2>1 DEF Handling
  <2>3. c \notin clients /\ \A o : o # c => (o \in clients <=> o \in Active(of))
    OBVIOUS
  <2>4. coroutine[c].at \in Streaming => coroutine[c].job = of
    OBVIOUS
  <2> HIDE DEF of, clients
  <2> QED
    BY <1>2, <2>1, <2>2, <2>3, <2>4, RegistryFollows
<1> QED
  BY <1>3, <1>4, <1>5, <1>6, <1>8, <1>9 DEF Coroutine

(* However clients come and leave between the awaits of their handlers,    *)
(* the registry of the ConnectionManager holds a client for the job it     *)
(* asked for exactly while its handler streams, and no entry that is       *)
(* empty: disconnect takes back what connect did, no more.                 *)
THEOREM RegistryIsTheStreams == MonitoringSpec => []SocketInvariant
<1>1. MonitoringInit => SocketInvariant
  BY DEF MonitoringInit, SocketInit, SocketInvariant, SocketTypeOK, RegistryIsExact, Active,
     Idle, Streaming
<1>2. SocketInvariant /\ [MonitoringNext]_monitoringVars => SocketInvariant'
  <2>1. ASSUME SocketInvariant, UNCHANGED socketVars PROVE SocketInvariant'
    BY <2>1 DEF socketVars, SocketInvariant, SocketTypeOK, RegistryIsExact, Active
  <2> QED
    BY <2>1, SocketInvariantNext
    DEF MonitoringNext, Output, Demo, Poll, Sockets, monitoringVars
<1> QED
  BY <1>1, <1>2, PTL DEF MonitoringSpec
-----------------------------------------------------------------------------
(***************************************************************************)
(* The page.                                                               *)
(***************************************************************************)

Forwarded == {"submit", "demo"}
Waiting == {"sent", "given up"}
Decided == {"answered", "over"}
Forward == [kind : Forwarded, at : Waiting \cup Decided \cup {"error"}]
Cancellation == [kind : {"cancel"}, at : Waiting \cup Decided \cup {"error"}, of : Requests]

PollTypeOK ==
    /\ job \in [Requests -> {"none"} \cup Statuses]
    /\ request \in [Requests -> {Unsent} \cup Forward \cup Cancellation]
    /\ jobs \subseteq Requests \X Statuses
    /\ stats = [jobs |-> stats.jobs, managers |-> stats.managers]

\* A job is there once its submission was handled, which is never again; what
\* is canceled was on the page.
JobsAreRequested ==
    \A r \in Requests :
        /\ job[r] # "none" => request[r] \in Forward /\ request[r].at \in Decided
        /\ request[r] \in Cancellation => job[request[r].of] # "none"

\* The statuses that a job which has been seen at s may have since.
Since(s) ==
    CASE s = "RUNNING" -> Statuses
      [] s = "FAILED" -> {"FAILED", "CANCELED"}
      [] s = "CANCELED" -> {"CANCELED"}

\* Whatever the page shows, of a poll however old and pieced together, was
\* so: no job but one that was accepted, each once, none further than it has
\* come, no TaskManager that did not join; and its figures are those of what
\* it lists, but for the moment between the two.
PageIsNeverAhead ==
    /\ \A entry \in jobs : job[entry[1]] \in Since(entry[2])
    /\ \A one, other \in jobs : one[1] = other[1] => one = other
    /\ cluster_metrics \subseteq members /\ stats.managers = Cardinality(cluster_metrics)
    /\ poller # "stats" => stats.jobs = JobStats(jobs)

PollInvariant == PollTypeOK /\ JobsAreRequested /\ PageIsNeverAhead

LEMMA SinceIs ==
    /\ \A s \in Statuses : s \in Since(s) /\ "CANCELED" \in Since(s) /\ "none" \notin Since(s)
    /\ \A s \in Statuses : "RUNNING" \in Since(s) => "FAILED" \in Since(s)
BY DEF Since, Statuses

\* A shown job is one of the registry.
LEMMA ShownIsThere ==
    ASSUME PollInvariant, NEW entry \in jobs
    PROVE  entry[1] \in Requests /\ entry[2] \in Statuses /\ job[entry[1]] # "none"
BY SinceIs DEF PollInvariant, PollTypeOK, PageIsNeverAhead

\* The JobManager's side moves on while the page stays as it is.
LEMMA JobsMoveOn ==
    ASSUME PollInvariant, UNCHANGED pageVars, members \subseteq members',
           PollTypeOK', JobsAreRequested',
           \A r \in Requests : \A s \in Statuses : job[r] \in Since(s) => job'[r] \in Since(s)
    PROVE  PollInvariant'
<1>1. /\ \A entry \in jobs' : job'[entry[1]] \in Since(entry[2])
  BY ShownIsThere DEF pageVars, PollInvariant, PageIsNeverAhead
<1> QED
  BY <1>1 DEF pageVars, PollInvariant, PageIsNeverAhead

\* A request takes a step, and no job.
LEMMA RequestMovesOn ==
    ASSUME PollInvariant, UNCHANGED <<managerVars, pageVars>>, NEW r \in Requests,
           NEW new \in Forward \cup Cancellation, request' = [request EXCEPT ![r] = new],
           job[r] # "none" => new \in Forward /\ new.at \in Decided,
           new \in Cancellation => job[new.of] # "none"
    PROVE  PollInvariant'
<1>1. /\ request'[r] = new /\ \A q \in Requests \ {r} : request'[q] = request[q]
      /\ job' = job /\ members' = members /\ jobs' = jobs /\ stats' = stats
  BY DEF PollInvariant, PollTypeOK, managerVars, pageVars
<1>2. PollTypeOK'
  BY <1>1 DEF PollInvariant, PollTypeOK
<1>3. JobsAreRequested'
  BY <1>1 DEF PollInvariant, JobsAreRequested
<1> QED
  BY <1>1, <1>2, <1>3, JobsMoveOn

\* What becomes of a request that waits.
LEMMA WaitingIs ==
    ASSUME PollInvariant, NEW r \in Requests, request[r].at \in Waiting,
           NEW to \in Waiting \cup Decided \cup {"error"}
    PROVE  /\ job[r] = "none"
           /\ request[r] \in Forward \cup Cancellation
           /\ [request[r] EXCEPT !.at = to] \in Forward \cup Cancellation
           /\ [request[r] EXCEPT !.at = to].at = to
           /\ [request[r] EXCEPT !.at = to] \in Forward <=> request[r] \in Forward
           /\ [request[r] EXCEPT !.at = to] \in Cancellation =>
                 request[r] \in Cancellation /\ [request[r] EXCEPT !.at = to].of = request[r].of
<1>1. request[r] \in Forward \cup Cancellation
  <2>1. request[r] \in {Unsent} \cup Forward \cup Cancellation
    BY DEF PollInvariant, PollTypeOK
  <2>2. Unsent.at \notin Waiting
    BY DEF Unsent, Waiting
  <2> QED
    BY <2>1, <2>2
<1>2. job[r] = "none"
  BY DEF PollInvariant, JobsAreRequested, Waiting, Decided
<1>3. request[r] \in Forward => request[r].kind # "cancel"
  BY DEF Forward, Forwarded
<1>4. CASE request[r] \in Forward
  BY <1>2, <1>4 DEF Forward, Forwarded, Cancellation
<1>5. CASE request[r] \in Cancellation
  BY <1>2, <1>5 DEF Forward, Forwarded, Cancellation
<1> QED
  BY <1>1, <1>4, <1>5

LEMMA PollInvariantNext == PollInvariant /\ PollNext => PollInvariant'
<1> SUFFICES ASSUME PollInvariant, PollNext PROVE PollInvariant'
  OBVIOUS
<1>1. ASSUME UNCHANGED <<job, request, pageVars>>, members \subseteq members' PROVE PollInvariant'
  <2>1. PollTypeOK' /\ JobsAreRequested'
    BY <1>1 DEF PollInvariant, PollTypeOK, JobsAreRequested, pageVars
  <2> QED
    BY <1>1, <2>1, JobsMoveOn
<1>2. CASE GoDown \/ ComeUp \/ \E t \in TaskManagerIds : TaskManagerJoins(t)
  BY <1>1, <1>2 DEF GoDown, ComeUp, TaskManagerJoins
<1>3. ASSUME NEW r \in Requests, JobFails(r) PROVE PollInvariant'
  <2>1. /\ job[r] = "RUNNING" /\ job'[r] = "FAILED"
        /\ \A q \in Requests \ {r} : job'[q] = job[q]
        /\ UNCHANGED <<request, members, pageVars>>
    BY <1>3 DEF JobFails, PollInvariant, PollTypeOK
  <2>2. PollTypeOK'
    BY <1>3, <2>1 DEF JobFails, PollInvariant, PollTypeOK, pageVars, Statuses
  <2>3. JobsAreRequested'
    BY <2>1, <2>2 DEF PollInvariant, JobsAreRequested, PollTypeOK, Cancellation
  <2> QED
    BY <2>1, <2>2, <2>3, SinceIs, JobsMoveOn
<1>4. ASSUME NEW r \in Requests, NEW kind \in {"submit", "demo"}, Submit(r, kind)
      PROVE  PollInvariant'
  <2> DEFINE new == [kind |-> kind, at |-> "sent"]
  <2>1. new \in Forward /\ new \notin Cancellation
    BY DEF Forward, Forwarded, Waiting, Cancellation
  <2>2. job[r] = "none"
    BY <1>4 DEF Submit, PollInvariant, JobsAreRequested, Unsent, Decided
  <2>3. request' = [request EXCEPT ![r] = new] /\ UNCHANGED <<managerVars, pageVars>>
    BY <1>4 DEF Submit
  <2> HIDE DEF new
  <2> QED
    BY <2>1, <2>2, <2>3, RequestMovesOn
<1>5. ASSUME NEW r \in Requests, NEW shown \in jobs, Cancel(r, shown) PROVE PollInvariant'
  <2> DEFINE new == [kind |-> "cancel", at |-> "sent", of |-> shown[1]]
  <2>1. shown[1] \in Requests /\ job[shown[1]] # "none"
    BY ShownIsThere
  <2>2. new \in Cancellation /\ new.of = shown[1]
    BY <2>1 DEF Waiting, Cancellation
  <2>3. job[r] = "none"
    BY <1>5 DEF Cancel, PollInvariant, JobsAreRequested, Unsent, Decided
  <2>4. request' = [request EXCEPT ![r] = new] /\ UNCHANGED <<managerVars, pageVars>>
    BY <1>5 DEF Cancel
  <2> HIDE DEF new
  <2> QED
    BY <2>1, <2>2, <2>3, <2>4, RequestMovesOn
<1>6. ASSUME NEW r \in Requests, Refuse(r) \/ TimeOut(r) PROVE PollInvariant'
  <2>1. request[r].at \in Waiting /\ UNCHANGED <<managerVars, pageVars>>
    BY <1>6 DEF Refuse, TimeOut, Waiting
  <2>2. PICK to \in Waiting \cup Decided \cup {"error"} :
           request' = [request EXCEPT ![r] = [request[r] EXCEPT !.at = to]]
    <3>1. CASE Refuse(r)
      BY <3>1 DEF Refuse, Answered, Decided
    <3>2. CASE TimeOut(r)
      BY <3>2 DEF TimeOut, Waiting
    <3> QED
      BY <1>6, <3>1, <3>2
  <2> DEFINE new == [request[r] EXCEPT !.at = to]
  <2>3. /\ job[r] = "none" /\ new \in Forward \cup Cancellation
        /\ new \in Cancellation => request[r] \in Cancellation /\ new.of = request[r].of
    BY <2>1, WaitingIs
  <2>4. new \in Cancellation => job[new.of] # "none"
    BY <2>3 DEF PollInvariant, JobsAreRequested
  <2> HIDE DEF new
  <2>5. request' = [request EXCEPT ![r] = new]
    BY <2>2 DEF new
  <2> QED
    BY <2>1, <2>3, <2>4, <2>5, RequestMovesOn
<1>7. ASSUME NEW r \in Requests, Handle(r) PROVE PollInvariant'
  <2>1. request[r].at \in Waiting /\ UNCHANGED <<members, pageVars>>
    BY <1>7 DEF Handle, Waiting
  <2>2. PICK to \in Decided :
           request' = [request EXCEPT ![r] = [request[r] EXCEPT !.at = to]]
    BY <1>7 DEF Handle, Answered, Decided
  <2> DEFINE new == [request[r] EXCEPT !.at = to]
  <2>3. /\ job[r] = "none" /\ new \in Forward \cup Cancellation /\ new.at \in Decided
        /\ request[r] \in Forward \cup Cancellation
        /\ new \in Forward <=> request[r] \in Forward
        /\ new \in Cancellation => request[r] \in Cancellation /\ new.of = request[r].of
    BY <2>1, WaitingIs
  <2> HIDE DEF new
  <2>4. request'[r] = new /\ \A q \in Requests \ {r} : request'[q] = request[q]
    BY <2>2 DEF new, PollInvariant, PollTypeOK
  <2>5. request' \in [Requests -> {Unsent} \cup Forward \cup Cancellation]
    BY <2>2, <2>3 DEF new, PollInvariant, PollTypeOK
  <2>6. Forward \cap Cancellation = {}
    BY DEF Forward, Forwarded, Cancellation
  <2>7. CASE request[r] \in Cancellation
    <3> DEFINE of == request[r].of
    <3>1. request[r].kind = "cancel" /\ of \in Requests /\ job[of] # "none"
      BY <2>7 DEF Cancellation, PollInvariant, JobsAreRequested
    <3>2. job' = [job EXCEPT ![of] = "CANCELED"]
      BY <1>7, <3>1 DEF Handle
    <3> HIDE DEF of
    <3>3. /\ job'[of] = "CANCELED" /\ \A q \in Requests \ {of} : job'[q] = job[q]
          /\ job' \in [Requests -> {"none"} \cup Statuses]
      BY <3>1, <3>2 DEF PollInvariant, PollTypeOK, Statuses
    <3>4. PollTypeOK'
      BY <2>1, <2>5, <3>3 DEF PollInvariant, PollTypeOK, pageVars
    <3>5. \A q \in Requests : job'[q] = "none" <=> job[q] = "none"
      BY <3>1, <3>3
    <3>6. JobsAreRequested'
      <4> SUFFICES ASSUME NEW q \in Requests
                   PROVE  /\ job'[q] # "none" => request'[q] \in Forward /\ request'[q].at \in Decided
                          /\ request'[q] \in Cancellation => job'[request'[q].of] # "none"
        BY DEF JobsAreRequested
      <4>1. request'[q] \in Cancellation => request'[q].of \in Requests
        BY DEF Cancellation
      <4>2. CASE q = r
        BY <2>3, <2>4, <3>5, <4>1, <4>2 DEF PollInvariant, JobsAreRequested
      <4>3. CASE q # r
        BY <2>4, <3>5, <4>1, <4>3 DEF PollInvariant, JobsAreRequested
      <4> QED
        BY <4>2, <4>3
    <3>7. \A q \in Requests : \A s \in Statuses : job[q] \in Since(s) => job'[q] \in Since(s)
      BY <3>3, SinceIs
    <3> QED
      BY <2>1, <3>4, <3>6, <3>7, JobsMoveOn
  <2>8. CASE request[r] \in Forward
    <3>1. request[r].kind # "cancel"
      BY <2>8 DEF Forward, Forwarded
    <3>2. job' = [job EXCEPT ![r] = "RUNNING"]
      BY <1>7, <3>1 DEF Handle
    <3>3. /\ job'[r] = "RUNNING" /\ \A q \in Requests \ {r} : job'[q] = job[q]
          /\ job' \in [Requests -> {"none"} \cup Statuses]
      BY <3>2 DEF PollInvariant, PollTypeOK, Statuses
    <3>4. PollTypeOK'
      BY <2>1, <2>5, <3>3 DEF PollInvariant, PollTypeOK, pageVars
    <3>5. \A q \in Requests : job[q] # "none" => job'[q] # "none"
      BY <3>3
    <3>6. JobsAreRequested'
      <4> SUFFICES ASSUME NEW q \in Requests
                   PROVE  /\ job'[q] # "none" => request'[q] \in Forward /\ request'[q].at \in Decided
                          /\ request'[q] \in Cancellation => job'[request'[q].of] # "none"
        BY DEF JobsAreRequested
      <4>1. request'[q] \in Cancellation => request'[q].of \in Requests
        BY DEF Cancellation
      <4>2. CASE q = r
        BY <2>3, <2>4, <2>6, <2>8, <4>2
      <4>3. CASE q # r
        BY <2>4, <3>3, <3>5, <4>1, <4>3 DEF PollInvariant, JobsAreRequested
      <4> QED
        BY <4>2, <4>3
    <3>7. \A q \in Requests : \A s \in Statuses : job[q] \in Since(s) => job'[q] \in Since(s)
      BY <2>3, <3>3, SinceIs
    <3> QED
      BY <2>1, <3>4, <3>6, <3>7, JobsMoveOn
  <2> QED
    BY <2>3, <2>7, <2>8
<1>8. CASE PollThread
  <2>1. UNCHANGED <<job, members, request>>
    BY <1>8 DEF PollThread, CheckConnection, FetchClusterMetrics, FetchJobs, UpdateStats, Sleep,
       managerVars
  <2>2. JobsAreRequested'
    BY <2>1 DEF PollInvariant, JobsAreRequested
  <2>3. CASE CheckConnection \/ Sleep
    <3>1. UNCHANGED <<jobs, cluster_metrics, stats>> /\ poller # "stats"
      BY <2>3 DEF CheckConnection, Sleep
    <3> QED
      BY <2>1, <2>2, <3>1 DEF PollInvariant, PollTypeOK, PageIsNeverAhead
  <2>4. CASE FetchClusterMetrics
    <3> DEFINE managers == IF up THEN Cardinality(members) ELSE stats.managers
    <3>1. /\ poller = "cluster" /\ jobs' = jobs
          /\ cluster_metrics' = IF up THEN members ELSE cluster_metrics
          /\ stats' = [stats EXCEPT !.managers = managers]
      BY <2>4 DEF FetchClusterMetrics
    <3>2. stats = [jobs |-> stats.jobs, managers |-> stats.managers]
      BY DEF PollInvariant, PollTypeOK
    <3>3. managers = Cardinality(cluster_metrics')
      BY <3>1 DEF PollInvariant, PageIsNeverAhead
    <3> HIDE DEF managers
    <3>4. stats' = [jobs |-> stats.jobs, managers |-> managers]
      BY <3>1, <3>2
    <3>5. /\ stats' = [jobs |-> stats'.jobs, managers |-> stats'.managers]
          /\ stats'.jobs = stats.jobs /\ stats'.managers = managers
      BY <3>4
    <3> QED
      BY <2>1, <2>2, <3>1, <3>3, <3>5 DEF PollInvariant, PollTypeOK, PageIsNeverAhead
  <2>5. CASE FetchJobs
    <3>1. /\ poller' = "stats" /\ jobs' = Fetched /\ UNCHANGED <<cluster_metrics, stats>>
      BY <2>5 DEF FetchJobs
    <3>2. \A entry \in jobs' : /\ entry[1] \in Requests /\ entry[2] \in Statuses
                               /\ entry = <<entry[1], entry[2]>> /\ entry[2] = job[entry[1]]
      BY <3>1 DEF Fetched, Registry, PollInvariant, PollTypeOK
    <3>3. jobs' \subseteq Requests \X Statuses
      BY <3>2
    <3>4. \A one, other \in jobs' : one[1] = other[1] => one = other
      BY <3>2
    <3>5. \A entry \in jobs' : job'[entry[1]] \in Since(entry[2])
      BY <2>1, <3>2, SinceIs
    <3> QED
      BY <2>1, <2>2, <3>1, <3>3, <3>4, <3>5 DEF PollInvariant, PollTypeOK, PageIsNeverAhead
  <2>6. CASE UpdateStats
    <3> DEFINE figures == JobStats(jobs)
    <3>1. UNCHANGED <<jobs, cluster_metrics>> /\ stats' = [stats EXCEPT !.jobs = figures]
      BY <2>6 DEF UpdateStats
    <3>2. stats = [jobs |-> stats.jobs, managers |-> stats.managers]
      BY DEF PollInvariant, PollTypeOK
    <3>3. figures = JobStats(jobs')
      BY <3>1
    <3> HIDE DEF figures
    <3>4. stats' = [jobs |-> figures, managers |-> stats.managers]
      BY <3>1, <3>2
    <3>5. /\ stats' = [jobs |-> stats'.jobs, managers |-> stats'.managers]
          /\ stats'.jobs = figures /\ stats'.managers = stats.managers
      BY <3>4
    <3> QED
      BY <2>1, <2>2, <3>1, <3>3, <3>5 DEF PollInvariant, PollTypeOK, PageIsNeverAhead
  <2> QED
    BY <1>8, <2>3, <2>4, <2>5, <2>6 DEF PollThread
<1> QED
  BY <1>2, <1>3, <1>4, <1>5, <1>6, <1>7, <1>8 DEF PollNext

(* However outages, failures, cancellations and answers that nobody waits  *)
(* for come between the pieces of a poll, the page is only ever behind:    *)
(* each job it lists was accepted, is listed once and with a status it has *)
(* had, and its figures are those of its lists.                            *)
THEOREM PageIsOnlyBehind == MonitoringSpec => []PageIsNeverAhead
<1>1. MonitoringInit => PollInvariant
  <2> SUFFICES ASSUME PollInit PROVE PollInvariant
    BY DEF MonitoringInit
  <2>1. stats.managers = 0 /\ stats.jobs = JobStats({}) /\ Cardinality({}) = 0
    BY FS_EmptySet DEF PollInit
  <2>2. \A r \in Requests : request[r] = Unsent /\ Unsent \notin Cancellation
    BY DEF PollInit, Unsent, Cancellation
  <2>3. PollTypeOK /\ JobsAreRequested
    BY <2>1, <2>2 DEF PollInit, PollTypeOK, JobsAreRequested
  <2>4. PageIsNeverAhead
    BY <2>1 DEF PollInit, PageIsNeverAhead
  <2> QED
    BY <2>3, <2>4 DEF PollInvariant
<1>2. PollInvariant /\ [MonitoringNext]_monitoringVars => PollInvariant'
  <2>1. ASSUME PollInvariant, UNCHANGED pollVars PROVE PollInvariant'
    BY <2>1 DEF pollVars, managerVars, pageVars, PollInvariant, PollTypeOK, JobsAreRequested,
       PageIsNeverAhead
  <2> QED
    BY <2>1, PollInvariantNext
    DEF MonitoringNext, Output, Demo, Poll, Sockets, monitoringVars
<1> QED
  BY <1>1, <1>2, PTL DEF MonitoringSpec, PollInvariant
=============================================================================

----------------------------- MODULE TasksProofs -----------------------------
(***************************************************************************)
(* Proofs about the parts of Tasks: BarrierAlignment, for every set of     *)
(* upstreams and every number of checkpoints, records and repeated         *)
(* barriers; KeyedState, for every set of keys, of values and of threads   *)
(* and both backends; SourceTask, for every partition, chain and size of   *)
(* batch.  The last theorem says that Tasks is made of these parts.        *)
(***************************************************************************)
EXTENDS Tasks, FiniteSetTheorems, TLAPS

(***************************************************************************)
(* BarrierAlignment.                                                       *)
(***************************************************************************)

Snapshot == [id : Ids, state : SUBSET Deliveries]

\* The operator has taken what was delivered and not lost.
StateIsDelivered ==
    \A u \in Upstreams : \A k \in 1 .. MaxRecords :
        k <= sent[u] => <<u, k>> \in taken \cup lost

BarriersInTheStream ==
    \A u \in Upstreams : \A c \in Ids : before[<<u, c>>] <= sent[u]

\* A mark stands for a barrier that was delivered.
MarksAreDelivered ==
    \A c \in Ids : \A u \in barriers[c] : barrier[u] >= c

SnapshotsAreOfThePast ==
    \A i \in DOMAIN snapshots : snapshots[i].state \subseteq taken

\* The inductive invariant.
AlignmentInv ==
    /\ AlignTypeOK
    /\ StateIsDelivered
    /\ BarriersInTheStream
    /\ MarksAreDelivered
    /\ SnapshotsAreOfThePast
    /\ SnapshotCoversBarriers

LEMMA InitAlignmentInv == AlignInit => AlignmentInv
<1> SUFFICES ASSUME AlignInit PROVE AlignmentInv
  OBVIOUS
<1>1. Checkpoints \in Nat /\ MaxRecords \in Nat /\ MaxRepeats \in Nat
  BY AlignmentAssumption DEF AlignmentAssumption
<1>2. AlignTypeOK
  <2>1. snapshots \in Seq(Snapshot) /\ stopped \in BOOLEAN
    <3>1. << >> \in Seq(Snapshot) /\ FALSE \in BOOLEAN
      OBVIOUS
    <3> QED
      BY <3>1 DEF AlignInit
  <2>2. sent \in [Upstreams -> 0 .. MaxRecords] /\ barrier \in [Upstreams -> 0 .. Checkpoints]
    BY <1>1 DEF AlignInit
  <2>3. before \in [Upstreams \X Ids -> 0 .. MaxRecords] /\ barriers \in [Ids -> SUBSET Upstreams]
    BY <1>1 DEF AlignInit
  <2>4. taken \subseteq Deliveries /\ lost \subseteq Deliveries /\ repeats \in 0 .. MaxRepeats
    BY <1>1 DEF AlignInit
  <2> QED
    BY <2>1, <2>2, <2>3, <2>4 DEF AlignTypeOK, Snapshot
<1> QED
  BY <1>1, <1>2 DEF AlignInit, AlignmentInv, StateIsDelivered, BarriersInTheStream,
     MarksAreDelivered, SnapshotsAreOfThePast, SnapshotCoversBarriers, Ids

LEMMA SnapshotIds ==
    ASSUME AlignTypeOK, NEW i \in DOMAIN snapshots
    PROVE  snapshots[i].id \in Ids /\ snapshots[i].id \in Nat
<1>1. snapshots \in Seq(Snapshot)
  BY DEF AlignTypeOK, Snapshot
<1>2. snapshots[i] \in Snapshot
  BY <1>1
<1> QED
  BY <1>2 DEF Snapshot, Ids

(* What Mark leaves of the marks and adds to the snapshots.                *)
LEMMA MarkEffect ==
    ASSUME NEW u \in Upstreams, NEW c \in Ids, Mark(u, c)
    PROVE  \/ /\ snapshots' = Append(snapshots, [id |-> c, state |-> taken])
              /\ Upstreams \subseteq barriers[c] \cup {u}
              /\ barriers' = [barriers EXCEPT ![c] = {}]
           \/ /\ snapshots' = snapshots
              /\ barriers' = [barriers EXCEPT ![c] = barriers[c] \cup {u}]
BY DEF Mark, AllReceived, Marked, Forget

LEMMA MarkElsewhere ==
    ASSUME AlignTypeOK, NEW u \in Upstreams, NEW c \in Ids, Mark(u, c)
    PROVE  /\ barriers' \in [Ids -> SUBSET Upstreams]
           /\ \A d \in Ids : d # c => barriers'[d] = barriers[d]
           /\ barriers'[c] \subseteq barriers[c] \cup {u}
<1>1. barriers \in [Ids -> SUBSET Upstreams]
  BY DEF AlignTypeOK
<1>2. PICK marks \in SUBSET (barriers[c] \cup {u}) :
        barriers' = [barriers EXCEPT ![c] = marks]
  BY MarkEffect
<1> QED
  BY <1>1, <1>2

(* A sequence with one more element.                                       *)
LEMMA Appended ==
    ASSUME NEW S, NEW s \in Seq(S), NEW e \in S
    PROVE  /\ Append(s, e) \in Seq(S)
           /\ \A i \in DOMAIN Append(s, e) :
                 \/ i \in DOMAIN s /\ Append(s, e)[i] = s[i] /\ i <= Len(s)
                 \/ i = Len(s) + 1 /\ Append(s, e)[i] = e
OBVIOUS

(* Mark keeps the invariant, once the barrier of checkpoint c is delivered.*)
LEMMA MarkKeeps ==
    ASSUME AlignmentInv, NEW u \in Upstreams, NEW c \in Ids, Mark(u, c),
           taken' = taken, lost' = lost, sent' = sent, stopped' = stopped,
           barrier' \in [Upstreams -> 0 .. Checkpoints],
           barrier'[u] >= c,
           \A v \in Upstreams : barrier'[v] >= barrier[v],
           before' \in [Upstreams \X Ids -> 0 .. MaxRecords],
           BarriersInTheStream',
           \A v \in Upstreams, d \in Ids : barrier[v] >= d => before'[<<v, d>>] = before[<<v, d>>],
           repeats' \in 0 .. MaxRepeats
    PROVE  AlignmentInv'
<1> DEFINE new == [id |-> c, state |-> taken]
<1>t. AlignTypeOK
  BY DEF AlignmentInv
<1>0. Ids \subseteq Nat /\ c \in Nat /\ barrier[u] \in Nat
      /\ MaxRecords \in Nat /\ Checkpoints \in Nat
  BY <1>t, AlignmentAssumption DEF AlignmentAssumption, Ids, AlignTypeOK
<1>1. new \in Snapshot /\ snapshots \in Seq(Snapshot)
  BY <1>t DEF AlignTypeOK, Snapshot
<1>m. \/ snapshots' = snapshots
      \/ snapshots' = Append(snapshots, new) /\ Upstreams \subseteq barriers[c] \cup {u}
  BY MarkEffect
<1>2. \A i \in DOMAIN snapshots' :
         \/ i \in DOMAIN snapshots /\ snapshots'[i] = snapshots[i]
         \/ snapshots'[i] = new /\ Upstreams \subseteq barriers[c] \cup {u}
  <2> HIDE DEF new
  <2>1. CASE snapshots' = snapshots
    BY <2>1
  <2>2. CASE /\ snapshots' = Append(snapshots, new)
             /\ Upstreams \subseteq barriers[c] \cup {u}
    <3>1. \A i \in DOMAIN Append(snapshots, new) :
            \/ i \in DOMAIN snapshots /\ Append(snapshots, new)[i] = snapshots[i]
            \/ Append(snapshots, new)[i] = new
      BY <1>1, Appended
    <3> QED
      BY <2>2, <3>1
  <2> QED
    BY <1>m, <2>1, <2>2
<1>3. AlignTypeOK'
  <2>1. snapshots' \in Seq(Snapshot)
    <3> HIDE DEF new
    <3> QED
      BY <1>m, <1>1, Appended
  <2> QED
    BY <1>t, <2>1, MarkElsewhere DEF AlignTypeOK, Snapshot
<1>4. StateIsDelivered'
  BY DEF AlignmentInv, StateIsDelivered
<1>5. MarksAreDelivered'
  <2> SUFFICES ASSUME NEW d \in Ids, NEW v \in barriers'[d]
               PROVE  barrier'[v] >= d
    BY DEF MarksAreDelivered
  <2>1. v \in Upstreams
    BY <1>t, MarkElsewhere DEF AlignTypeOK
  <2>2. v \in barriers[d] \/ (d = c /\ v = u)
    BY <1>t, MarkElsewhere
  <2>3. CASE v \in barriers[d]
    <3>1. barrier[v] >= d /\ barrier'[v] >= barrier[v]
      BY <2>1, <2>3 DEF AlignmentInv, MarksAreDelivered
    <3> QED
      BY <1>0, <1>t, <2>1, <3>1 DEF AlignTypeOK
  <2> QED
    BY <2>2, <2>3
<1>6. SnapshotsAreOfThePast'
  BY <1>2 DEF AlignmentInv, SnapshotsAreOfThePast
<1>7. SnapshotCoversBarriers'
  <2> SUFFICES ASSUME NEW i \in DOMAIN snapshots', NEW v \in Upstreams
               PROVE  /\ barrier'[v] >= snapshots'[i].id
                      /\ Below(v, before'[<<v, snapshots'[i].id>>]) \subseteq snapshots'[i].state \cup lost
    BY DEF SnapshotCoversBarriers
  <2>1. CASE i \in DOMAIN snapshots /\ snapshots'[i] = snapshots[i]
    <3>1. PICK d \in Ids : d = snapshots[i].id
      BY <1>t, <2>1, SnapshotIds
    <3>2. barrier[v] >= d /\ Below(v, before[<<v, d>>]) \subseteq snapshots[i].state \cup lost
      BY <2>1, <3>1 DEF AlignmentInv, SnapshotCoversBarriers
    <3>3. before'[<<v, d>>] = before[<<v, d>>] /\ barrier'[v] >= barrier[v]
      BY <3>2
    <3>4. barrier'[v] >= d
      BY <1>0, <1>t, <3>2, <3>3 DEF AlignTypeOK
    <3> QED
      BY <2>1, <3>1, <3>2, <3>3, <3>4
  <2>2. CASE snapshots'[i] = new /\ Upstreams \subseteq barriers[c] \cup {u}
    <3>1. barrier'[v] >= c
      <4>1. CASE v = u
        BY <4>1
      <4>2. CASE v \in barriers[c]
        <5>1. barrier[v] >= c /\ barrier'[v] >= barrier[v]
          BY <4>2 DEF AlignmentInv, MarksAreDelivered
        <5> QED
          BY <1>0, <1>t, <5>1 DEF AlignTypeOK
      <4> QED
        BY <2>2, <4>1, <4>2
    <3>2. before'[<<v, c>>] <= sent[v] /\ before'[<<v, c>>] \in 0 .. MaxRecords
      BY DEF BarriersInTheStream
    <3>3. ASSUME NEW k \in 1 .. before'[<<v, c>>] PROVE <<v, k>> \in taken \cup lost
      <4>1. k \in 1 .. MaxRecords /\ k <= sent[v]
        BY <1>0, <1>t, <3>2 DEF AlignTypeOK
      <4> QED
        BY <4>1 DEF AlignmentInv, StateIsDelivered
    <3> QED
      BY <2>2, <3>1, <3>3 DEF Below
  <2> QED
    BY <1>2, <2>1, <2>2
<1> QED
  BY <1>3, <1>4, <1>5, <1>6, <1>7 DEF AlignmentInv

LEMMA StepAlignmentInv == AlignmentInv /\ [AlignNext]_alignVars => AlignmentInv'
<1> SUFFICES ASSUME AlignmentInv, [AlignNext]_alignVars PROVE AlignmentInv'
  OBVIOUS
<1>t. AlignTypeOK
  BY DEF AlignmentInv
<1>0. Checkpoints \in Nat /\ MaxRecords \in Nat /\ MaxRepeats \in Nat
  BY AlignmentAssumption DEF AlignmentAssumption
<1>1. ASSUME NEW u \in Upstreams, ProcessRecord(u) PROVE AlignmentInv'
  <2>1. sent[u] \in 0 .. MaxRecords /\ sent[u] < MaxRecords
    BY <1>1, <1>t DEF ProcessRecord, AlignTypeOK
  <2>2. /\ sent' = [sent EXCEPT ![u] = sent[u] + 1]
        /\ taken' \cup lost' = taken \cup lost \cup {<<u, sent[u] + 1>>}
        /\ taken' \in {taken, taken \cup {<<u, sent[u] + 1>>}}
        /\ lost' \in {lost, lost \cup {<<u, sent[u] + 1>>}}
        /\ UNCHANGED <<barrier, before, barriers, snapshots, stopped, repeats>>
    BY <1>1 DEF ProcessRecord, Process, Swallow, Ignore
  <2>3. <<u, sent[u] + 1>> \in Deliveries /\ sent[u] + 1 \in 0 .. MaxRecords
    BY <1>0, <2>1 DEF Deliveries
  <2>4. AlignTypeOK'
    BY <1>t, <2>2, <2>3 DEF AlignTypeOK
  <2>5. StateIsDelivered'
    <3> SUFFICES ASSUME NEW v \in Upstreams, NEW k \in 1 .. MaxRecords, k <= sent'[v]
                 PROVE  <<v, k>> \in taken' \cup lost'
      BY DEF StateIsDelivered
    <3>1. CASE k <= sent[v]
      BY <2>2, <3>1 DEF AlignmentInv, StateIsDelivered
    <3>2. CASE ~(k <= sent[v])
      <4>1. v = u /\ k <= sent[u] + 1
        BY <1>t, <2>2, <3>2 DEF AlignTypeOK
      <4>2. k = sent[u] + 1
        BY <1>0, <2>1, <3>2, <4>1
      <4> QED
        BY <2>2, <4>1, <4>2
    <3> QED
      BY <3>1, <3>2
  <2>6. BarriersInTheStream'
    <3> SUFFICES ASSUME NEW v \in Upstreams, NEW c \in Ids
                 PROVE  before[<<v, c>>] <= sent'[v]
      BY <2>2 DEF BarriersInTheStream
    <3>1. before[<<v, c>>] <= sent[v] /\ before[<<v, c>>] \in 0 .. MaxRecords
      BY <1>t DEF AlignmentInv, BarriersInTheStream, AlignTypeOK
    <3>2. sent'[v] = sent[v] \/ sent'[v] = sent[v] + 1
      BY <1>t, <2>2 DEF AlignTypeOK
    <3>3. sent[v] \in Nat
      BY <1>t, <1>0 DEF AlignTypeOK
    <3> QED
      BY <1>0, <3>1, <3>2, <3>3
  <2>7. MarksAreDelivered' /\ SnapshotsAreOfThePast' /\ SnapshotCoversBarriers'
    <3>1. taken \subseteq taken' /\ lost \subseteq lost'
      BY <2>2
    <3> QED
      BY <2>2, <3>1 DEF AlignmentInv, MarksAreDelivered, SnapshotsAreOfThePast,
       SnapshotCoversBarriers
  <2> QED
    BY <2>4, <2>5, <2>6, <2>7 DEF AlignmentInv
<1>2. ASSUME NEW u \in Upstreams, ProcessBarrier(u) PROVE AlignmentInv'
  <2> DEFINE c == barrier[u] + 1
  <2>1. barrier[u] \in 0 .. Checkpoints /\ barrier[u] < Checkpoints
    BY <1>2, <1>t DEF ProcessBarrier, AlignTypeOK
  <2>2. c \in Ids /\ c \in Nat /\ c = barrier[u] + 1 /\ c \in 0 .. Checkpoints
    BY <1>0, <2>1 DEF Ids
  <2>3. /\ barrier' = [barrier EXCEPT ![u] = c]
        /\ before' = [before EXCEPT ![<<u, c>>] = sent[u]]
        /\ Mark(u, c)
        /\ sent' = sent /\ taken' = taken /\ lost' = lost
        /\ stopped' = stopped /\ repeats' = repeats
    BY <1>2 DEF ProcessBarrier
  <2> HIDE DEF c
  <2>4. sent[u] \in 0 .. MaxRecords
    BY <1>t DEF AlignTypeOK
  <2>5. barrier' \in [Upstreams -> 0 .. Checkpoints]
    BY <1>t, <2>2, <2>3 DEF AlignTypeOK
  <2>6. before' \in [Upstreams \X Ids -> 0 .. MaxRecords]
    BY <1>t, <2>3, <2>4 DEF AlignTypeOK
  <2>7. \A v \in Upstreams : barrier'[v] = IF v = u THEN c ELSE barrier[v]
    BY <1>t, <2>3 DEF AlignTypeOK
  <2>8. barrier'[u] >= c /\ \A v \in Upstreams : barrier'[v] >= barrier[v]
    <3>1. \A v \in Upstreams : barrier[v] \in Nat
      BY <1>0, <1>t DEF AlignTypeOK
    <3> QED
      BY <2>1, <2>2, <2>7, <3>1
  <2>9. \A v \in Upstreams, d \in Ids :
          before'[<<v, d>>] = IF v = u /\ d = c THEN sent[u] ELSE before[<<v, d>>]
    BY <1>t, <2>3 DEF AlignTypeOK
  <2>10. BarriersInTheStream'
    <3> SUFFICES ASSUME NEW v \in Upstreams, NEW d \in Ids
                 PROVE  before'[<<v, d>>] <= sent[v]
      BY <2>3 DEF BarriersInTheStream
    <3>1. CASE v = u /\ d = c
      BY <1>0, <2>4, <2>9, <3>1
    <3>2. CASE ~(v = u /\ d = c)
      BY <2>9, <3>2 DEF AlignmentInv, BarriersInTheStream
    <3> QED
      BY <3>1, <3>2
  <2>11. \A v \in Upstreams, d \in Ids :
           barrier[v] >= d => before'[<<v, d>>] = before[<<v, d>>]
    BY <2>1, <2>2, <2>9 DEF Ids
  <2>12. repeats' \in 0 .. MaxRepeats
    BY <1>t, <2>3 DEF AlignTypeOK
  <2> QED
    BY <2>2, <2>3, <2>5, <2>6, <2>8, <2>10, <2>11, <2>12, MarkKeeps
<1>3. ASSUME NEW u \in Upstreams, RepeatBarrier(u) PROVE AlignmentInv'
  <2>1. /\ barrier[u] \in Ids
        /\ barrier[u] >= barrier[u]
        /\ repeats' \in 0 .. MaxRepeats
    BY <1>0, <1>3, <1>t DEF RepeatBarrier, AlignTypeOK, Ids
  <2>2. \A v \in Upstreams : barrier[v] >= barrier[v]
    BY <1>0, <1>t DEF AlignTypeOK
  <2>3. Mark(u, barrier[u]) /\ UNCHANGED <<sent, barrier, before, taken, stopped, lost>>
    BY <1>3 DEF RepeatBarrier
  <2>4. /\ barrier' \in [Upstreams -> 0 .. Checkpoints]
        /\ before' \in [Upstreams \X Ids -> 0 .. MaxRecords]
        /\ BarriersInTheStream'
    BY <1>t, <2>3 DEF AlignTypeOK, AlignmentInv, BarriersInTheStream
  <2>5. PICK c \in Ids : c = barrier[u] /\ Mark(u, c)
    BY <2>1, <2>3
  <2>6. /\ taken' = taken /\ lost' = lost /\ sent' = sent /\ stopped' = stopped
        /\ barrier'[u] >= c
        /\ \A v \in Upstreams : barrier'[v] >= barrier[v]
        /\ \A v \in Upstreams, d \in Ids :
             barrier[v] >= d => before'[<<v, d>>] = before[<<v, d>>]
    BY <2>1, <2>2, <2>3, <2>5
  <2> QED
    BY <2>1, <2>4, <2>5, <2>6, MarkKeeps
<1>4. CASE StopTask
  BY <1>4 DEF StopTask, AlignmentInv, AlignTypeOK, StateIsDelivered, BarriersInTheStream,
     MarksAreDelivered, SnapshotsAreOfThePast, SnapshotCoversBarriers
<1>5. CASE UNCHANGED alignVars
  BY <1>5 DEF alignVars, AlignmentInv, AlignTypeOK, StateIsDelivered, BarriersInTheStream,
     MarksAreDelivered, SnapshotsAreOfThePast, SnapshotCoversBarriers
<1> QED
  BY <1>1, <1>2, <1>3, <1>4, <1>5 DEF AlignNext

(* A snapshot covers every record sent before one of its barriers, but for *)
(* those lost to a raising operator or a stopped task, for any number of   *)
(* upstreams and checkpoints, and with any barriers repeated.              *)
THEOREM SnapshotsCoverBarriers == AlignSpec => []SnapshotCoversBarriers
<1>1. AlignmentInv => SnapshotCoversBarriers
  BY DEF AlignmentInv
<1> QED
  BY <1>1, InitAlignmentInv, StepAlignmentInv, PTL DEF AlignSpec

-----------------------------------------------------------------------------
(* Without a repeated barrier, a step adds no snapshot or one of a         *)
(* checkpoint later than every one before, whose marks it removes; other   *)
(* marks are made only for checkpoints later than every snapshot.          *)
LEMMA StepWithoutRepeat ==
    ASSUME AlignmentInv, [AlignNext]_alignVars, repeats' = 0
    PROVE  /\ repeats = 0
           /\ \/ snapshots' = snapshots /\ barriers' = barriers
              \/ \E u \in Upstreams, c \in Ids :
                   /\ Mark(u, c)
                   /\ \A i \in DOMAIN snapshots : snapshots[i].id < c
<1>t. AlignTypeOK
  BY DEF AlignmentInv
<1>1. CASE UNCHANGED alignVars
  BY <1>1 DEF alignVars
<1>2. ASSUME NEW u \in Upstreams, RepeatBarrier(u) PROVE FALSE
  BY <1>2, <1>t, AlignmentAssumption DEF AlignmentAssumption, RepeatBarrier, AlignTypeOK
<1>3. ASSUME NEW u \in Upstreams, ProcessRecord(u)
      PROVE  repeats = 0 /\ snapshots' = snapshots /\ barriers' = barriers
  BY <1>3 DEF ProcessRecord
<1>5. CASE StopTask
  BY <1>5 DEF StopTask
<1>4. ASSUME NEW u \in Upstreams, ProcessBarrier(u)
      PROVE  /\ repeats = 0
             /\ \E c \in Ids :
                   /\ Mark(u, c)
                   /\ \A i \in DOMAIN snapshots : snapshots[i].id < c
  <2>0. Checkpoints \in Nat
    BY AlignmentAssumption DEF AlignmentAssumption
  <2>1. barrier[u] \in 0 .. Checkpoints /\ barrier[u] < Checkpoints /\ repeats = 0
    BY <1>4, <1>t DEF ProcessBarrier, AlignTypeOK
  <2>2. PICK c \in Ids : c = barrier[u] + 1 /\ Mark(u, c)
    BY <1>4, <2>0, <2>1 DEF ProcessBarrier, Ids
  <2>3. ASSUME NEW i \in DOMAIN snapshots PROVE snapshots[i].id < c
    <3>1. snapshots[i].id \in Nat
      BY <1>t, SnapshotIds
    <3>2. barrier[u] >= snapshots[i].id
      BY DEF AlignmentInv, SnapshotCoversBarriers
    <3> QED
      BY <2>0, <2>1, <2>2, <3>1, <3>2
  <2> QED
    BY <2>1, <2>2, <2>3
<1> QED
  BY <1>1, <1>2, <1>3, <1>4, <1>5 DEF AlignNext

(* The snapshots after a mark: the old ones, or one more at the end.       *)
LEMMA MarkSnapshots ==
    ASSUME AlignmentInv, NEW u \in Upstreams, NEW c \in Ids, Mark(u, c)
    PROVE  \A i \in DOMAIN snapshots' :
              \/ i \in DOMAIN snapshots /\ snapshots'[i] = snapshots[i]
              \/ /\ i = Len(snapshots) + 1
                 /\ snapshots'[i] = [id |-> c, state |-> taken]
                 /\ barriers'[c] = {}
<1> DEFINE new == [id |-> c, state |-> taken]
<1>t. AlignTypeOK
  BY DEF AlignmentInv
<1>1. new \in Snapshot /\ snapshots \in Seq(Snapshot)
  BY <1>t DEF AlignTypeOK, Snapshot
<1>2. \/ snapshots' = snapshots
      \/ snapshots' = Append(snapshots, new) /\ barriers'[c] = {}
  BY <1>t, MarkEffect DEF AlignTypeOK
<1> HIDE DEF new
<1>3. \A i \in DOMAIN Append(snapshots, new) :
         \/ i \in DOMAIN snapshots /\ Append(snapshots, new)[i] = snapshots[i]
         \/ i = Len(snapshots) + 1 /\ Append(snapshots, new)[i] = new
  BY <1>1, Appended
<1>4. CASE snapshots' = snapshots
  BY <1>4
<1>5. CASE snapshots' = Append(snapshots, new) /\ barriers'[c] = {}
  BY <1>3, <1>5 DEF new
<1> QED
  BY <1>2, <1>4, <1>5

LEMMA StepInOrder ==
    AlignmentInv /\ SnapshotsInOrder /\ [AlignNext]_alignVars => SnapshotsInOrder'
<1> SUFFICES ASSUME AlignmentInv, SnapshotsInOrder, [AlignNext]_alignVars, repeats' = 0,
                    NEW i \in DOMAIN snapshots', NEW j \in DOMAIN snapshots', i < j
             PROVE  /\ snapshots'[i].id < snapshots'[j].id
                    /\ snapshots'[i].state \subseteq snapshots'[j].state
  BY DEF SnapshotsInOrder
<1>t. snapshots \in Seq(Snapshot) /\ DOMAIN snapshots = 1 .. Len(snapshots)
      /\ Len(snapshots) \in Nat
  BY DEF AlignmentInv, AlignTypeOK, Snapshot
<1>0. repeats = 0
  BY StepWithoutRepeat
<1>1. CASE snapshots' = snapshots
  BY <1>0, <1>1 DEF SnapshotsInOrder
<1>2. ASSUME NEW u \in Upstreams, NEW c \in Ids, Mark(u, c),
             \A k \in DOMAIN snapshots : snapshots[k].id < c
      PROVE  /\ snapshots'[i].id < snapshots'[j].id
             /\ snapshots'[i].state \subseteq snapshots'[j].state
  <2>1. CASE j \in DOMAIN snapshots /\ snapshots'[j] = snapshots[j]
    <3>1. i \in DOMAIN snapshots /\ snapshots'[i] = snapshots[i]
      BY <1>2, <1>t, <2>1, MarkSnapshots
    <3> QED
      BY <1>0, <2>1, <3>1 DEF SnapshotsInOrder
  <2>2. CASE j = Len(snapshots) + 1 /\ snapshots'[j] = [id |-> c, state |-> taken]
    <3>1. i \in DOMAIN snapshots /\ snapshots'[i] = snapshots[i]
      BY <1>2, <1>t, <2>2, MarkSnapshots
    <3>2. snapshots[i].id < c /\ snapshots[i].state \subseteq taken
      BY <1>2, <3>1 DEF AlignmentInv, SnapshotsAreOfThePast
    <3> QED
      BY <2>2, <3>1, <3>2
  <2> QED
    BY <1>2, <2>1, <2>2, MarkSnapshots
<1> QED
  BY <1>1, <1>2, StepWithoutRepeat

LEMMA StepNoMarksLeft ==
    AlignmentInv /\ NoMarksLeft /\ [AlignNext]_alignVars => NoMarksLeft'
<1> SUFFICES ASSUME AlignmentInv, NoMarksLeft, [AlignNext]_alignVars, repeats' = 0,
                    NEW i \in DOMAIN snapshots'
             PROVE  barriers'[snapshots'[i].id] = {}
  BY DEF NoMarksLeft
<1>0. repeats = 0
  BY StepWithoutRepeat
<1>1. CASE snapshots' = snapshots /\ barriers' = barriers
  BY <1>0, <1>1 DEF NoMarksLeft
<1>2. ASSUME NEW u \in Upstreams, NEW c \in Ids, Mark(u, c),
             \A k \in DOMAIN snapshots : snapshots[k].id < c
      PROVE  barriers'[snapshots'[i].id] = {}
  <2>1. CASE i \in DOMAIN snapshots /\ snapshots'[i] = snapshots[i]
    <3>1. AlignTypeOK /\ Mark(u, c)
      BY <1>2 DEF AlignmentInv
    <3>2. PICK d \in Ids : d = snapshots[i].id
      BY <2>1, <3>1, SnapshotIds
    <3>3. d < c /\ d \in Nat /\ c \in Nat
      BY <1>2, <2>1, <3>2 DEF Ids
    <3>4. d # c
      BY <3>3
    <3>5. \A e \in Ids : e # c => barriers'[e] = barriers[e]
      BY <3>1, MarkElsewhere
    <3>6. barriers'[d] = barriers[d]
      BY <3>4, <3>5
    <3>7. barriers[d] = {}
      BY <1>0, <2>1, <3>2 DEF NoMarksLeft
    <3> QED
      BY <2>1, <3>2, <3>6, <3>7
  <2>2. CASE snapshots'[i] = [id |-> c, state |-> taken] /\ barriers'[c] = {}
    BY <2>2
  <2> QED
    BY <1>2, <2>1, <2>2, MarkSnapshots
<1> QED
  BY <1>1, <1>2, StepWithoutRepeat

(* With no barrier repeated, checkpoints are snapshotted once each, in     *)
(* order, for any number of them in flight.                                *)
THEOREM SnapshotsAreInOrder == AlignSpec => []SnapshotsInOrder
<1>1. AlignInit => SnapshotsInOrder
  BY DEF AlignInit, SnapshotsInOrder
<1> QED
  BY <1>1, InitAlignmentInv, StepAlignmentInv, StepInOrder, PTL DEF AlignSpec

(* With no barrier repeated, no checkpoint that was snapshotted leaves a   *)
(* mark behind.                                                            *)
THEOREM MarksAreForgotten == AlignSpec => []NoMarksLeft
<1>1. AlignInit => NoMarksLeft
  BY DEF AlignInit, NoMarksLeft
<1> QED
  BY <1>1, InitAlignmentInv, StepAlignmentInv, StepNoMarksLeft, PTL DEF AlignSpec
-----------------------------------------------------------------------------
(***************************************************************************)
(* KeyedState.                                                             *)
(***************************************************************************)

\* An update that was not overtaken has read what the cell still is.
FreshReads ==
    \A c \in Callers :
        update[c] # Absent /\ ~update[c].overtaken =>
            update[c].read = cells[update[c].key]

\* The inductive invariant: without FreshReads, the second half of an update
\* could write anything back.
StateInv == StateTypeOK /\ FreshReads /\ CellsExact

LEMMA ChangedIsCell ==
    ASSUME NEW change \in Change, NEW value \in Values, NEW cell \in Cell
    PROVE  Changed(change, value, cell) \in Cell
BY DEF Changed, Contents, Cell

LEMMA OvertakeType ==
    ASSUME StateTypeOK, NEW key \in Keys
    PROVE  Overtake(key) \in [Callers -> Update \cup {Absent}]
<1> SUFFICES ASSUME NEW c \in Callers
             PROVE  (IF update[c] # Absent /\ update[c].key = key
                     THEN [update[c] EXCEPT !.overtaken = TRUE] ELSE update[c])
                        \in Update \cup {Absent}
  BY DEF Overtake
<1>1. update[c] \in Update \cup {Absent}
  BY DEF StateTypeOK
<1>2. CASE update[c] # Absent
  <2>1. update[c] \in Update
    BY <1>1, <1>2
  <2> QED
    BY <2>1 DEF Update
<1>3. CASE update[c] = Absent
  BY <1>3
<1> QED
  BY <1>2, <1>3

LEMMA AllOvertakenType ==
    ASSUME StateTypeOK
    PROVE  [c \in Callers |-> IF update[c] = Absent THEN Absent
                              ELSE [update[c] EXCEPT !.overtaken = TRUE]]
               \in [Callers -> Update \cup {Absent}]
<1> SUFFICES ASSUME NEW c \in Callers, update[c] # Absent
             PROVE  [update[c] EXCEPT !.overtaken = TRUE] \in Update
  OBVIOUS
<1>1. update[c] \in Update
  BY DEF StateTypeOK
<1> QED
  BY <1>1 DEF Update

LEMMA InitStateInv ==
    ASSUME KeyedStateAssumption
    PROVE  StateInit => StateInv
BY DEF StateInit, StateInv, StateTypeOK, FreshReads, CellsExact, Nothing, Cell,
       KeyedStateAssumption
-----------------------------------------------------------------------------
(* The steps that write.                                                   *)

LEMMA PutCellStep ==
    ASSUME KeyedStateAssumption, StateInv, NEW c \in Callers, PutCell(c)
    PROVE  StateInv'
<1> USE DEF StateInv
<1> DEFINE u == update[c]
<1>1. u \in Update
  BY DEF PutCell, StateTypeOK
<1>2. /\ u.change \in Change /\ u.key \in Keys /\ u.value \in Values
      /\ u.read \in Cell
  BY <1>1 DEF Update
<1>3. CASE /\ writes < MaxWrites
           /\ writes' = writes + 1
           /\ cells' = [cells EXCEPT ![u.key] = Changed(u.change, u.value, u.read)]
           /\ during' = [k \in Keys |->
                IF scan # Absent /\ k = u.key
                THEN during[k] \cup {Changed(u.change, u.value, u.read)} ELSE during[k]]
           /\ update' = [Overtake(u.key) EXCEPT ![c] = Absent]
           /\ expected' = [expected EXCEPT ![u.key] = Changed(u.change, u.value, @)]
           /\ raced' = IF u.overtaken THEN raced \cup {u.key} ELSE raced
           /\ UNCHANGED <<life, scan, saved>>
  <2>1. Changed(u.change, u.value, u.read) \in Cell
    BY <1>2, ChangedIsCell
  <2>2. Changed(u.change, u.value, expected[u.key]) \in Cell
    BY <1>2, ChangedIsCell DEF StateTypeOK
  <2>3. Overtake(u.key) \in [Callers -> Update \cup {Absent}]
    BY <1>2, OvertakeType
  <2>4. StateTypeOK'
    BY <1>2, <1>3, <2>1, <2>2, <2>3 DEF StateTypeOK, life, KeyedStateAssumption
  <2>5. FreshReads'
    <3> SUFFICES ASSUME NEW d \in Callers,
                        update'[d] # Absent, ~update'[d].overtaken
                 PROVE  update'[d].read = cells'[update'[d].key]
      BY DEF FreshReads
    <3>1. d # c
      BY <1>3, <2>3
    <3>2. update'[d] = IF update[d] # Absent /\ update[d].key = u.key
                       THEN [update[d] EXCEPT !.overtaken = TRUE] ELSE update[d]
      BY <1>3, <3>1 DEF Overtake
    <3>3. update[d] # Absent
      BY <3>2
    <3>4. update[d] \in Update
      BY <3>3 DEF StateTypeOK
    <3>5. update[d].key # u.key
      BY <3>2, <3>3, <3>4 DEF Update
    <3>6. update'[d] = update[d]
      BY <3>2, <3>5
    <3>7. update[d].read = cells[update[d].key]
      BY <3>3, <3>6 DEF FreshReads
    <3>8. cells'[update[d].key] = cells[update[d].key]
      BY <1>3, <3>4, <3>5 DEF Update, StateTypeOK
    <3> QED
      BY <3>6, <3>7, <3>8
  <2>6. CellsExact'
    <3> SUFFICES ASSUME NEW k \in Keys, k \notin raced'
                 PROVE  cells'[k] = expected'[k]
      BY DEF CellsExact
    <3>1. k \notin raced /\ cells[k] = expected[k]
      BY <1>3 DEF CellsExact
    <3>2. CASE k = u.key
      <4>1. ~u.overtaken
        BY <1>3, <3>2
      <4>2. u.read = cells[k]
        BY <4>1, <3>2 DEF FreshReads, PutCell
      <4> QED
        BY <1>3, <3>1, <3>2, <4>2 DEF StateTypeOK
    <3>3. CASE k # u.key
      BY <1>3, <3>1, <3>3 DEF StateTypeOK
    <3> QED
      BY <3>2, <3>3
  <2> QED
    BY <2>4, <2>5, <2>6
<1>4. CASE /\ update' = [update EXCEPT ![c] = Absent]
           /\ UNCHANGED <<cells, writes, ghosts>>
           /\ UNCHANGED <<life, scan, saved>>
  <2>1. StateTypeOK'
    BY <1>4 DEF StateTypeOK, ghosts, life
  <2>2. FreshReads' /\ CellsExact'
    BY <1>4 DEF StateTypeOK, FreshReads, CellsExact, ghosts
  <2> QED
    BY <2>1, <2>2
<1> QED
  BY <1>3, <1>4 DEF PutCell, WriteCell

LEMMA AssignStep ==
    ASSUME KeyedStateAssumption, StateInv,
           NEW c \in Callers, NEW key \in Keys, NEW cell \in Cell,
           Assign(c, key, cell)
    PROVE  StateInv'
<1> USE DEF StateInv
<1>1. Overtake(key) \in [Callers -> Update \cup {Absent}]
  BY OvertakeType
<1>2. StateTypeOK'
  BY <1>1 DEF Assign, WriteCell, StateTypeOK, life, KeyedStateAssumption
<1>3. FreshReads'
  <2> SUFFICES ASSUME NEW d \in Callers,
                      update'[d] # Absent, ~update'[d].overtaken
               PROVE  update'[d].read = cells'[update'[d].key]
    BY DEF FreshReads
  <2>1. update'[d] = IF update[d] # Absent /\ update[d].key = key
                     THEN [update[d] EXCEPT !.overtaken = TRUE] ELSE update[d]
    BY DEF Assign, Overtake
  <2>2. update[d] \in Update
    BY <2>1 DEF StateTypeOK
  <2>3. update[d].key # key /\ update'[d] = update[d]
    BY <2>1, <2>2 DEF Update
  <2>4. cells'[update[d].key] = cells[update[d].key]
    BY <2>2, <2>3 DEF Assign, WriteCell, Update, StateTypeOK
  <2> QED
    BY <2>3, <2>4 DEF FreshReads
<1>4. CellsExact'
  BY DEF Assign, WriteCell, CellsExact, StateTypeOK
<1> QED
  BY <1>2, <1>3, <1>4

LEMMA GetCellStep ==
    ASSUME StateInv, NEW c \in Callers, NEW change \in Change,
           NEW key \in Keys, NEW value \in Values,
           GetCell(c, change, key, value)
    PROVE  StateInv'
<1> USE DEF StateInv
<1>1. [change |-> change, key |-> key, value |-> value,
       read |-> cells[key], overtaken |-> FALSE] \in Update
  BY DEF Update, StateTypeOK
<1>2. StateTypeOK'
  BY <1>1 DEF GetCell, StateTypeOK, life, ghosts
<1>3. FreshReads' /\ CellsExact'
  BY DEF GetCell, FreshReads, CellsExact, StateTypeOK, ghosts
<1> QED
  BY <1>2, <1>3
-----------------------------------------------------------------------------
(* The backend's own operations and its life.                              *)

LEMMA OvertakenAll ==
    ASSUME StateTypeOK,
           update' = [c \in Callers |-> IF update[c] = Absent THEN Absent
                                        ELSE [update[c] EXCEPT !.overtaken = TRUE]]
    PROVE  FreshReads'
<1> SUFFICES ASSUME NEW c \in Callers, update'[c] # Absent, ~update'[c].overtaken
             PROVE  FALSE
  BY DEF FreshReads
<1>1. update[c] \in Update
  BY DEF StateTypeOK
<1> QED
  BY <1>1 DEF Update

LEMMA EmptiedStep ==
    ASSUME StateInv, Emptied, UNCHANGED <<backend, saved, writes>>,
           handle' \in {"open", "cleared"}
    PROVE  StateInv'
<1>1. StateTypeOK'
  BY AllOvertakenType DEF StateInv, Emptied, StateTypeOK, Nothing, Cell
<1>2. FreshReads' /\ CellsExact'
  BY OvertakenAll DEF StateInv, Emptied, CellsExact
<1> QED
  BY <1>1, <1>2 DEF StateInv

LEMMA RestoreStep ==
    ASSUME KeyedStateAssumption, StateInv, Restore
    PROVE  StateInv'
<1>1. \A k \in Keys : Overlaid(k) \in Cell
  BY DEF StateInv, Restore, Overlaid, StateTypeOK
<1>2. StateTypeOK'
  BY <1>1, AllOvertakenType
     DEF StateInv, Restore, StateTypeOK, life, KeyedStateAssumption
<1>3. FreshReads' /\ CellsExact'
  BY OvertakenAll DEF StateInv, Restore, CellsExact
<1> QED
  BY <1>2, <1>3 DEF StateInv

LEMMA OpenedStep ==
    ASSUME StateInv, NEW left \in {"open", "closed"}, Opened(left)
    PROVE  StateInv'
<1>1. StateTypeOK'
  BY DEF StateInv, Opened, StateTypeOK, Nothing, Cell
<1>2. FreshReads' /\ CellsExact'
  BY DEF StateInv, Opened, Kept, FreshReads, CellsExact
<1> QED
  BY <1>1, <1>2 DEF StateInv

LEMMA SnapshotStep ==
    ASSUME StateInv,
           \/ BeginSnapshot
           \/ EndSnapshot
           \/ EndClear
           \/ CancelTask
           \/ \E key \in Keys : SnapshotKey(key)
    PROVE  StateInv'
<1> USE DEF StateInv
<1>1. /\ cells' = cells /\ expected' = expected /\ raced' = raced
      /\ update' = update /\ writes' = writes /\ backend' = backend
      /\ handle' \in {"open", "cancelled", "closed", "cleared"}
  BY DEF BeginSnapshot, EndSnapshot, EndClear, CancelTask, SnapshotKey, life,
         ghosts, StateTypeOK
<1>2. FreshReads' /\ CellsExact'
  BY <1>1 DEF FreshReads, CellsExact
<1>3. ASSUME BeginSnapshot
      PROVE  /\ scan' \in [left : SUBSET Keys, copied : [Keys -> Cell]] \cup {Absent}
             /\ saved' \in [Keys -> Cell] \cup {Absent}
             /\ during' \in [Keys -> SUBSET Cell]
  BY <1>3 DEF BeginSnapshot, Present, Nothing, StateTypeOK, Cell
<1>4. ASSUME NEW key \in Keys, SnapshotKey(key)
      PROVE  /\ scan' \in [left : SUBSET Keys, copied : [Keys -> Cell]] \cup {Absent}
             /\ saved' = saved /\ during' = during
  <2>1. scan \in [left : SUBSET Keys, copied : [Keys -> Cell]]
    BY <1>4 DEF SnapshotKey, StateTypeOK
  <2>2. scan.left \in SUBSET Keys /\ scan.copied \in [Keys -> Cell]
    BY <2>1
  <2> QED
    BY <1>4, <2>2 DEF SnapshotKey, Copied, ghosts, StateTypeOK
<1>5. ASSUME EndSnapshot
      PROVE  /\ scan' \in [left : SUBSET Keys, copied : [Keys -> Cell]] \cup {Absent}
             /\ saved' \in [Keys -> Cell] \cup {Absent}
             /\ during' \in [Keys -> SUBSET Cell]
  <2>1. scan \in [left : SUBSET Keys, copied : [Keys -> Cell]]
    BY <1>5 DEF EndSnapshot, StateTypeOK
  <2> QED
    BY <1>5, <2>1 DEF EndSnapshot, StateTypeOK
<1>6. ASSUME EndClear \/ CancelTask
      PROVE  /\ scan' \in [left : SUBSET Keys, copied : [Keys -> Cell]] \cup {Absent}
             /\ saved' = saved
             /\ during' \in [Keys -> SUBSET Cell]
  BY <1>6 DEF EndClear, CancelTask, StateTypeOK, ghosts
<1>7. StateTypeOK'
  BY <1>1, <1>3, <1>4, <1>5, <1>6 DEF StateTypeOK
<1> QED
  BY <1>2, <1>7

LEMMA NextStateInv ==
    ASSUME KeyedStateAssumption
    PROVE  StateInv /\ [StateNext]_stateVars => StateInv'
<1> SUFFICES ASSUME StateInv, [StateNext]_stateVars PROVE StateInv'
  OBVIOUS
<1>1. ASSUME NEW c \in Callers, NEW key \in Keys,
             NEW change \in Change, NEW value \in Values,
             GetCell(c, change, key, value)
      PROVE  StateInv'
  BY <1>1, GetCellStep
<1>2. ASSUME NEW c \in Callers, NEW key \in Keys,
             NEW cell \in {{v} : v \in Values} \cup {Absent}, Assign(c, key, cell)
      PROVE  StateInv'
  <2>1. cell \in Cell
    BY DEF Cell
  <2> QED
    BY <1>2, <2>1, AssignStep
<1>3. ASSUME NEW c \in Callers, PutCell(c) PROVE StateInv'
  BY <1>3, PutCellStep
<1>4. CASE BeginClear
  BY <1>4, EmptiedStep DEF BeginClear
<1>5. CASE Restore
  BY <1>5, RestoreStep
<1>6. CASE OpenBackend \/ CloseBackend \/ ProcessDies
  BY <1>6, OpenedStep DEF OpenBackend, CloseBackend, ProcessDies
<1>7. CASE \/ BeginSnapshot \/ EndSnapshot \/ EndClear \/ CancelTask
           \/ \E key \in Keys : SnapshotKey(key)
  BY <1>7, SnapshotStep
<1>8. CASE UNCHANGED stateVars
  BY <1>8 DEF stateVars, life, ghosts, StateInv, StateTypeOK, FreshReads, CellsExact
<1> QED
  BY <1>1, <1>2, <1>3, <1>4, <1>5, <1>6, <1>7, <1>8 DEF StateNext

(* The variables of a backend keep to their types, for every set of keys   *)
(* and values and however many threads update it.                          *)
THEOREM StateTypeCorrect ==
    ASSUME KeyedStateAssumption
    PROVE  StateSpec => []StateTypeOK
<1>1. StateInv => StateTypeOK
  BY DEF StateInv
<1> QED
  BY <1>1, InitStateInv, NextStateInv, PTL DEF StateSpec

(* A cell on which no two updates overlap is what its updates made of it,  *)
(* one after the other, over every crash, deployment and restore.          *)
THEOREM CellsAreExact ==
    ASSUME KeyedStateAssumption
    PROVE  StateSpec => []CellsExact
<1>1. StateInv => CellsExact
  BY DEF StateInv
<1> QED
  BY <1>1, InitStateInv, NextStateInv, PTL DEF StateSpec
-----------------------------------------------------------------------------
(* The snapshots.  While one is taken, each key's cell is among those the  *)
(* key has had meanwhile, and so is what was copied of it.                 *)
ScanInv ==
    scan # Absent =>
        \A k \in Keys :
            /\ cells[k] \in during[k]
            /\ k \notin scan.left => scan.copied[k] \in during[k]

LEMMA WriteKeepsScan ==
    ASSUME StateInv, ScanInv, NEW key \in Keys, NEW cell \in Cell,
           WriteCell(key, cell), scan' = scan
    PROVE  ScanInv'
BY DEF StateInv, StateTypeOK, ScanInv, WriteCell

LEMMA NextScanInv ==
    ASSUME KeyedStateAssumption
    PROVE  StateInv /\ ScanInv /\ [StateNext]_stateVars => ScanInv'
<1> SUFFICES ASSUME StateInv, ScanInv, [StateNext]_stateVars PROVE ScanInv'
  OBVIOUS
<1> USE DEF StateInv
<1>1. ASSUME NEW c \in Callers, NEW key \in Keys, NEW change \in Change,
             NEW value \in Values, GetCell(c, change, key, value)
      PROVE  ScanInv'
  BY <1>1 DEF GetCell, ScanInv, ghosts
<1>2. ASSUME NEW c \in Callers, NEW key \in Keys,
             NEW cell \in {{v} : v \in Values} \cup {Absent}, Assign(c, key, cell)
      PROVE  ScanInv'
  <2>1. cell \in Cell
    BY DEF Cell
  <2> QED
    BY <1>2, <2>1, WriteKeepsScan DEF Assign
<1>3. ASSUME NEW c \in Callers, PutCell(c) PROVE ScanInv'
  <2>1. update[c] \in Update
    BY <1>3 DEF PutCell, StateTypeOK
  <2>2. /\ update[c].key \in Keys
        /\ Changed(update[c].change, update[c].value, update[c].read) \in Cell
    BY <2>1, ChangedIsCell DEF Update
  <2>3. CASE WriteCell(update[c].key,
                       Changed(update[c].change, update[c].value, update[c].read))
    BY <1>3, <2>2, <2>3, WriteKeepsScan DEF PutCell
  <2>4. CASE UNCHANGED <<cells, writes, ghosts>>
    BY <1>3, <2>4 DEF PutCell, ScanInv, ghosts
  <2> QED
    BY <1>3, <2>3, <2>4 DEF PutCell
<1>4. CASE BeginSnapshot
  BY <1>4 DEF BeginSnapshot, Present, Nothing, ScanInv, StateTypeOK
<1>5. ASSUME NEW key \in Keys, SnapshotKey(key) PROVE ScanInv'
  <2>1. scan \in [left : SUBSET Keys, copied : [Keys -> Cell]]
    BY <1>5 DEF SnapshotKey, StateTypeOK
  <2>2. scan' = [left |-> scan.left \ {key},
                 copied |-> [scan.copied EXCEPT ![key] = cells[key]]]
        /\ cells' = cells /\ during' = during /\ scan # Absent
    BY <1>5 DEF SnapshotKey, Copied, ghosts
  <2>3. ASSUME NEW k \in Keys, k \notin scan'.left
        PROVE  scan'.copied[k] \in during[k]
    <3>1. CASE k = key
      BY <2>1, <2>2, <3>1 DEF ScanInv
    <3>2. CASE k # key
      BY <2>1, <2>2, <2>3, <3>2 DEF ScanInv
    <3> QED
      BY <3>1, <3>2
  <2> QED
    BY <2>2, <2>3 DEF ScanInv
<1>6. CASE EndSnapshot \/ CancelTask \/ OpenBackend \/ CloseBackend \/ ProcessDies \/ BeginClear
  BY <1>6 DEF EndSnapshot, CancelTask, OpenBackend, CloseBackend, ProcessDies, Opened,
              BeginClear, Emptied, ScanInv
<1>7. CASE Restore
  BY <1>7 DEF Restore, ScanInv, StateTypeOK
<1>8. CASE EndClear \/ UNCHANGED stateVars
  BY <1>8 DEF EndClear, stateVars, ghosts, ScanInv
<1> QED
  BY <1>1, <1>2, <1>3, <1>4, <1>5, <1>6, <1>7, <1>8 DEF StateNext

(* A snapshot that is taken key by key while others write has no cell that *)
(* was not its key's at some moment of it.                                 *)
THEOREM SnapshotsArePerKey ==
    ASSUME KeyedStateAssumption
    PROVE  StateSpec => SnapshotsPerKey
<1>1. StateInit => ScanInv
  BY DEF StateInit, ScanInv
<1>2. ASSUME StateInv, ScanInv, [StateNext]_stateVars, scan # Absent, saved' # saved,
             NEW k \in Keys
      PROVE  saved'[k] \in during[k]
  <2>1. EndSnapshot
    BY <1>2 DEF StateNext, GetCell, Assign, PutCell, BeginSnapshot, SnapshotKey, Restore,
                BeginClear, EndClear, OpenBackend, CancelTask, CloseBackend, ProcessDies,
                Opened, stateVars
  <2> QED
    BY <1>2, <2>1 DEF EndSnapshot, ScanInv
<1>3. /\ StateInv /\ ScanInv /\ [StateNext]_stateVars
      => [scan # Absent /\ saved' # saved =>
             \A k \in Keys : saved'[k] \in during[k]]_stateVars
  BY <1>2
<1> QED
  BY <1>1, <1>3, InitStateInv, NextStateInv, NextScanInv, PTL DEF StateSpec, SnapshotsPerKey
-----------------------------------------------------------------------------
(***************************************************************************)
(* SourceTask.                                                             *)
(***************************************************************************)

States == [Chain -> [1 .. Records -> Nat]]
Whole == [offset : 0 .. Records, states : States]

SourceTypeOK ==
    /\ deployments \in Nat
    /\ running \in BOOLEAN
    /\ offset \in 0 .. Records
    /\ polled \in Nat
    /\ offset + polled <= Records
    /\ batch \in Seq(Nat)
    /\ hand \in [record : Nat, at : Nat]
    /\ state \in States
    /\ snapshot # None =>
          /\ snapshot \in [offset : 0 .. offset, states : Seq([1 .. Records -> Nat])]
          /\ Len(snapshot.states) < Operators
    /\ checkpoint # None => checkpoint \in Whole

(* The batch holds the last records that were read, in order, and the one  *)
(* in the chain is the one before them.                                    *)
Placed ==
    /\ Len(batch) <= offset
    /\ \A i \in 1 .. Len(batch) : batch[i] = offset - Len(batch) + i
    /\ hand # Idle =>
          /\ polled = 0
          /\ hand.record = offset - Len(batch)
          /\ hand.record > 0
          /\ hand.at \in Chain

\* The record has been through the operator, or has been restored or lost.
Passed(r, k) ==
    /\ r <= offset - Len(batch)
    /\ hand # Idle /\ r = hand.record => k < hand.at

LEMMA BehindIsPassed ==
    ASSUME SourceTypeOK, Placed, NEW r \in 1 .. Records, NEW k \in Chain
    PROVE  Behind(r, k) <=> Passed(r, k)
<1> DEFINE L == Len(batch)
<1>1. L \in Nat /\ DOMAIN batch = 1 .. L /\ offset \in Nat /\ Records \in Nat
  BY SourceTaskAssumption DEF SourceTypeOK
<1>2. (r <= offset /\ \A i \in DOMAIN batch : batch[i] # r) <=> r <= offset - L
  <2>1. ASSUME r <= offset, \A i \in DOMAIN batch : batch[i] # r, ~(r <= offset - L)
        PROVE  FALSE
    <3>1. r - (offset - L) \in 1 .. L
      BY <1>1, <2>1
    <3>2. batch[r - (offset - L)] = r
      BY <1>1, <3>1 DEF Placed
    <3> QED
      BY <1>1, <2>1, <3>1, <3>2
  <2>2. ASSUME r <= offset - L, NEW i \in DOMAIN batch
        PROVE  r <= offset /\ batch[i] # r
    BY <1>1, <2>2 DEF Placed
  <2>3. r <= offset - L => r <= offset
    BY <1>1
  <2> QED
    BY <2>1, <2>2, <2>3
<1>3. hand = Idle => r # hand.record
  BY <1>1 DEF Idle
<1> QED
  BY <1>2, <1>3 DEF Behind, Passed

LEMMA FullSequence ==
    ASSUME NEW S, NEW states \in Seq(S), Len(states) = Operators
    PROVE  states \in [Chain -> S]
BY SourceTaskAssumption DEF Chain

LEMMA InitPlaced == SourceInit => SourceTypeOK /\ Placed
<1> SUFFICES ASSUME SourceInit PROVE SourceTypeOK /\ Placed
  OBVIOUS
<1>1. batch = << >> /\ batch \in Seq(Nat) /\ Len(batch) = 0
  BY DEF SourceInit
<1>2. state \in States /\ hand \in [record : Nat, at : Nat]
  BY DEF SourceInit, NoState, States, Idle
<1> QED
  <2>1. offset = 0 /\ polled = 0 /\ hand = Idle /\ deployments = 0
        /\ snapshot = None /\ checkpoint = None
    BY DEF SourceInit
  <2> running \in BOOLEAN
    BY Zenon DEF SourceInit
  <2>2. SourceTypeOK
    <3>1. offset \in 0 .. Records /\ offset + polled <= Records /\ polled \in Nat
      BY <2>1, SourceTaskAssumption
    <3>2. deployments \in Nat
      BY <2>1
    <3> QED
      BY <1>1, <1>2, <2>1, <3>1, <3>2, Zenon DEF SourceTypeOK
  <2>3. Placed
    BY <1>1, <2>1 DEF Placed
  <2> QED
    BY <2>2, <2>3

LEMMA NextSourceTypeOK ==
    SourceTypeOK /\ Placed /\ [SourceNext]_sourceVars => SourceTypeOK'
<1> SUFFICES ASSUME SourceTypeOK, Placed, [SourceNext]_sourceVars
             PROVE  SourceTypeOK'
  OBVIOUS
<1> USE SourceTaskAssumption
<1>1. CASE Poll
  BY <1>1 DEF Poll, SourceTypeOK, task
<1>2. CASE ReadRecord
  BY <1>2 DEF ReadRecord, SourceTypeOK, task
<1>3. CASE NextRecord
  BY <1>3 DEF NextRecord, SourceTypeOK, task
<1>4. CASE ProcessElement
  <2>1. hand.at \in Chain /\ hand.record \in 1 .. Records
    BY <1>4 DEF ProcessElement, Placed, SourceTypeOK
  <2>2. state' \in States
    BY <1>4, <2>1 DEF ProcessElement, SourceTypeOK, States
  <2>3. hand' \in [record : Nat, at : Nat]
    BY <1>4 DEF ProcessElement, After, Idle, SourceTypeOK, Placed, Chain
  <2> QED
    BY <1>4, <2>2, <2>3 DEF ProcessElement, SourceTypeOK, task
<1>5. CASE OperatorRaises
  <2>1. batch' \in Seq(Nat) /\ hand' \in [record : Nat, at : Nat]
    BY <1>5 DEF OperatorRaises, Idle
  <2> running' \in BOOLEAN
    BY <1>5, Zenon DEF OperatorRaises
  <2> QED
    <3>1. UNCHANGED <<deployments, offset, polled, state, snapshot, checkpoint>>
      BY <1>5 DEF OperatorRaises
    <3> QED
      BY <2>1, <3>1 DEF SourceTypeOK
<1>6. CASE Stop
  BY <1>6 DEF Stop, SourceTypeOK
<1>7. CASE SnapshotSource
  BY <1>7 DEF SnapshotSource, SourceTypeOK, task
<1>8. CASE SnapshotOperator
  <2> DEFINE k == Len(snapshot.states) + 1
             states == Append(snapshot.states, state[k])
  <2>1. snapshot \in [offset : 0 .. offset, states : Seq([1 .. Records -> Nat])]
    BY <1>8 DEF SnapshotOperator, SourceTypeOK
  <2>2. k \in Chain
    BY <1>8, <2>1 DEF SnapshotOperator, SourceTypeOK, Chain
  <2>3. state[k] \in [1 .. Records -> Nat]
    BY <2>2 DEF SourceTypeOK, States
  <2>4. states \in Seq([1 .. Records -> Nat]) /\ Len(states) = k
    BY <2>1, <2>3
  <2>5. CASE k < Operators
    <3>1. snapshot' = [snapshot EXCEPT !.states = states] /\ UNCHANGED checkpoint
      BY <1>8, <2>5 DEF SnapshotOperator
    <3>2. snapshot' \in [offset : 0 .. offset, states : Seq([1 .. Records -> Nat])]
          /\ Len(snapshot'.states) < Operators
      BY <2>1, <2>4, <2>5, <3>1
    <3> QED
      BY <1>8, <3>1, <3>2 DEF SnapshotOperator, SourceTypeOK, task
  <2>6. CASE ~(k < Operators)
    <3>1. snapshot' = None /\ checkpoint' = [offset |-> snapshot.offset, states |-> states]
      BY <1>8, <2>6 DEF SnapshotOperator, SourceOffset
    <3>2. states \in States
      <4>1. Len(states) = Operators
        BY <2>2, <2>4, <2>6 DEF Chain
      <4> HIDE DEF states
      <4> QED
        BY <2>4, <4>1, FullSequence DEF States
    <3>3. checkpoint' \in Whole
      BY <2>1, <3>1, <3>2 DEF Whole, SourceTypeOK
    <3> QED
      BY <1>8, <3>1, <3>3 DEF SnapshotOperator, SourceTypeOK, task
  <2> QED
    BY <2>5, <2>6
<1>9. CASE SnapshotFails
  BY <1>9 DEF SnapshotFails, SourceTypeOK, task
<1>10. CASE Deploy
  <2>1. offset' \in 0 .. Records /\ state' \in States
    <3>1. CASE \E loaded \in LoadCheckpoint : loaded # None /\ RestoreState(loaded)
      <4>1. checkpoint # None /\ RestoreState(checkpoint)
        BY <3>1 DEF LoadCheckpoint
      <4> QED
        BY <4>1 DEF RestoreState, Restored, SourceTypeOK, Whole
    <3>2. CASE offset' = 0 /\ state' = [k \in Chain |-> NoState]
      BY <3>2 DEF NoState, States
    <3> QED
      BY <1>10, <3>1, <3>2 DEF Deploy
  <2> QED
    BY <1>10, <2>1 DEF Deploy, SourceTypeOK, Idle
<1>11. CASE UNCHANGED sourceVars
  BY <1>11 DEF sourceVars, task, SourceTypeOK
<1> QED
  BY <1>1, <1>2, <1>3, <1>4, <1>5, <1>6, <1>7, <1>8, <1>9, <1>10, <1>11
  DEF SourceNext, RunThread

LEMMA NextPlaced ==
    SourceTypeOK /\ Placed /\ [SourceNext]_sourceVars => Placed'
<1> SUFFICES ASSUME SourceTypeOK, Placed, [SourceNext]_sourceVars
             PROVE  Placed'
  OBVIOUS
<1> USE SourceTaskAssumption
<1>1. CASE Poll
  BY <1>1 DEF Poll, SourceTypeOK, Placed, task
<1>2. CASE ReadRecord
  BY <1>2 DEF ReadRecord, SourceTypeOK, Placed, task
<1>3. CASE NextRecord
  <2>1. Len(batch') = Len(batch) - 1 /\ \A i \in 1 .. Len(batch') : batch'[i] = batch[i + 1]
    BY <1>3 DEF NextRecord, SourceTypeOK
  <2>2. Head(batch) = offset - Len(batch) + 1
    BY <1>3 DEF NextRecord, SourceTypeOK, Placed
  <2> QED
    BY <1>3, <2>1, <2>2 DEF NextRecord, SourceTypeOK, Placed, Chain
<1>4. CASE ProcessElement
  <2>1. hand' # Idle => hand'.record = hand.record /\ hand'.at \in Chain
    BY <1>4 DEF ProcessElement, After, Placed, Chain, SourceTypeOK
  <2> QED
    BY <1>4, <2>1 DEF ProcessElement, SourceTypeOK, Placed
<1>5. CASE OperatorRaises
  BY <1>5 DEF OperatorRaises, SourceTypeOK, Placed
<1>6. CASE Stop
  BY <1>6 DEF Stop, Placed
<1>7. CASE SnapshotSource \/ SnapshotOperator \/ SnapshotFails
  BY <1>7 DEF SnapshotSource, SnapshotOperator, SnapshotFails, Placed
<1>8. CASE Deploy
  <2>1. offset' \in Nat
    BY <1>8, NextSourceTypeOK DEF SourceTypeOK
  <2> QED
    BY <1>8, <2>1 DEF Deploy, Placed
<1>9. CASE UNCHANGED sourceVars
  BY <1>9 DEF sourceVars, Placed
<1> QED
  BY <1>1, <1>2, <1>3, <1>4, <1>5, <1>6, <1>7, <1>8, <1>9 DEF SourceNext, RunThread

\* Every variable of the source task keeps its type, for any partition and chain.
THEOREM SourceTypeCorrect == SourceSpec => [](SourceTypeOK /\ Placed)
BY InitPlaced, NextSourceTypeOK, NextPlaced, PTL DEF SourceSpec
-----------------------------------------------------------------------------
LEMMA NextRecordKeepsPassed ==
    ASSUME SourceTypeOK, Placed, NextRecord, NEW k \in Chain, NEW r \in 1 .. Records
    PROVE  Passed(r, k)' <=> Passed(r, k)
<1>1. Len(batch') = Len(batch) - 1 /\ Head(batch) = offset - Len(batch) + 1
  BY DEF NextRecord, SourceTypeOK, Placed
<1>2. hand = Idle /\ hand' # Idle /\ hand'.at = 1 /\ hand'.record = Head(batch)
  BY DEF NextRecord, Idle
<1>3. Len(batch) \in Nat /\ Len(batch) <= offset /\ offset \in Nat /\ offset' = offset
  BY SourceTaskAssumption DEF NextRecord, SourceTypeOK, Placed
<1> QED
  BY <1>1, <1>2, <1>3, SourceTaskAssumption DEF Passed, Chain

LEMMA ProcessElementPasses ==
    ASSUME SourceTypeOK, Placed, ProcessElement, NEW k \in Chain, NEW r \in 1 .. Records
    PROVE  IF k = hand.at /\ r = hand.record
           THEN ~Passed(r, k) /\ Passed(r, k)' /\ state'[k][r] = state[k][r] + 1
           ELSE (Passed(r, k)' <=> Passed(r, k)) /\ state'[k][r] = state[k][r]
<1> USE SourceTaskAssumption
<1>1. hand # Idle /\ hand.record > 0 /\ hand.at \in Chain /\ hand.record \in Nat
      /\ hand.record = offset - Len(batch)
  BY DEF ProcessElement, Placed, SourceTypeOK
<1>2. IF hand.at = Operators THEN hand' = Idle
      ELSE hand'.record = hand.record /\ hand'.at = hand.at + 1 /\ hand' # Idle
  BY <1>1 DEF ProcessElement, After, Idle, SourceTypeOK
<1>3. offset' = offset /\ batch' = batch
  BY DEF ProcessElement
<1>4. state'[k][r] = IF k = hand.at /\ r = hand.record THEN state[k][r] + 1
                     ELSE state[k][r]
  BY DEF ProcessElement, SourceTypeOK, States
<1> QED
  BY <1>1, <1>2, <1>3, <1>4 DEF Passed, Chain
-----------------------------------------------------------------------------
Processed ==
    running /\ resumed = None =>
        \A k \in Chain, r \in 1 .. Records :
            state[k][r] = IF Passed(r, k) THEN 1 ELSE 0

LEMMA ProcessedReads ==
    ASSUME SourceTypeOK, Placed
    PROVE  Processed <=> ReadIsProcessed
BY BehindIsPassed DEF Processed, ReadIsProcessed

LEMMA NextProcessed ==
    SourceTypeOK /\ Placed /\ Processed /\ [SourceNext]_sourceVars => Processed'
<1> SUFFICES ASSUME SourceTypeOK, Placed, Processed, [SourceNext]_sourceVars,
                    running', resumed' = None, NEW k \in Chain, NEW r \in 1 .. Records
             PROVE  state'[k][r] = IF Passed(r, k)' THEN 1 ELSE 0
  BY DEF Processed
<1> USE SourceTaskAssumption
<1>1. CASE Poll
  BY <1>1 DEF Poll, task, Processed, Passed
<1>2. CASE ReadRecord
  BY <1>2 DEF ReadRecord, task, SourceTypeOK, Processed, Passed
<1>3. CASE NextRecord
  BY <1>3, NextRecordKeepsPassed DEF NextRecord, task, Processed
<1>4. CASE ProcessElement
  <2>1. running /\ resumed = None
    BY <1>4 DEF ProcessElement, task
  <2>2. state[k][r] = IF Passed(r, k) THEN 1 ELSE 0
    BY <2>1 DEF Processed
  <2> QED
    BY <1>4, <2>2, ProcessElementPasses
<1>5. CASE OperatorRaises \/ Stop
  BY <1>5 DEF OperatorRaises, Stop
<1>6. CASE SnapshotSource \/ SnapshotOperator \/ SnapshotFails
  BY <1>6 DEF SnapshotSource, SnapshotOperator, SnapshotFails, task, Processed, Passed
<1>7. CASE Deploy
  <2>1. ~\E loaded \in LoadCheckpoint : loaded # None /\ RestoreState(loaded)
    <3>1. SUFFICES ASSUME checkpoint # None, RestoreState(checkpoint) PROVE FALSE
      BY DEF LoadCheckpoint
    <3>2. resumed' \in [saved : Nat, first : Nat]
      BY <3>1 DEF RestoreState, Restored, SourceTypeOK, Whole
    <3> QED
      BY <3>2
  <2>2. offset' = 0 /\ state' = [i \in Chain |-> NoState] /\ batch' = << >> /\ hand' = Idle
    BY <1>7, <2>1 DEF Deploy
  <2> QED
    BY <2>2 DEF NoState, Passed
<1>8. CASE UNCHANGED sourceVars
  BY <1>8 DEF sourceVars, task, Processed, Passed
<1> QED
  BY <1>1, <1>2, <1>3, <1>4, <1>5, <1>6, <1>7, <1>8 DEF SourceNext, RunThread

(* Before anything was restored, each record that was read is with the run *)
(* thread or counted once by every operator, for any partition and chain.  *)
THEOREM ReadAreProcessed == SourceSpec => []ReadIsProcessed
<1>1. SourceInit => Processed
  BY DEF SourceInit, Processed
<1>2. SourceSpec => []Processed
  BY <1>1, SourceTypeCorrect, NextProcessed, PTL DEF SourceSpec
<1> QED
  BY <1>2, SourceTypeCorrect, ProcessedReads, PTL
-----------------------------------------------------------------------------
Allowed(d) == max_records * d

LEMMA AllowedGrows ==
    /\ \A d \in Nat : Allowed(d) \in Nat
    /\ \A d \in Nat \ {0} : Allowed(d) = Allowed(d - 1) + max_records
    /\ \A d \in Nat : Allowed(d) <= Allowed(d + 1)
BY SourceTaskAssumption DEF Allowed

LEMMA MissedIsFinite ==
    ASSUME NEW counts, NEW n \in 0 .. Records
    PROVE  IsFiniteSet(Missed(counts, n)) /\ Cardinality(Missed(counts, n)) \in Nat
<1>1. IsFiniteSet(1 .. n)
  BY SourceTaskAssumption, FS_Interval
<1>2. Missed(counts, n) \in SUBSET (1 .. n)
  BY DEF Missed
<1> QED
  BY <1>1, <1>2, FS_Subset, FS_CardinalityType

\* A longer prefix of the input lacks more, a state that has counted more less.
LEMMA MissedGrows ==
    ASSUME NEW counts, NEW more, NEW m \in 0 .. Records, NEW n \in 0 .. Records, m <= n,
           \A r \in 1 .. Records : more[r] = 0 => counts[r] = 0
    PROVE  Cardinality(Missed(more, m)) <= Cardinality(Missed(counts, n))
<1>1. Missed(more, m) \in SUBSET Missed(counts, n)
  BY SourceTaskAssumption DEF Missed
<1> QED
  BY <1>1, MissedIsFinite, FS_Subset

\* What the run thread has taken on and not brought through the chain.
Held == polled + Len(batch) + (IF hand = Idle THEN 0 ELSE 1)
Live == running \/ Held > 0
Lost(k) == {r \in 1 .. Records : Passed(r, k) /\ state[k][r] = 0}

LEMMA LostIsFinite ==
    ASSUME NEW k PROVE IsFiniteSet(Lost(k)) /\ Cardinality(Lost(k)) \in Nat
<1>1. IsFiniteSet(1 .. Records)
  BY SourceTaskAssumption, FS_Interval
<1>2. Lost(k) \in SUBSET (1 .. Records)
  BY DEF Lost
<1> QED
  BY <1>1, <1>2, FS_Subset, FS_CardinalityType

\* What a state lacks was lost before this deployment, or is held.
LEMMA MissedIsLostOrHeld ==
    ASSUME SourceTypeOK, Placed, Held <= max_records, NEW k \in Chain
    PROVE  Cardinality(Missed(state[k], offset)) <= Cardinality(Lost(k)) + max_records
<1> DEFINE H == (offset - max_records + 1) .. offset
<1>1. IsFiniteSet(H) /\ Cardinality(H) = max_records
  <2>1. offset - max_records + 1 \in Int /\ offset \in Int
        /\ ~(offset - max_records + 1 > offset)
        /\ offset - (offset - max_records + 1) + 1 = max_records
    BY SourceTaskAssumption DEF SourceTypeOK
  <2> QED
    BY <2>1, FS_Interval
<1>2. Missed(state[k], offset) \subseteq Lost(k) \cup H
  <2>1. SUFFICES ASSUME NEW r \in 1 .. offset, state[k][r] = 0, ~Passed(r, k)
                 PROVE  r \in H
    BY SourceTaskAssumption DEF Missed, Lost, SourceTypeOK
  <2>2. Len(batch) \in Nat /\ offset \in Nat /\ polled \in Nat
    BY SourceTaskAssumption DEF SourceTypeOK
  <2>3. CASE hand = Idle
    BY <2>1, <2>2, <2>3, SourceTaskAssumption DEF Passed, Held
  <2>4. CASE hand # Idle
    BY <2>1, <2>2, <2>4, SourceTaskAssumption DEF Passed, Held, Placed
  <2> QED
    BY <2>3, <2>4
<1>3. /\ IsFiniteSet(Lost(k) \cup H)
      /\ Cardinality(Lost(k) \cup H) <= Cardinality(Lost(k)) + max_records
  <2>1. IsFiniteSet(Lost(k) \cap H) /\ Cardinality(Lost(k) \cap H) \in Nat
    BY LostIsFinite, FS_Intersection, FS_CardinalityType
  <2>2. IsFiniteSet(Lost(k) \cup H)
        /\ Cardinality(Lost(k) \cup H)
              = Cardinality(Lost(k)) + max_records - Cardinality(Lost(k) \cap H)
    BY <1>1, LostIsFinite, FS_Union
  <2> HIDE DEF H
  <2> QED
    BY <2>1, <2>2, LostIsFinite, SourceTaskAssumption
<1>4. offset \in 0 .. Records
  BY DEF SourceTypeOK
<1>5. Cardinality(Missed(state[k], offset)) <= Cardinality(Lost(k) \cup H)
  BY <1>2, <1>3, FS_Subset
<1>6. Cardinality(Lost(k) \cup H) \in Nat
  BY <1>3, FS_CardinalityType
<1> HIDE DEF H
<1> QED
  BY <1>3, <1>4, <1>5, <1>6, LostIsFinite, MissedIsFinite, SourceTaskAssumption

HeldBounded ==
    /\ Held <= max_records
    /\ Live => deployments > 0

\* While the thread lives, all that earlier deployments lost; then one batch
\* more, of the states that run, are copied and are stored.
LostBounded ==
    /\ Live => \A k \in Chain : Cardinality(Lost(k)) <= Allowed(deployments - 1)
    /\ \A k \in Chain : Cardinality(Missed(state[k], offset)) <= Allowed(deployments)

CopiesBounded ==
    /\ snapshot # None =>
          \A i \in 1 .. Len(snapshot.states) :
              Cardinality(Missed(snapshot.states[i], snapshot.offset)) <= Allowed(deployments)
    /\ checkpoint # None =>
          \A k \in Chain :
              Cardinality(Missed(checkpoint.states[k], checkpoint.offset))
                  <= Allowed(deployments)

LossSplits ==
    \A k \in Chain :
        Cardinality(Missed(state[k], offset)) <= Cardinality(Lost(k)) + max_records

LEMMA LossAlwaysSplits == SourceTypeOK /\ Placed /\ HeldBounded => LossSplits
BY MissedIsLostOrHeld DEF LossSplits, HeldBounded

SourceInv == SourceTypeOK /\ Placed /\ HeldBounded /\ LostBounded /\ CopiesBounded

LEMMA InitLoss == SourceInit => HeldBounded /\ LostBounded /\ CopiesBounded
<1> SUFFICES ASSUME SourceInit PROVE HeldBounded /\ LostBounded /\ CopiesBounded
  OBVIOUS
<1>1. Held = 0 /\ ~Live
  BY DEF SourceInit, Held, Live
<1>2. \A k \in Chain : Missed(state[k], offset) = {}
  BY DEF SourceInit, Missed
<1>3. LostBounded
  <2>1. Allowed(deployments) \in Nat
    BY AllowedGrows DEF SourceInit
  <2>2. ASSUME NEW k \in Chain
        PROVE  Cardinality(Missed(state[k], offset)) <= Allowed(deployments)
    <3>1. Cardinality(Missed(state[k], offset)) = 0
      BY <1>2, FS_EmptySet
    <3> QED
      BY <2>1, <3>1
  <2> QED
    BY <1>1, <2>2 DEF LostBounded
<1> QED
  BY <1>1, <1>3, SourceTaskAssumption DEF SourceInit, HeldBounded, CopiesBounded

LEMMA NextHeldBounded ==
    SourceTypeOK /\ Placed /\ HeldBounded /\ [SourceNext]_sourceVars => HeldBounded'
<1> SUFFICES ASSUME SourceTypeOK, Placed, HeldBounded, [SourceNext]_sourceVars
             PROVE  HeldBounded'
  OBVIOUS
<1> USE SourceTaskAssumption DEF HeldBounded, Held, Live
<1>1. CASE Poll
  BY <1>1 DEF Poll, SourceTypeOK, task
<1>2. CASE ReadRecord
  BY <1>2 DEF ReadRecord, SourceTypeOK, task
<1>3. CASE NextRecord
  <2>1. Len(batch') = Len(batch) - 1 /\ Len(batch) \in Nat /\ polled \in Nat
    BY <1>3 DEF NextRecord, SourceTypeOK
  <2>2. hand = Idle /\ hand' # Idle /\ UNCHANGED <<running, deployments, polled>>
    BY <1>3 DEF NextRecord, Idle, task
  <2> QED
    BY <2>1, <2>2
<1>4. CASE ProcessElement
  <2>1. Len(batch) \in Nat /\ polled \in Nat
    BY DEF SourceTypeOK
  <2>2. hand # Idle /\ UNCHANGED <<running, deployments, polled, batch>>
    BY <1>4 DEF ProcessElement, task
  <2> QED
    BY <2>1, <2>2
<1>5. CASE OperatorRaises
  BY <1>5 DEF OperatorRaises, Placed
<1>6. CASE Stop
  BY <1>6 DEF Stop
<1>7. CASE SnapshotSource \/ SnapshotOperator \/ SnapshotFails
  BY <1>7 DEF SnapshotSource, SnapshotOperator, SnapshotFails, task
<1>8. CASE Deploy
  <2>1. Held' = 0
    BY <1>8 DEF Deploy
  <2>2. deployments' > 0
    BY <1>8 DEF Deploy, SourceTypeOK
  <2> QED
    BY <2>1, <2>2
<1>9. CASE UNCHANGED sourceVars
  BY <1>9 DEF sourceVars, task
<1> QED
  BY <1>1, <1>2, <1>3, <1>4, <1>5, <1>6, <1>7, <1>8, <1>9 DEF SourceNext, RunThread

\* A step of the run thread on a live task loses nothing.
LEMMA RunThreadLosesNothing ==
    ASSUME SourceTypeOK, Placed, HeldBounded, RunThread, NEW k \in Chain
    PROVE  Live /\ Lost(k)' \subseteq Lost(k)
<1> USE SourceTaskAssumption
<1>1. CASE Poll
  BY <1>1 DEF Poll, Live, Lost, Passed
<1>2. CASE ReadRecord
  BY <1>2 DEF ReadRecord, Live, Held, Lost, Passed, SourceTypeOK
<1>3. CASE NextRecord
  <2>1. Live
    BY <1>3 DEF NextRecord, Live, Held, SourceTypeOK
  <2>2. state' = state
    BY <1>3 DEF NextRecord
  <2> QED
    BY <1>3, <2>1, <2>2, NextRecordKeepsPassed DEF Lost
<1>4. CASE ProcessElement
  <2>1. Live
    BY <1>4 DEF ProcessElement, Live, Held, SourceTypeOK
  <2>2. ASSUME NEW r \in 1 .. Records, Passed(r, k)', state'[k][r] = 0
        PROVE  Passed(r, k) /\ state[k][r] = 0
    <3>1. state[k][r] \in Nat
      BY DEF SourceTypeOK, States
    <3> QED
      BY <1>4, <2>2, <3>1, ProcessElementPasses
  <2> QED
    BY <2>1, <2>2 DEF Lost
<1> QED
  BY <1>1, <1>2, <1>3, <1>4 DEF RunThread

LEMMA NextLostBounded ==
    SourceInv /\ [SourceNext]_sourceVars => LostBounded'
<1> SUFFICES ASSUME SourceInv, [SourceNext]_sourceVars PROVE LostBounded'
  OBVIOUS
<1> USE SourceTaskAssumption DEF SourceInv
<1>1. SourceTypeOK' /\ Placed' /\ HeldBounded'
  BY NextSourceTypeOK, NextPlaced, NextHeldBounded
<1>2. CASE RunThread
  <2>1. deployments' = deployments /\ deployments \in Nat \ {0}
    <3>1. Live
      BY <1>2, RunThreadLosesNothing DEF Chain
    <3> QED
      BY <1>2, <3>1 DEF RunThread, Poll, ReadRecord, NextRecord, ProcessElement, task,
                        HeldBounded, SourceTypeOK
  <2>2. ASSUME NEW k \in Chain
        PROVE  Cardinality(Lost(k)') <= Allowed(deployments - 1)
    <3>1. Live /\ Lost(k)' \subseteq Lost(k)
      BY <1>2, RunThreadLosesNothing
    <3>2. Cardinality(Lost(k)') <= Cardinality(Lost(k)) /\ Cardinality(Lost(k)') \in Nat
      BY <3>1, LostIsFinite, FS_Subset, FS_CardinalityType
    <3>3. Cardinality(Lost(k)) <= Allowed(deployments - 1)
      BY <3>1 DEF LostBounded
    <3>4. Cardinality(Lost(k)) \in Nat /\ Allowed(deployments - 1) \in Nat
      BY <2>1, LostIsFinite, AllowedGrows
    <3> QED
      BY <3>2, <3>3, <3>4
  <2>3. ASSUME NEW k \in Chain
        PROVE  Cardinality(Missed(state'[k], offset')) <= Allowed(deployments')
    <3>1. Cardinality(Missed(state'[k], offset')) <= Cardinality(Lost(k)') + max_records
      <4>1. LossSplits'
        BY <1>1, LossAlwaysSplits, PTL
      <4> QED
        BY <4>1 DEF LossSplits
    <3>2. Cardinality(Lost(k)') \in Nat
      BY <1>2, RunThreadLosesNothing, LostIsFinite, FS_Subset, FS_CardinalityType
    <3>3. Cardinality(Missed(state'[k], offset')) \in Nat
      BY <1>1, MissedIsFinite DEF SourceTypeOK
    <3>4. Allowed(deployments) = Allowed(deployments - 1) + max_records
          /\ Allowed(deployments - 1) \in Nat
      BY <2>1, AllowedGrows
    <3> QED
      BY <2>1, <2>2, <3>1, <3>2, <3>3, <3>4
  <2> QED
    BY <2>1, <2>2, <2>3 DEF LostBounded
<1>3. CASE OperatorRaises
  <2>1. ~Live'
    BY <1>3 DEF OperatorRaises, Live, Held, Placed
  <2> QED
    BY <1>3, <2>1 DEF OperatorRaises, LostBounded
<1>4. CASE Stop
  <2>1. Live' => Live
    BY <1>4 DEF Stop, Live, Held
  <2> QED
    BY <1>4, <2>1 DEF Stop, LostBounded, Lost, Passed
<1>5. CASE SnapshotSource \/ SnapshotOperator \/ SnapshotFails \/ UNCHANGED sourceVars
  <2>1. UNCHANGED <<running, deployments, offset, polled, batch, hand, state>>
    BY <1>5 DEF SnapshotSource, SnapshotOperator, SnapshotFails, sourceVars, task
  <2> QED
    BY <2>1 DEF LostBounded, Live, Held, Lost, Passed
<1>6. CASE Deploy
  <2>1. deployments' - 1 = deployments /\ deployments' = deployments + 1
        /\ deployments \in Nat /\ deployments' \in Nat
    BY <1>6 DEF Deploy, SourceTypeOK
  <2>2. ASSUME NEW k \in Chain
        PROVE  Cardinality(Missed(state'[k], offset')) <= Allowed(deployments)
    <3>1. CASE checkpoint # None /\ RestoreState(checkpoint) /\ Seekable
      BY <3>1 DEF RestoreState, Restored, CopiesBounded
    <3>2. CASE offset' = 0
      <4>1. Missed(state'[k], offset') = {}
        BY <3>2 DEF Missed
      <4> QED
        BY <4>1, FS_EmptySet, AllowedGrows DEF SourceTypeOK
    <3> QED
      BY <1>6, <3>1, <3>2 DEF Deploy, LoadCheckpoint, RestoreState, Restored
  <2>3. ASSUME NEW k \in Chain
        PROVE  Cardinality(Lost(k)') <= Allowed(deployments)
    <3>1. batch' = << >> /\ offset' \in 0 .. Records
      BY <1>1, <1>6 DEF Deploy, SourceTypeOK
    <3>2. Lost(k)' \in SUBSET Missed(state'[k], offset')
      BY <3>1 DEF Lost, Missed, Passed
    <3>3. Cardinality(Lost(k)') <= Cardinality(Missed(state'[k], offset'))
          /\ Cardinality(Lost(k)') \in Nat
      BY <3>1, <3>2, MissedIsFinite, FS_Subset, FS_CardinalityType
    <3>4. Cardinality(Missed(state'[k], offset')) \in Nat /\ Allowed(deployments) \in Nat
      BY <2>1, <3>1, MissedIsFinite, AllowedGrows
    <3> QED
      BY <2>2, <3>3, <3>4
  <2>4. ASSUME NEW k \in Chain
        PROVE  Cardinality(Missed(state'[k], offset')) <= Allowed(deployments')
    <3>1. Cardinality(Missed(state'[k], offset')) \in Nat
      BY <1>1, MissedIsFinite DEF SourceTypeOK
    <3>2. Allowed(deployments) \in Nat /\ Allowed(deployments') \in Nat
          /\ Allowed(deployments) <= Allowed(deployments')
      BY <2>1, AllowedGrows
    <3> QED
      BY <2>2, <3>1, <3>2
  <2> QED
    BY <2>1, <2>3, <2>4 DEF LostBounded
<1> QED
  BY <1>2, <1>3, <1>4, <1>5, <1>6 DEF SourceNext

LEMMA NextCopiesBounded ==
    SourceInv /\ [SourceNext]_sourceVars => CopiesBounded'
<1> SUFFICES ASSUME SourceInv, [SourceNext]_sourceVars PROVE CopiesBounded'
  OBVIOUS
<1> USE SourceTaskAssumption DEF SourceInv
<1>1. CASE RunThread \/ OperatorRaises \/ Stop \/ UNCHANGED sourceVars
  <2>1. UNCHANGED <<deployments, snapshot, checkpoint>>
    BY <1>1 DEF RunThread, Poll, ReadRecord, NextRecord, ProcessElement, OperatorRaises,
                Stop, sourceVars, task
  <2> QED
    BY <2>1 DEF CopiesBounded
<1>2. CASE SnapshotSource
  BY <1>2 DEF SnapshotSource, CopiesBounded, task
<1>3. CASE SnapshotOperator
  <2> DEFINE k == Len(snapshot.states) + 1
             states == Append(snapshot.states, state[k])
  <2>1. /\ snapshot # None /\ UNCHANGED deployments
        /\ IF k < Operators
           THEN snapshot' = [snapshot EXCEPT !.states = states] /\ UNCHANGED checkpoint
           ELSE /\ snapshot' = None
                /\ checkpoint' = [offset |-> snapshot.offset, states |-> states]
    BY <1>3 DEF SnapshotOperator, SourceOffset, task
  <2>2. snapshot \in [offset : 0 .. offset, states : Seq([1 .. Records -> Nat])]
        /\ Len(snapshot.states) < Operators
    BY <2>1 DEF SourceTypeOK
  <2>3. k \in Chain /\ Len(states) = k /\ states[k] = state[k]
        /\ \A i \in 1 .. Len(snapshot.states) : states[i] = snapshot.states[i]
    BY <2>2 DEF Chain
  <2>4. Cardinality(Missed(state[k], snapshot.offset)) <= Allowed(deployments)
    <3>1. snapshot.offset \in 0 .. Records /\ offset \in 0 .. Records
          /\ snapshot.offset <= offset
      BY <2>2 DEF SourceTypeOK
    <3>2. Cardinality(Missed(state[k], snapshot.offset))
              <= Cardinality(Missed(state[k], offset))
      BY <3>1, MissedGrows
    <3>3. Cardinality(Missed(state[k], offset)) <= Allowed(deployments)
      BY <2>3 DEF LostBounded
    <3>4. Cardinality(Missed(state[k], snapshot.offset)) \in Nat
          /\ Cardinality(Missed(state[k], offset)) \in Nat
      BY <3>1, MissedIsFinite
    <3>5. Allowed(deployments) \in Nat
      BY AllowedGrows DEF SourceTypeOK
    <3> HIDE DEF k
    <3> QED
      BY <3>2, <3>3, <3>4, <3>5
  <2>5. ASSUME NEW i \in 1 .. k
        PROVE  Cardinality(Missed(states[i], snapshot.offset)) <= Allowed(deployments)
    <3>1. CASE i = k
      BY <2>3, <2>4, <3>1
    <3>2. CASE i # k
      <4>1. i \in 1 .. Len(snapshot.states)
        BY <2>2, <3>2
      <4>2. states[i] = snapshot.states[i]
        BY <2>3, <4>1
      <4> HIDE DEF states
      <4> QED
        BY <2>1, <4>1, <4>2 DEF CopiesBounded
    <3> QED
      BY <3>1, <3>2
  <2> HIDE DEF states
  <2>6. CASE k < Operators
    <3>1. snapshot'.states = states /\ snapshot'.offset = snapshot.offset
      BY <2>1, <2>2, <2>6
    <3> QED
      BY <2>1, <2>3, <2>5, <2>6, <3>1 DEF CopiesBounded
  <2>7. CASE ~(k < Operators)
    <3>1. k = Operators /\ Chain = 1 .. k
      BY <2>3, <2>7 DEF Chain
    <3>2. snapshot' = None /\ checkpoint'.states = states
          /\ checkpoint'.offset = snapshot.offset
      BY <2>1, <2>7
    <3> QED
      BY <2>1, <2>5, <3>1, <3>2 DEF CopiesBounded
  <2> QED
    BY <2>6, <2>7
<1>4. CASE SnapshotFails
  BY <1>4 DEF SnapshotFails, CopiesBounded, task
<1>5. CASE Deploy
  <2>1. deployments' = deployments + 1 /\ snapshot' = None /\ checkpoint' = checkpoint
        /\ deployments \in Nat
    BY <1>5 DEF Deploy, SourceTypeOK
  <2>2. ASSUME checkpoint # None, NEW k \in Chain
        PROVE  Cardinality(Missed(checkpoint.states[k], checkpoint.offset))
                   <= Allowed(deployments')
    <3>1. Cardinality(Missed(checkpoint.states[k], checkpoint.offset))
              <= Allowed(deployments)
      BY <2>2 DEF CopiesBounded
    <3>2. checkpoint.offset \in 0 .. Records
      BY <2>2 DEF SourceTypeOK, Whole
    <3>3. Cardinality(Missed(checkpoint.states[k], checkpoint.offset)) \in Nat
      BY <3>2, MissedIsFinite
    <3>4. Allowed(deployments) \in Nat /\ Allowed(deployments') \in Nat
          /\ Allowed(deployments) <= Allowed(deployments')
      BY <2>1, AllowedGrows
    <3> QED
      BY <3>1, <3>3, <3>4
  <2> QED
    BY <2>1, <2>2 DEF CopiesBounded
<1> QED
  BY <1>1, <1>2, <1>3, <1>4, <1>5 DEF SourceNext

(* A stored snapshot lacks no more of the records in front of its offset   *)
(* than one batch for each deployment, for any partition, chain and batch. *)
THEOREM LossesAreBounded == SourceSpec => []LossIsBounded
<1>1. SourceInit => SourceInv
  BY InitPlaced, InitLoss DEF SourceInv
<1>2. SourceInv /\ [SourceNext]_sourceVars => SourceInv'
  BY NextSourceTypeOK, NextPlaced, NextHeldBounded, NextLostBounded, NextCopiesBounded
  DEF SourceInv
<1>3. SourceInv => LossIsBounded
  BY DEF SourceInv, CopiesBounded, Allowed, LossIsBounded
<1> QED
  BY <1>1, <1>2, <1>3, PTL DEF SourceSpec
-----------------------------------------------------------------------------
LEMMA TasksStep ==
    [TasksNext]_tasksVars =>
        [SourceNext]_sourceVars /\ [AlignNext]_alignVars /\ [StateNext]_stateVars
<1> SUFFICES ASSUME [TasksNext]_tasksVars
             PROVE  /\ SourceNext \/ UNCHANGED sourceVars
                    /\ AlignNext \/ UNCHANGED alignVars
                    /\ StateNext \/ UNCHANGED stateVars
  OBVIOUS
<1>1. CASE SourceStep
  BY <1>1 DEF SourceStep
<1>2. CASE AlignStep
  BY <1>2 DEF AlignStep
<1>3. CASE StateStep
  BY <1>3 DEF StateStep
<1>4. CASE UNCHANGED tasksVars
  BY <1>4 DEF tasksVars
<1> QED
  BY <1>1, <1>2, <1>3, <1>4 DEF TasksNext

(* A task behaves as each of its parts, so that what is proved of a part   *)
(* holds of the composition that is checked, whichever role a task has.    *)
THEOREM TasksAreTheirParts == TasksSpec => SourceSpec /\ AlignSpec /\ StateSpec
<1>1. TasksInit => SourceInit /\ AlignInit /\ StateInit
  BY DEF TasksInit
<1> QED
  BY <1>1, TasksStep, PTL DEF TasksSpec, SourceSpec, AlignSpec, StateSpec
=============================================================================

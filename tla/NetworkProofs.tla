---------------------------- MODULE NetworkProofs ----------------------------
(***************************************************************************)
(* Proofs about BufferPool, for every pool and every number of threads,    *)
(* about FlowControl, for every number of senders, credits and resets, and *)
(* about NetworkComponents, which keeps what was proved of the two: the    *)
(* steps of the one leave the variables of the other as they are.          *)
(***************************************************************************)
EXTENDS NetworkComponents, FiniteSetTheorems, TLAPS

(***************************************************************************)
(* BufferPool.                                                             *)
(***************************************************************************)

\* A thread holds a buffer exactly when it is past acquire.
HoldersHold == \A u \in Users : user[u] = "holding" <=> held[u] # NoBuffer

\* The inductive invariant.
PoolInv == PoolTypeOK /\ BuffersAccounted /\ HoldersHold

LEMMA InitPoolInv ==
    ASSUME BufferPoolAssumption
    PROVE  PoolInit => PoolInv
<1> SUFFICES ASSUME PoolInit PROVE PoolInv
  OBVIOUS
<1>1. PoolTypeOK
  BY DEF BufferPoolAssumption, PoolInit, PoolTypeOK
<1>2. NoBuffer \notin Buffers
  BY DEF BufferPoolAssumption
<1>3. BuffersAccounted
  BY <1>2 DEF PoolInit, BuffersAccounted
<1> QED
  BY <1>1, <1>3 DEF PoolInv, HoldersHold, PoolInit

LEMMA TakeKeepsPoolInv ==
    ASSUME BufferPoolAssumption, PoolInv, NEW u \in Users, Take(u),
           user[u] # "holding"
    PROVE  PoolInv'
<1>1. PICK b \in available_buffers :
        /\ available_buffers' = available_buffers \ {b}
        /\ user' = [user EXCEPT ![u] = "holding"]
        /\ held' = [held EXCEPT ![u] = b]
        /\ UNCHANGED <<waiters, timeouts>>
  BY DEF Take, Pop
<1>2. b \in Buffers /\ b # NoBuffer /\ held[u] = NoBuffer
  BY DEF PoolInv, PoolTypeOK, BufferPoolAssumption, HoldersHold
<1>3. \A v \in Users : held[v] # b
  BY DEF PoolInv, BuffersAccounted
<1>4. PoolTypeOK'
  BY <1>1, <1>2 DEF PoolInv, PoolTypeOK
<1>5. \A v \in Users : held'[v] = IF v = u THEN b ELSE held[v]
  BY <1>1 DEF PoolInv, PoolTypeOK
<1>6. available_buffers' = Buffers \ {held'[v] : v \in Users}
  BY <1>1, <1>2, <1>3, <1>5 DEF PoolInv, BuffersAccounted, BufferPoolAssumption
<1>7. BuffersAccounted'
  BY <1>3, <1>5, <1>6 DEF PoolInv, BuffersAccounted
<1>8. HoldersHold'
  BY <1>1, <1>2, <1>5 DEF PoolInv, HoldersHold, PoolTypeOK
<1> QED
  BY <1>4, <1>7, <1>8 DEF PoolInv

LEMMA ReleaseKeepsPoolInv ==
    ASSUME BufferPoolAssumption, PoolInv, NEW u \in Users, Release(u)
    PROVE  PoolInv'
<1>1. /\ user[u] = "holding"
      /\ available_buffers' = available_buffers \cup {held[u]}
      /\ held' = [held EXCEPT ![u] = NoBuffer]
      /\ timeouts' = timeouts
  BY DEF Release
<1>2. held[u] \in Buffers /\ held[u] # NoBuffer /\ NoBuffer \notin Buffers
  BY <1>1 DEF PoolInv, PoolTypeOK, BufferPoolAssumption, HoldersHold
<1>3. \A v \in Users : held'[v] = IF v = u THEN NoBuffer ELSE held[v]
  BY <1>1 DEF PoolInv, PoolTypeOK
<1>4. /\ waiters' \subseteq Users
      /\ user' \in [Users -> {"idle", "asleep", "woken", "late", "holding"}]
      /\ \A v \in Users : user'[v] = "holding" <=> user[v] = "holding" /\ v # u
  BY <1>1 DEF Release, Notify, PoolInv, PoolTypeOK
<1>5. PoolTypeOK'
  BY <1>1, <1>2, <1>3, <1>4 DEF PoolInv, PoolTypeOK
<1>6. available_buffers' = Buffers \ {held'[v] : v \in Users}
  BY <1>1, <1>2, <1>3 DEF PoolInv, BuffersAccounted
<1>7. BuffersAccounted'
  BY <1>3, <1>6 DEF PoolInv, BuffersAccounted
<1>8. HoldersHold'
  BY <1>3, <1>4 DEF PoolInv, HoldersHold
<1> QED
  BY <1>5, <1>7, <1>8 DEF PoolInv

LEMMA StepPoolInv ==
    ASSUME BufferPoolAssumption
    PROVE  PoolInv /\ [PoolNext]_poolVars => PoolInv'
<1> SUFFICES ASSUME PoolInv, [PoolNext]_poolVars PROVE PoolInv'
  OBVIOUS
<1> USE DEF PoolInv, PoolTypeOK, BuffersAccounted, HoldersHold
<1>1. ASSUME NEW u \in Users, Acquire(u) PROVE PoolInv'
  <2>1. CASE Take(u)
    BY <1>1, <2>1, TakeKeepsPoolInv DEF Acquire
  <2>2. CASE Sleep(u)
    BY <1>1, <2>2 DEF Acquire, Sleep
  <2> QED
    BY <1>1, <2>1, <2>2 DEF Acquire
<1>2. ASSUME NEW u \in Users, PoolTimeOut(u) PROVE PoolInv'
  BY <1>2 DEF PoolTimeOut, BufferPoolAssumption
<1>3. ASSUME NEW u \in Users, PoolGiveUp(u) PROVE PoolInv'
  BY <1>3 DEF PoolGiveUp
<1>4. ASSUME NEW u \in Users, Release(u) PROVE PoolInv'
  BY <1>4, ReleaseKeepsPoolInv
<1>5. CASE UNCHANGED poolVars
  BY <1>5 DEF poolVars
<1> QED
  BY <1>1, <1>2, <1>3, <1>4, <1>5 DEF PoolNext

(* No buffer of the pool is lost or lent twice, whatever its size, however *)
(* many threads acquire, wait, time out and release.                       *)
THEOREM BuffersAreAccounted ==
    ASSUME BufferPoolAssumption
    PROVE  PoolSpec => []BuffersAccounted
<1>1. PoolInv => BuffersAccounted
  BY DEF PoolInv
<1> QED
  BY <1>1, InitPoolInv, StepPoolInv, PTL DEF PoolSpec
-----------------------------------------------------------------------------
Woken == {u \in Users : user[u] = "woken"}

\* While no wait has timed out, the condition's waiters are the sleepers.
WaitersSleep ==
    timeouts = 0 =>
        \A u \in Users : user[u] # "late" /\ (user[u] = "asleep" <=> u \in waiters)

LEMMA StepWaitersSleep ==
    ASSUME BufferPoolAssumption
    PROVE  PoolTypeOK /\ WaitersSleep /\ [PoolNext]_poolVars => WaitersSleep'
<1> SUFFICES ASSUME PoolTypeOK, WaitersSleep, [PoolNext]_poolVars PROVE WaitersSleep'
  OBVIOUS
<1> USE DEF PoolTypeOK, WaitersSleep
<1>1. ASSUME NEW u \in Users, Acquire(u) PROVE WaitersSleep'
  BY <1>1 DEF Acquire, Take, Sleep
<1>2. ASSUME NEW u \in Users, PoolTimeOut(u) PROVE WaitersSleep'
  BY <1>2 DEF PoolTimeOut, BufferPoolAssumption
<1>3. ASSUME NEW u \in Users, PoolGiveUp(u) PROVE WaitersSleep'
  BY <1>3 DEF PoolGiveUp
<1>4. ASSUME NEW u \in Users, Release(u) PROVE WaitersSleep'
  BY <1>4 DEF Release, Notify
<1>5. CASE UNCHANGED poolVars
  BY <1>5 DEF poolVars
<1> QED
  BY <1>1, <1>2, <1>3, <1>4, <1>5 DEF PoolNext

LEMMA PoolIsFinite ==
    ASSUME BufferPoolAssumption, PoolTypeOK
    PROVE  /\ IsFiniteSet(available_buffers) /\ Cardinality(available_buffers) \in Nat
           /\ IsFiniteSet(Woken) /\ Cardinality(Woken) \in Nat
<1>1. available_buffers \in SUBSET Buffers /\ Woken \in SUBSET Users
  BY DEF PoolTypeOK, Woken
<1>2. IsFiniteSet(Buffers) /\ IsFiniteSet(Users)
  BY DEF BufferPoolAssumption
<1> QED
  BY <1>1, <1>2, FS_Subset, FS_CardinalityType

LEMMA AddOne ==
    ASSUME NEW S, NEW x, IsFiniteSet(S), Cardinality(S) \in Nat
    PROVE  /\ Cardinality(S \cup {x}) \in Int
           /\ Cardinality(S \cup {x}) <= Cardinality(S) + 1
<1> DEFINE n == Cardinality(S)  m == Cardinality(S \cup {x})
<1>1. m = n \/ m = n + 1
  BY FS_AddElement
<1>2. n \in Nat
  OBVIOUS
<1> HIDE DEF n, m
<1>3. m \in Int /\ m <= n + 1
  BY <1>1, <1>2
<1> QED
  BY <1>3 DEF n, m

LEMMA RemoveOne ==
    ASSUME NEW S, NEW x, IsFiniteSet(S), Cardinality(S) \in Nat
    PROVE  /\ Cardinality(S \ {x}) \in Int
           /\ Cardinality(S) <= Cardinality(S \ {x}) + 1
           /\ x \in S => Cardinality(S \ {x}) = Cardinality(S) - 1
<1> DEFINE n == Cardinality(S)  m == Cardinality(S \ {x})
<1>1. (x \notin S /\ m = n) \/ (x \in S /\ m = n - 1)
  BY FS_RemoveElement
<1>2. n \in Nat
  OBVIOUS
<1> HIDE DEF n, m
<1>3. m \in Int /\ n <= m + 1 /\ (x \in S => m = n - 1)
  BY <1>1, <1>2
<1> QED
  BY <1>3 DEF n, m

(* Of three bounds in a row, the outer ones.                               *)
LEMMA Between ==
    ASSUME NEW a \in Nat, NEW w \in Nat, NEW b \in Int, NEW v \in Int, a <= w
    PROVE  /\ b = a - 1 /\ w <= v + 1 => b <= v
           /\ b <= a + 1 /\ v = w + 1 => b <= v
OBVIOUS

(* One buffer fewer, and at most one woken thread fewer.                   *)
LEMMA TakeForgetsNobody ==
    ASSUME BufferPoolAssumption, PoolTypeOK, NobodyForgotten, NEW u \in Users,
           user[u] \in {"idle", "woken"}, Take(u)
    PROVE  NobodyForgotten'
<1>1. PICK b \in available_buffers :
        /\ available_buffers' = available_buffers \ {b}
        /\ user' = [user EXCEPT ![u] = "holding"]
        /\ timeouts' = timeouts
  BY DEF Take, Pop
<1> SUFFICES ASSUME timeouts = 0, \E v \in Users : user'[v] = "asleep"
             PROVE  Cardinality(available_buffers') <= Cardinality(Woken')
  BY <1>1 DEF NobodyForgotten, Woken
<1>2. \E v \in Users : user[v] = "asleep"
  BY <1>1 DEF PoolTypeOK
<1>3. Cardinality(available_buffers) <= Cardinality(Woken)
  BY <1>2 DEF NobodyForgotten, Woken
<1>4. /\ Cardinality(available_buffers') \in Int
      /\ Cardinality(available_buffers') = Cardinality(available_buffers) - 1
  BY <1>1, PoolIsFinite, RemoveOne
<1>5. Woken' = Woken \ {u}
  BY <1>1 DEF Woken, PoolTypeOK
<1>6. /\ Cardinality(Woken') \in Int
      /\ Cardinality(Woken) <= Cardinality(Woken') + 1
  BY <1>5, PoolIsFinite, RemoveOne
<1> QED
  BY <1>3, <1>4, <1>6, PoolIsFinite, Between

(* One buffer more, and if anybody sleeps, one woken thread more.          *)
LEMMA ReleaseForgetsNobody ==
    ASSUME BufferPoolAssumption, PoolInv, WaitersSleep, NobodyForgotten,
           NEW u \in Users, Release(u)
    PROVE  NobodyForgotten'
<1>1. /\ user[u] = "holding"
      /\ available_buffers' = available_buffers \cup {held[u]}
      /\ timeouts' = timeouts
      /\ Notify(u)
  BY DEF Release
<1> SUFFICES ASSUME timeouts = 0, NEW v \in Users, user'[v] = "asleep"
             PROVE  Cardinality(available_buffers') <= Cardinality(Woken')
  BY <1>1 DEF NobodyForgotten, Woken
<1>t. PoolTypeOK
  BY DEF PoolInv
<1>2. user[v] = "asleep" /\ v \in waiters
  BY <1>1, <1>t DEF Notify, PoolTypeOK, WaitersSleep
<1>3. PICK w \in waiters :
        user' = [user EXCEPT ![u] = "idle",
                             ![w] = IF @ = "asleep" THEN "woken" ELSE @]
  BY <1>1, <1>2 DEF Notify
<1>4. w \in Users /\ user[w] = "asleep" /\ w # u
  BY <1>1, <1>t DEF PoolTypeOK, WaitersSleep
<1>5. Woken' = Woken \cup {w} /\ w \notin Woken
  BY <1>1, <1>3, <1>4, <1>t DEF Woken, PoolTypeOK
<1>6. Cardinality(Woken') = Cardinality(Woken) + 1
  BY <1>5, <1>t, PoolIsFinite, FS_AddElement
<1>7. /\ Cardinality(available_buffers') \in Int
      /\ Cardinality(available_buffers') <= Cardinality(available_buffers) + 1
  BY <1>1, <1>t, PoolIsFinite, AddOne
<1>8. Cardinality(available_buffers) <= Cardinality(Woken)
  BY <1>2 DEF NobodyForgotten, Woken
<1>9. Cardinality(Woken') \in Int
  BY <1>6, <1>t, PoolIsFinite
<1> QED
  BY <1>6, <1>7, <1>8, <1>9, <1>t, PoolIsFinite, Between

LEMMA StepNobodyForgotten ==
    ASSUME BufferPoolAssumption
    PROVE  PoolInv /\ WaitersSleep /\ NobodyForgotten /\ [PoolNext]_poolVars
               => NobodyForgotten'
<1> SUFFICES ASSUME PoolInv, WaitersSleep, NobodyForgotten, [PoolNext]_poolVars
             PROVE  NobodyForgotten'
  OBVIOUS
<1>t. PoolTypeOK
  BY DEF PoolInv
<1>1. ASSUME NEW u \in Users, Acquire(u) PROVE NobodyForgotten'
  <2>1. CASE Take(u)
    BY <1>1, <1>t, <2>1, TakeForgetsNobody DEF Acquire
  <2>2. CASE Sleep(u)
    <3>1. available_buffers' = {}
      BY <2>2 DEF Sleep
    <3>2. PoolTypeOK'
      BY StepPoolInv DEF PoolInv
    <3>3. Cardinality(Woken') \in Nat
      <4>1. Woken' \in SUBSET Users /\ IsFiniteSet(Users)
        BY DEF Woken, BufferPoolAssumption
      <4> QED
        BY <4>1, FS_Subset, FS_CardinalityType
    <3>4. Cardinality(available_buffers') = 0
      BY <3>1, FS_EmptySet
    <3> QED
      BY <3>3, <3>4 DEF NobodyForgotten, Woken
  <2> QED
    BY <1>1, <2>1, <2>2 DEF Acquire
<1>2. ASSUME NEW u \in Users, PoolTimeOut(u) PROVE NobodyForgotten'
  <2>1. timeouts' # 0
    BY <1>2, <1>t DEF PoolTimeOut, PoolTypeOK, BufferPoolAssumption
  <2> QED
    BY <2>1 DEF NobodyForgotten
<1>3. ASSUME NEW u \in Users, PoolGiveUp(u) PROVE NobodyForgotten'
  <2>1. timeouts' # 0
    BY <1>3 DEF PoolGiveUp, WaitersSleep
  <2> QED
    BY <2>1 DEF NobodyForgotten
<1>4. ASSUME NEW u \in Users, Release(u) PROVE NobodyForgotten'
  BY <1>4, ReleaseForgetsNobody
<1>5. CASE UNCHANGED poolVars
  BY <1>5 DEF poolVars, NobodyForgotten
<1> QED
  BY <1>1, <1>2, <1>3, <1>4, <1>5 DEF PoolNext

(* As long as no wait times out, every buffer in the pool has a woken      *)
(* thread coming for it while anybody sleeps, for any pool and any threads.*)
THEOREM NobodyIsForgotten ==
    ASSUME BufferPoolAssumption
    PROVE  PoolSpec => []NobodyForgotten
<1>1. PoolInit => WaitersSleep /\ NobodyForgotten
  BY DEF PoolInit, WaitersSleep, NobodyForgotten
<1>2. PoolInv => PoolTypeOK
  BY DEF PoolInv
<1> QED
  BY <1>1, <1>2, InitPoolInv, StepPoolInv, StepWaitersSleep, StepNobodyForgotten,
     PTL DEF PoolSpec
-----------------------------------------------------------------------------
(***************************************************************************)
(* FlowControl.                                                            *)
(***************************************************************************)

LEMMA InitGateTypeOK ==
    ASSUME FlowControlAssumption
    PROVE  GateInit => GateTypeOK
BY DEF FlowControlAssumption, GateInit, GateTypeOK

(* Attempt keeps the types for what AcquireCredits asks for.               *)
LEMMA AttemptGateTypeOK ==
    ASSUME FlowControlAssumption, GateTypeOK,
           NEW s \in Senders, NEW n \in 0 .. MaxAmount,
           Attempt(s, n), UNCHANGED resets
    PROVE  GateTypeOK'
<1>1. credits \in Nat /\ unprocessed \in Nat /\ n \in Nat
  BY DEF GateTypeOK, FlowControlAssumption
<1>2. credits' \in Nat /\ unprocessed' \in Nat
  BY <1>1 DEF Attempt, Enough
<1>3. amount' \in [Senders -> 0 .. MaxAmount]
  BY DEF Attempt, GateTypeOK, FlowControlAssumption
<1>4. sender' \in [Senders -> {"idle", "asleep", "woken", "late"}]
  BY DEF Attempt, GateTypeOK
<1> QED
  BY <1>2, <1>3, <1>4 DEF GateTypeOK

LEMMA StepGateTypeOK ==
    ASSUME FlowControlAssumption
    PROVE  GateTypeOK /\ [GateNext]_gateVars => GateTypeOK'
<1> SUFFICES ASSUME GateTypeOK, [GateNext]_gateVars PROVE GateTypeOK'
  OBVIOUS
<1>1. ASSUME NEW s \in Senders, AcquireCredits(s) PROVE GateTypeOK'
  <2>1. CASE sender[s] = "idle" /\ \E n \in Amounts : Attempt(s, n)
    <3>1. PICK n \in Amounts : Attempt(s, n)
      BY <2>1
    <3>2. n \in 0 .. MaxAmount
      BY DEF Amounts, FlowControlAssumption
    <3> QED
      BY <1>1, <3>1, <3>2, AttemptGateTypeOK DEF AcquireCredits
  <2>2. CASE sender[s] = "woken" /\ Attempt(s, amount[s])
    <3>1. amount[s] \in 0 .. MaxAmount
      BY DEF GateTypeOK
    <3> QED
      BY <1>1, <2>2, <3>1, AttemptGateTypeOK DEF AcquireCredits
  <2> QED
    BY <1>1, <2>1, <2>2 DEF AcquireCredits
<1>2. ASSUME NEW s \in Senders, GateTimeOut(s) \/ GateGiveUp(s) PROVE GateTypeOK'
  BY <1>2 DEF GateTimeOut, GateGiveUp, GateTypeOK, FlowControlAssumption
<1>3. CASE GrantCredits
  <2>1. PICK n \in Amounts :
          /\ n <= unprocessed
          /\ credits' = credits + n
          /\ unprocessed' = unprocessed - n
    BY <1>3 DEF GrantCredits
  <2>2. credits' \in Nat /\ unprocessed' \in Nat
    BY <2>1 DEF GateTypeOK, Amounts, FlowControlAssumption
  <2> QED
    BY <1>3, <2>2 DEF GrantCredits, NotifyAll, GateTypeOK
<1>4. CASE Reset
  BY <1>4 DEF Reset, NotifyAll, GateTypeOK, FlowControlAssumption
<1>5. CASE UNCHANGED gateVars
  BY <1>5 DEF gateVars, GateTypeOK
<1> QED
  BY <1>1, <1>2, <1>3, <1>4, <1>5 DEF GateNext

(* The gate's numbers keep their types: credits never become negative.     *)
THEOREM GateTypeCorrect ==
    ASSUME FlowControlAssumption
    PROVE  GateSpec => []GateTypeOK
BY InitGateTypeOK, StepGateTypeOK, PTL DEF GateSpec

-----------------------------------------------------------------------------
LEMMA MultipleGrows ==
    ASSUME NEW c \in Nat, NEW r \in Nat
    PROVE  c * (r + 1) \in Nat /\ c * ((r + 1) + 1) = c * (r + 1) + c
BY Z3

(* What a step does to the credits and the data on its way.                *)
LEMMA StepSum ==
    ASSUME FlowControlAssumption, GateTypeOK, [GateNext]_gateVars
    PROVE  \/ credits' + unprocessed' = credits + unprocessed /\ resets' = resets
           \/ /\ resets' = resets + 1
              /\ credits' = initial_credits
              /\ unprocessed' = unprocessed
<1>1. ASSUME NEW s \in Senders, NEW n \in 0 .. MaxAmount, Attempt(s, n)
      PROVE  credits' + unprocessed' = credits + unprocessed
  BY <1>1 DEF Attempt, GateTypeOK, FlowControlAssumption
<1>2. ASSUME NEW s \in Senders, AcquireCredits(s)
      PROVE  credits' + unprocessed' = credits + unprocessed /\ resets' = resets
  <2>1. Amounts \subseteq 0 .. MaxAmount /\ amount[s] \in 0 .. MaxAmount
    BY DEF Amounts, GateTypeOK, FlowControlAssumption
  <2> QED
    BY <1>1, <1>2, <2>1 DEF AcquireCredits
<1>3. CASE GrantCredits
  BY <1>3 DEF GrantCredits, GateTypeOK, Amounts, FlowControlAssumption
<1>4. CASE Reset
  BY <1>4 DEF Reset
<1>5. ASSUME NEW s \in Senders, GateTimeOut(s) \/ GateGiveUp(s)
      PROVE  credits' + unprocessed' = credits + unprocessed /\ resets' = resets
  BY <1>5 DEF GateTimeOut, GateGiveUp
<1>6. CASE UNCHANGED gateVars
  BY <1>6 DEF gateVars
<1> QED
  BY <1>2, <1>3, <1>4, <1>5, <1>6 DEF GateNext

LEMMA StepCreditsAccounted ==
    ASSUME FlowControlAssumption
    PROVE  GateTypeOK /\ CreditsAccounted /\ [GateNext]_gateVars => CreditsAccounted'
<1> SUFFICES ASSUME GateTypeOK, CreditsAccounted, [GateNext]_gateVars
             PROVE  CreditsAccounted'
  OBVIOUS
<1>1. /\ credits \in Nat /\ unprocessed \in Nat /\ resets \in Nat
      /\ initial_credits \in Nat
  BY DEF GateTypeOK, FlowControlAssumption
<1>2. CASE credits' + unprocessed' = credits + unprocessed /\ resets' = resets
  BY <1>2 DEF CreditsAccounted
<1>3. CASE /\ resets' = resets + 1
           /\ credits' = initial_credits
           /\ unprocessed' = unprocessed
  <2> DEFINE allowed == initial_credits * (resets + 1)
             allowedThen == initial_credits * ((resets + 1) + 1)
  <2>1. allowed \in Nat /\ allowedThen = allowed + initial_credits
    BY <1>1, MultipleGrows
  <2>2. credits + unprocessed <= allowed
    BY DEF CreditsAccounted
  <2>3. initial_credits * (resets' + 1) = allowedThen
    BY <1>3
  <2> HIDE DEF allowed, allowedThen
  <2>4. credits' + unprocessed' <= allowedThen
    BY <1>1, <1>3, <2>1, <2>2
  <2>5. resets' # 0
    BY <1>1, <1>3
  <2> QED
    BY <2>3, <2>4, <2>5 DEF CreditsAccounted
<1> QED
  BY <1>2, <1>3, StepSum

(* Credits and data on its way are what the receiver allowed, for any      *)
(* number of senders; each reset allows the same once more.                *)
THEOREM CreditsAreAccounted ==
    ASSUME FlowControlAssumption
    PROVE  GateSpec => []CreditsAccounted
<1>1. GateInit => CreditsAccounted
  BY DEF GateInit, CreditsAccounted, FlowControlAssumption
<1> QED
  BY <1>1, StepCreditsAccounted, GateTypeCorrect, PTL DEF GateSpec

-----------------------------------------------------------------------------
LEMMA StepSleepers ==
    ASSUME FlowControlAssumption
    PROVE  GateTypeOK /\ SleepersLackCredits /\ [GateNext]_gateVars => SleepersLackCredits'
<1> SUFFICES ASSUME GateTypeOK, SleepersLackCredits, [GateNext]_gateVars,
                    NEW w \in Senders, sender'[w] = "asleep"
             PROVE  credits' < amount'[w]
  BY DEF SleepersLackCredits
<1> USE DEF SleepersLackCredits
<1>1. ASSUME NEW s \in Senders, NEW n \in 0 .. MaxAmount, Attempt(s, n)
      PROVE  credits' < amount'[w]
  <2>1. CASE w = s
    BY <1>1, <2>1 DEF Attempt, Enough, GateTypeOK, FlowControlAssumption
  <2>2. CASE w # s
    <3>1. sender[w] = "asleep" /\ amount'[w] = amount[w]
      BY <1>1, <2>2 DEF Attempt, GateTypeOK
    <3>2. credits' <= credits /\ credits' \in Int /\ credits \in Int
      BY <1>1 DEF Attempt, Enough, GateTypeOK, FlowControlAssumption
    <3>3. amount[w] \in Int
      BY DEF GateTypeOK, FlowControlAssumption
    <3> QED
      BY <3>1, <3>2, <3>3
  <2> QED
    BY <2>1, <2>2
<1>2. ASSUME NEW s \in Senders, AcquireCredits(s) PROVE credits' < amount'[w]
  <2>1. Amounts \subseteq 0 .. MaxAmount /\ amount[s] \in 0 .. MaxAmount
    BY DEF Amounts, GateTypeOK, FlowControlAssumption
  <2> QED
    BY <1>1, <1>2, <2>1 DEF AcquireCredits
<1>3. ASSUME NEW s \in Senders, GateTimeOut(s) \/ GateGiveUp(s)
      PROVE  credits' < amount'[w]
  BY <1>3 DEF GateTimeOut, GateGiveUp, GateTypeOK
<1>4. CASE GrantCredits \/ Reset
  BY <1>4 DEF GrantCredits, Reset, NotifyAll, Asleep, GateTypeOK
<1>5. CASE UNCHANGED gateVars
  BY <1>5 DEF gateVars
<1> QED
  BY <1>2, <1>3, <1>4, <1>5 DEF GateNext

(* No sender sleeps over credits that it could have, however many senders  *)
(* wait, time out, overtake one another or are reset.                      *)
THEOREM NoGrantMissed ==
    ASSUME FlowControlAssumption
    PROVE  GateSpec => []SleepersLackCredits
<1>1. GateInit => SleepersLackCredits
  BY DEF GateInit, SleepersLackCredits
<1> QED
  BY <1>1, StepSleepers, GateTypeCorrect, PTL DEF GateSpec
-----------------------------------------------------------------------------
(***************************************************************************)
(* NetworkComponents.                                                      *)
(***************************************************************************)

(* The network implements the pool and the gate.                           *)
LEMMA NetworkIsItsParts == NetworkSpec => PoolSpec /\ GateSpec
<1>1. NetworkInit => PoolInit /\ GateInit
  BY DEF NetworkInit
<1>2. [NetworkNext]_networkVars => [PoolNext]_poolVars /\ [GateNext]_gateVars
  BY DEF NetworkNext, PoolStep, GateStep, networkVars
<1> QED
  BY <1>1, <1>2, PTL DEF NetworkSpec, PoolSpec, GateSpec

(* No buffer of the executor's pool is lost or lent twice, and none is     *)
(* left for nobody, whatever its channels do.                              *)
THEOREM NetworkBuffersAccounted == NetworkSpec => []BuffersAccounted
BY BufferPoolAssumption, NetworkIsItsParts, BuffersAreAccounted

(* As long as no wait times out, no thread is left asleep over a buffer.   *)
THEOREM NetworkForgetsNobody == NetworkSpec => []NobodyForgotten
BY BufferPoolAssumption, NetworkIsItsParts, NobodyIsForgotten

(* The gate of a channel allows what its receiver allowed.                 *)
THEOREM NetworkCreditsAccounted == NetworkSpec => []CreditsAccounted
BY FlowControlAssumption, NetworkIsItsParts, CreditsAreAccounted

(* No sender on a channel sleeps over credits that it could have.          *)
THEOREM NetworkMissesNoGrant == NetworkSpec => []SleepersLackCredits
BY FlowControlAssumption, NetworkIsItsParts, NoGrantMissed
=============================================================================

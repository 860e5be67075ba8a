-------------------------- MODULE RunnerPoolProofs --------------------------
(***************************************************************************)
(* Proofs about RunnerPool, for every number of callers, slots, overflow   *)
(* permits and every recycle threshold.                                    *)
(***************************************************************************)
EXTENDS RunnerPool, FiniteSetTheorems, SequenceTheorems, TLAPS

\* What a caller's program counter says of the index and the runner it holds.
PcShape ==
    \A c \in Callers :
        /\ index[c] # NoSlot => pc[c] \in {"claimed", "driving", "answered", "parking"}
        /\ pc[c] \in {"claimed", "parking"} => index[c] # NoSlot
        /\ runner[c] # NoProc <=> pc[c] \in {"driving", "answered", "parking"}

\* The slot of a pooled lease is empty, so release never overwrites a runner.
LeasedSlotEmpty ==
    \A c \in Callers :
        index[c] # NoSlot /\ runner[c] # NoProc => slots[index[c]] = NoProc

\* The queue of the semaphore holds each waiting caller, once.
QueueShape ==
    /\ \A k \in 1 .. Len(waiters) : pc[waiters[k]] = "waiting"
    /\ \A j, k \in 1 .. Len(waiters) : waiters[j] = waiters[k] => j = k

\* A runner on its way back to its slot has been verified.
AnsweredVerified ==
    \A c \in Callers :
        pc[c] \in {"answered", "parking"} => runner[c] \notin unverified

\* No process runs that nobody holds.
NoOrphan ==
    \A p \in alive :
        (\E i \in Slots : slots[i] = p) \/ (\E c \in Callers : runner[c] = p)

\* The inductive invariant behind the pool's safety properties.
PoolInv ==
    /\ TypeOK
    /\ SlotExclusive
    /\ RunnerExclusive
    /\ ParkedVerified
    /\ PcShape
    /\ LeasedSlotEmpty
    /\ QueueShape
    /\ AnsweredVerified
    /\ NoOrphan
    /\ PermitsConserved

-----------------------------------------------------------------------------
\* The clamp of with_config_and_spawn leaves at least one permit.
LEMMA OverflowType == Overflow \in Nat \ {0}
  BY PoolConfigAssumption DEF Overflow

\* Removing a waiter keeps the others, in order and once each.
LEMMA RemoveAtSeq ==
    ASSUME NEW S, NEW s \in Seq(S), NEW k \in 1 .. Len(s)
    PROVE  /\ RemoveAt(s, k) \in Seq(S)
           /\ Len(RemoveAt(s, k)) = Len(s) - 1
           /\ \A j \in 1 .. Len(s) - 1 :
                 RemoveAt(s, k)[j] = IF j < k THEN s[j] ELSE s[j + 1]
  <1> DEFINE a == SubSeq(s, 1, k - 1)
             b == SubSeq(s, k + 1, Len(s))
  <1>0. Len(s) \in Nat /\ \A i \in 1 .. Len(s) : s[i] \in S
    OBVIOUS
  <1>1. /\ a \in Seq(S)
        /\ Len(a) = k - 1
        /\ \A i \in 1 .. k - 1 : a[i] = s[i]
    BY <1>0, SubSeqProperties
  <1>2. /\ b \in Seq(S)
        /\ Len(b) = Len(s) - k
        /\ \A i \in 1 .. Len(s) - k : b[i] = s[k + i]
    BY <1>0, SubSeqProperties
  <1>3. RemoveAt(s, k) = a \o b
    BY DEF RemoveAt
  <1> HIDE DEF a, b
  <1>4. /\ a \o b \in Seq(S)
        /\ Len(a \o b) = Len(a) + Len(b)
        /\ \A i \in 1 .. Len(a) + Len(b) :
              (a \o b)[i] = IF i <= Len(a) THEN a[i] ELSE b[i - Len(a)]
    BY <1>1, <1>2, ConcatProperties
  <1> QED
    BY <1>0, <1>1, <1>2, <1>3, <1>4

\* What the sequence operators of the free list and the queue do.
LEMMA PopFront ==
    ASSUME NEW S, NEW s \in Seq(S), s # << >>
    PROVE  /\ Len(s) \in Nat \ {0}
           /\ Head(s) = s[1]
           /\ Head(s) \in S
           /\ Tail(s) \in Seq(S)
           /\ Len(Tail(s)) = Len(s) - 1
           /\ \A k \in 1 .. Len(s) - 1 : Tail(s)[k] = s[k + 1]
  BY HeadTailProperties, EmptySeq

\* Appending at the back of the free list or of the queue.
LEMMA PushBack ==
    ASSUME NEW S, NEW s \in Seq(S), NEW e \in S
    PROVE  /\ Len(s) \in Nat
           /\ Append(s, e) \in Seq(S)
           /\ Len(Append(s, e)) = Len(s) + 1
           /\ \A k \in 1 .. Len(s) + 1 :
                 Append(s, e)[k] = IF k = Len(s) + 1 THEN e ELSE s[k]
  BY AppendProperties

\* The invariant holds in the new pool.
LEMMA PoolInit == Init => PoolInv
  <1> SUFFICES ASSUME Init PROVE PoolInv
    OBVIOUS
  <1> USE PoolConfigAssumption DEF Slots, NoSlot
  <1>1. TypeOK
    BY OverflowType DEF Init, TypeOK, PCs
  <1>2. SlotExclusive /\ RunnerExclusive /\ ParkedVerified
    BY DEF Init, SlotExclusive, RunnerExclusive, ParkedVerified
  <1>3. PcShape /\ LeasedSlotEmpty /\ QueueShape /\ AnsweredVerified /\ NoOrphan
    BY DEF Init, PcShape, LeasedSlotEmpty, QueueShape, AnsweredVerified, NoOrphan
  <1>4. PermitsConserved
    <2>1. {c \in Callers : HoldsPermit(c)} = {}
      BY DEF Init, HoldsPermit
    <2>2. Cardinality({c \in Callers : HoldsPermit(c)}) = 0
      BY <2>1, FS_EmptySet
    <2>3. permits = Overflow /\ waiters = << >>
      BY DEF Init
    <2> QED
      BY <2>2, <2>3, OverflowType DEF PermitsConserved
  <1> QED
    BY <1>1, <1>2, <1>3, <1>4 DEF PoolInv

\* The sentinel is not a slot.
LEMMA NoSlotType == NoSlot \notin Slots
  BY PoolConfigAssumption DEF Slots, NoSlot

\* The callers that hold a permit, and how their number follows a step.
Holders == {c \in Callers : HoldsPermit(c)}

\* The permit holders can be counted.
LEMMA HoldersFinite ==
    IsFiniteSet(Holders) /\ Cardinality(Holders) \in Nat
  <1>1. Holders \in SUBSET Callers
    BY DEF Holders
  <1> QED
    BY <1>1, FiniteCallersAssumption, FS_Subset, FS_CardinalityType

\* The books, with the set of permit holders named.
LEMMA Books ==
    PermitsConserved => /\ permits + Cardinality(Holders) = Overflow
                        /\ permits > 0 => waiters = << >>
  BY DEF PermitsConserved, Holders

\* The books after a step, with the set of permit holders named.
LEMMA BooksPrime ==
    ASSUME permits' + Cardinality(Holders') = Overflow,
           permits' > 0 => waiters' = << >>
    PROVE  PermitsConserved'
  <1>1. Holders' = {c \in Callers : HoldsPermit(c)'}
    BY DEF Holders
  <1>2. Overflow' = Overflow
    BY DEF Overflow
  <1> QED
    BY <1>1, <1>2 DEF PermitsConserved

\* A step that changes no holder and no permit keeps the books.
LEMMA SameHolders ==
    ASSUME PermitsConserved, Holders' = Holders, permits' = permits,
           waiters' = waiters
    PROVE  PermitsConserved'
  BY Books, BooksPrime

\* A permit holder means that not all permits are available.
LEMMA HolderTookPermit ==
    ASSUME TypeOK, PermitsConserved, NEW c \in Holders
    PROVE  permits < Overflow
  <1>1. Cardinality(Holders) # 0
    BY HoldersFinite, FS_EmptySet
  <1>2. permits + Cardinality(Holders) = Overflow
    BY DEF PermitsConserved, Holders
  <1>3. permits \in Nat
    BY OverflowType DEF TypeOK
  <1> QED
    BY <1>1, <1>2, <1>3, HoldersFinite, OverflowType

\* return_slot: pushing back an index its holder gives up keeps every index in
\* one place.
LEMMA ReturnSlot ==
    ASSUME TypeOK, SlotExclusive, NEW c \in Callers, index[c] \in Slots,
           free_slots' = Append(free_slots, index[c]),
           index' = [index EXCEPT ![c] = NoSlot]
    PROVE  /\ free_slots' \in Seq(Slots)
           /\ index' \in [Callers -> Slots \cup {NoSlot}]
           /\ SlotExclusive'
  <1>1. free_slots \in Seq(Slots) /\ index \in [Callers -> Slots \cup {NoSlot}]
    BY DEF TypeOK
  <1>2. /\ Len(free_slots) \in Nat
        /\ free_slots' \in Seq(Slots)
        /\ Len(free_slots') = Len(free_slots) + 1
        /\ \A k \in 1 .. Len(free_slots) + 1 :
              free_slots'[k] = IF k = Len(free_slots) + 1 THEN index[c] ELSE free_slots[k]
    BY <1>1, PushBack
  <1>3. \A k \in 1 .. Len(free_slots) : free_slots[k] \in Slots
    BY <1>1
  <1>4. index' = [index EXCEPT ![c] = NoSlot]
    OBVIOUS
  <1>5. \A j, k \in 1 .. Len(free_slots') : free_slots'[j] = free_slots'[k] => j = k
    BY <1>2 DEF SlotExclusive
  <1>6. \A d, e \in Callers : index'[d] # NoSlot /\ index'[d] = index'[e] => d = e
    BY <1>1, <1>4 DEF SlotExclusive
  <1>7. \A d \in Callers, k \in 1 .. Len(free_slots') : index'[d] # free_slots'[k]
    BY <1>1, <1>2, <1>3, <1>4, NoSlotType DEF SlotExclusive
  <1> QED
    BY <1>1, <1>2, <1>4, <1>5, <1>6, <1>7 DEF SlotExclusive

-----------------------------------------------------------------------------
\* Each action preserves the invariant.

\* checkout: an index is popped, a permit taken, or the caller queues.
LEMMA CheckoutInv ==
    ASSUME PoolInv, NEW c \in Callers, Checkout(c)
    PROVE  PoolInv'
  <1> USE NoSlotType
  <1>0. /\ TypeOK /\ SlotExclusive /\ RunnerExclusive /\ ParkedVerified
        /\ PcShape /\ LeasedSlotEmpty /\ QueueShape /\ AnsweredVerified
        /\ NoOrphan /\ PermitsConserved
    BY DEF PoolInv
  <1>1. pc[c] = "idle" /\ index[c] = NoSlot /\ runner[c] = NoProc
    BY <1>0 DEF Checkout, PcShape
  <1>2. CASE free_slots # << >>
    <2>0. /\ index' = [index EXCEPT ![c] = Head(free_slots)]
          /\ free_slots' = Tail(free_slots)
          /\ pc' = [pc EXCEPT ![c] = "claimed"]
          /\ UNCHANGED << permits, waiters, slots, runner, executions, alive,
                          unverified >>
      BY <1>2 DEF Checkout
    <2>1. free_slots \in Seq(Slots)
      BY <1>0 DEF TypeOK
    <2>2. /\ Len(free_slots) \in Nat \ {0}
          /\ Head(free_slots) = free_slots[1]
          /\ Head(free_slots) \in Slots
          /\ free_slots' \in Seq(Slots)
          /\ Len(free_slots') = Len(free_slots) - 1
          /\ \A k \in 1 .. Len(free_slots) - 1 :
                free_slots'[k] = free_slots[k + 1]
      BY <1>2, <2>0, <2>1, PopFront
    <2>3. TypeOK'
      BY <1>0, <2>0, <2>2 DEF TypeOK, PCs
    <2>4. SlotExclusive'
      BY <1>0, <1>1, <2>0, <2>2 DEF TypeOK, SlotExclusive
    <2>5. RunnerExclusive' /\ ParkedVerified' /\ NoOrphan'
      BY <1>0, <2>0 DEF RunnerExclusive, ParkedVerified, NoOrphan
    <2>6. PcShape' /\ LeasedSlotEmpty' /\ AnsweredVerified'
      BY <1>0, <1>1, <2>0, <2>2 DEF TypeOK, PcShape, LeasedSlotEmpty, AnsweredVerified
    <2>7. QueueShape'
      BY <1>0, <1>1, <2>0 DEF TypeOK, QueueShape
    <2>8. Holders' = Holders
      BY <1>0, <1>1, <2>0 DEF TypeOK, Holders, HoldsPermit
    <2> QED
      BY <1>0, <2>0, <2>3, <2>4, <2>5, <2>6, <2>7, <2>8, SameHolders DEF PoolInv
  <1>3. CASE free_slots = << >> /\ permits > 0
    <2>0. /\ permits' = permits - 1
          /\ pc' = [pc EXCEPT ![c] = "granted"]
          /\ UNCHANGED << free_slots, index, waiters, slots, runner, executions,
                          alive, unverified >>
      BY <1>0, <1>3, OverflowType DEF Checkout, TypeOK
    <2>1. TypeOK'
      BY <1>0, <1>3, <2>0, OverflowType DEF TypeOK, PCs
    <2>2. SlotExclusive' /\ RunnerExclusive' /\ ParkedVerified' /\ NoOrphan'
      BY <1>0, <2>0 DEF SlotExclusive, RunnerExclusive, ParkedVerified, NoOrphan
    <2>3. PcShape' /\ LeasedSlotEmpty' /\ AnsweredVerified' /\ QueueShape'
      BY <1>0, <1>1, <2>0
      DEF TypeOK, PcShape, LeasedSlotEmpty, AnsweredVerified, QueueShape
    <2>4. Holders' = Holders \cup {c} /\ c \notin Holders
      BY <1>0, <1>1, <2>0 DEF TypeOK, Holders, HoldsPermit
    <2>5. Cardinality(Holders') = Cardinality(Holders) + 1
      BY <2>4, HoldersFinite, FS_AddElement
    <2>6. PermitsConserved'
      BY <1>0, <1>3, <2>0, <2>5, OverflowType, HoldersFinite, Books, BooksPrime
      DEF TypeOK
    <2> QED
      BY <2>1, <2>2, <2>3, <2>6 DEF PoolInv
  <1>4. CASE free_slots = << >> /\ permits = 0
    <2>0. /\ waiters' = Append(waiters, c)
          /\ pc' = [pc EXCEPT ![c] = "waiting"]
          /\ UNCHANGED << free_slots, index, permits, slots, runner, executions,
                          alive, unverified >>
      BY <1>4 DEF Checkout
    <2>1. waiters \in Seq(Callers)
      BY <1>0 DEF TypeOK
    <2>2. /\ Len(waiters) \in Nat
          /\ waiters' \in Seq(Callers)
          /\ Len(waiters') = Len(waiters) + 1
          /\ \A k \in 1 .. Len(waiters) + 1 :
                waiters'[k] = IF k = Len(waiters) + 1 THEN c ELSE waiters[k]
      BY <2>0, <2>1, PushBack
    <2>3. /\ pc' = [pc EXCEPT ![c] = "waiting"]
          /\ UNCHANGED << free_slots, index, permits, slots, runner, executions,
                          alive, unverified >>
      BY <2>0
    <2>4. TypeOK'
      BY <1>0, <2>2, <2>3 DEF TypeOK, PCs
    <2>5. SlotExclusive' /\ RunnerExclusive' /\ ParkedVerified' /\ NoOrphan'
      BY <1>0, <2>3 DEF SlotExclusive, RunnerExclusive, ParkedVerified, NoOrphan
    <2>6. PcShape' /\ LeasedSlotEmpty' /\ AnsweredVerified'
      BY <1>0, <1>1, <2>3 DEF TypeOK, PcShape, LeasedSlotEmpty, AnsweredVerified
    <2>7. QueueShape'
      <3>1. \A k \in 1 .. Len(waiters) : waiters[k] # c /\ waiters[k] \in Callers
        BY <1>0, <1>1, <2>1 DEF QueueShape
      <3>2. \A d \in Callers : pc'[d] = IF d = c THEN "waiting" ELSE pc[d]
        BY <1>0, <2>3 DEF TypeOK
      <3>4. \A k \in 1 .. Len(waiters') : pc'[waiters'[k]] = "waiting"
        BY <1>0, <2>2, <3>1, <3>2 DEF QueueShape
      <3>3. \A j, k \in 1 .. Len(waiters') : waiters'[j] = waiters'[k] => j = k
        BY <1>0, <2>2, <3>1 DEF QueueShape
      <3> QED
        BY <3>3, <3>4 DEF QueueShape
    <2>8. Holders' = Holders
      BY <1>0, <1>1, <2>3 DEF TypeOK, Holders, HoldsPermit
    <2>9. PermitsConserved'
      BY <1>0, <1>4, <2>3, <2>8, Books, BooksPrime
    <2> QED
      BY <2>4, <2>5, <2>6, <2>7, <2>9 DEF PoolInv
  <1> QED
    BY <1>0, <1>2, <1>3, <1>4, OverflowType DEF TypeOK

\* Creating a lease with a new process, pooled or ephemeral.
LEMMA SpawnInv ==
    ASSUME PoolInv, NEW c \in Callers, pc[c] \in {"claimed", "granted"},
           pc[c] = "claimed" => slots[index[c]] = NoProc,
           NEW p \in Procs, SpawnInto(c, p),
           UNCHANGED << free_slots, slots, permits, waiters, index >>
    PROVE  PoolInv'
  <1> USE NoSlotType, PoolConfigAssumption
  <1>0. /\ TypeOK /\ SlotExclusive /\ RunnerExclusive /\ ParkedVerified
        /\ PcShape /\ LeasedSlotEmpty /\ QueueShape /\ AnsweredVerified
        /\ NoOrphan /\ PermitsConserved
    BY DEF PoolInv
  <1>1. /\ p \notin alive
        /\ \A i \in Slots : slots[i] # p
        /\ \A d \in Callers : runner[d] # p
    BY DEF SpawnInto, Handles
  <1>2. /\ runner' = [runner EXCEPT ![c] = p]
        /\ executions' = [executions EXCEPT ![p] = 0]
        /\ alive' = alive \cup {p}
        /\ unverified' = unverified \cup {p}
        /\ pc' = [pc EXCEPT ![c] = "driving"]
    BY DEF SpawnInto
  <1>3. TypeOK'
    BY <1>0, <1>2 DEF TypeOK, PCs
  <1>4. SlotExclusive' /\ ParkedVerified'
    BY <1>0, <1>1, <1>2 DEF SlotExclusive, ParkedVerified
  <1>5. RunnerExclusive'
    BY <1>0, <1>1, <1>2 DEF TypeOK, RunnerExclusive
  <1>6. runner[c] = NoProc
    BY <1>0 DEF PcShape
  <1>7. NoOrphan'
    <2> SUFFICES ASSUME NEW q \in alive'
                 PROVE  (\E j \in Slots : slots'[j] = q) \/ (\E d \in Callers : runner'[d] = q)
      BY DEF NoOrphan
    <2>1. CASE q = p
      BY <2>1, <1>0, <1>2 DEF TypeOK
    <2>2. CASE q \in alive
      BY <2>2, <1>0, <1>2, <1>6 DEF TypeOK, NoOrphan
    <2> QED
      BY <2>1, <2>2, <1>2
  <1>8. PcShape' /\ LeasedSlotEmpty'
    BY <1>0, <1>2 DEF TypeOK, PcShape, LeasedSlotEmpty
  <1>9. AnsweredVerified'
    BY <1>0, <1>1, <1>2 DEF TypeOK, AnsweredVerified
  <1>10. QueueShape'
    BY <1>0, <1>2 DEF TypeOK, QueueShape
  <1>11. Holders' = Holders
    BY <1>0, <1>2 DEF TypeOK, PcShape, Holders, HoldsPermit
  <1> QED
    BY <1>0, <1>3, <1>4, <1>5, <1>7, <1>8, <1>9, <1>10, <1>11, SameHolders DEF PoolInv

\* take_or_spawn_slot of a parked runner: it moves from the slot to the lease.
LEMMA TakeParkedInv ==
    ASSUME PoolInv, NEW c \in Callers, TakeParked(c)
    PROVE  PoolInv'
  <1> USE NoSlotType, PoolConfigAssumption
  <1>0. /\ TypeOK /\ SlotExclusive /\ RunnerExclusive /\ ParkedVerified
        /\ PcShape /\ LeasedSlotEmpty /\ QueueShape /\ AnsweredVerified
        /\ NoOrphan /\ PermitsConserved
    BY DEF PoolInv
  <1>1. PICK i \in Slots : i = index[c] /\ slots[i] \in Procs
    BY <1>0 DEF TypeOK, PcShape, TakeParked
  <1>2. /\ pc[c] = "claimed" /\ runner[c] = NoProc
        /\ runner' = [runner EXCEPT ![c] = slots[i]]
        /\ unverified' = unverified \cup {slots[i]}
        /\ slots' = [slots EXCEPT ![i] = NoProc]
        /\ pc' = [pc EXCEPT ![c] = "driving"]
        /\ UNCHANGED << free_slots, permits, waiters, index, executions, alive >>
    BY <1>0, <1>1 DEF TakeParked, PcShape
  <1>3. TypeOK'
    BY <1>0, <1>1, <1>2 DEF TypeOK, PCs
  <1>4. SlotExclusive'
    BY <1>0, <1>2 DEF SlotExclusive
  <1>5. RunnerExclusive'
    BY <1>0, <1>1, <1>2 DEF TypeOK, RunnerExclusive
  <1>6. ParkedVerified'
    BY <1>0, <1>1, <1>2 DEF TypeOK, ParkedVerified, RunnerExclusive
  <1>7. NoOrphan'
    <2> SUFFICES ASSUME NEW p \in alive
                 PROVE  (\E j \in Slots : slots'[j] = p) \/ (\E d \in Callers : runner'[d] = p)
      BY <1>2 DEF NoOrphan
    <2>0. p \in Procs
      BY <1>0 DEF TypeOK
    <2>1. CASE \E d \in Callers : runner[d] = p
      BY <2>0, <2>1, <1>0, <1>2 DEF TypeOK
    <2>2. CASE \E j \in Slots : slots[j] = p
      BY <2>2, <1>0, <1>1, <1>2 DEF TypeOK
    <2> QED
      BY <2>1, <2>2, <1>0 DEF NoOrphan
  <1>8. PcShape' /\ LeasedSlotEmpty'
    BY <1>0, <1>1, <1>2 DEF TypeOK, PcShape, LeasedSlotEmpty
  <1>9. AnsweredVerified'
    BY <1>0, <1>1, <1>2 DEF TypeOK, PcShape, AnsweredVerified, RunnerExclusive
  <1>10. QueueShape'
    BY <1>0, <1>2 DEF TypeOK, QueueShape
  <1>11. Holders' = Holders
    BY <1>0, <1>1, <1>2 DEF TypeOK, Holders, HoldsPermit
  <1> QED
    BY <1>0, <1>2, <1>3, <1>4, <1>5, <1>6, <1>7, <1>8, <1>9, <1>10, <1>11, SameHolders
    DEF PoolInv

\* Leaving "claimed" without a lease, whether or not the index is pushed back.
LEMMA LeaveClaimInv ==
    ASSUME PoolInv, NEW c \in Callers, SpawnPooledFails(c) \/ CancelClaim(c)
    PROVE  PoolInv'
  <1> USE NoSlotType
  <1>0. /\ TypeOK /\ SlotExclusive /\ RunnerExclusive /\ ParkedVerified
        /\ PcShape /\ LeasedSlotEmpty /\ QueueShape /\ AnsweredVerified
        /\ NoOrphan /\ PermitsConserved
    BY DEF PoolInv
  <1>1. pc[c] = "claimed" /\ index[c] \in Slots /\ runner[c] = NoProc
    BY <1>0 DEF TypeOK, PcShape, SpawnPooledFails, CancelClaim
  <1>2. /\ index' = [index EXCEPT ![c] = NoSlot]
        /\ pc' = [pc EXCEPT ![c] = "idle"]
        /\ UNCHANGED << slots, permits, waiters, runner, executions, alive,
                        unverified >>
    BY DEF SpawnPooledFails, CancelClaim
  <1>3. RunnerExclusive' /\ ParkedVerified' /\ NoOrphan'
    BY <1>0, <1>2 DEF RunnerExclusive, ParkedVerified, NoOrphan
  <1>4. PcShape' /\ LeasedSlotEmpty' /\ AnsweredVerified'
    BY <1>0, <1>1, <1>2 DEF TypeOK, PcShape, LeasedSlotEmpty, AnsweredVerified
  <1>5. QueueShape'
    BY <1>0, <1>1, <1>2 DEF TypeOK, QueueShape
  <1>6. TypeOK' /\ SlotExclusive'
    <2>1. CASE free_slots' = free_slots
      BY <1>0, <1>1, <1>2, <2>1 DEF TypeOK, PCs, SlotExclusive
    <2>2. CASE free_slots' = Append(free_slots, index[c])
      <3>1. free_slots' \in Seq(Slots) /\ SlotExclusive'
        BY <1>0, <1>1, <1>2, <2>2, ReturnSlot
      <3> QED
        BY <1>0, <1>2, <3>1 DEF TypeOK, PCs
    <2> QED
      BY <2>1, <2>2 DEF SpawnPooledFails, CancelClaim
  <1>7. Holders' = Holders
    BY <1>0, <1>1, <1>2 DEF TypeOK, Holders, HoldsPermit
  <1> QED
    BY <1>0, <1>2, <1>3, <1>4, <1>5, <1>6, <1>7, SameHolders DEF PoolInv

\* Dropping a permit: it becomes available, or the first waiter holds it.
LEMMA ReturnPermitInv ==
    ASSUME TypeOK, QueueShape, PermitsConserved, NEW c \in Callers,
           c \in Holders, index[c] = NoSlot, index' = index,
           \A d \in Callers : pc[d] = "waiting" => index[d] = NoSlot,
           ReturnPermit([pc EXCEPT ![c] = "idle"])
    PROVE  /\ permits' \in 0 .. Overflow
           /\ waiters' \in Seq(Callers)
           /\ pc' \in [Callers -> PCs]
           /\ pc'[c] = "idle"
           /\ \A d \in Callers \ {c} :
                 pc'[d] = pc[d] \/ (pc[d] = "waiting" /\ pc'[d] = "granted")
           /\ QueueShape'
           /\ PermitsConserved'
  <1>0. /\ pc \in [Callers -> PCs] /\ waiters \in Seq(Callers)
        /\ permits \in Nat /\ permits <= Overflow
        /\ permits + Cardinality(Holders) = Overflow
        /\ permits > 0 => waiters = << >>
        /\ pc[c] # "waiting"
    BY OverflowType DEF TypeOK, PermitsConserved, Holders, HoldsPermit
  <1>1. IsFiniteSet(Holders \ {c}) /\ Cardinality(Holders \ {c}) = Cardinality(Holders) - 1
    BY HoldersFinite, FS_RemoveElement
  <1>2. CASE waiters = << >>
    <2>1. /\ permits' = permits + 1
          /\ pc' = [pc EXCEPT ![c] = "idle"]
          /\ waiters' = waiters
      BY <1>2 DEF ReturnPermit
    <2>2. permits' \in 0 .. Overflow
      BY <1>0, <2>1, HolderTookPermit, OverflowType
    <2>3. QueueShape'
      BY <1>2, <2>1 DEF QueueShape
    <2>4. Holders' = Holders \ {c}
      BY <1>0, <2>1 DEF Holders, HoldsPermit
    <2>5. PermitsConserved'
      BY <1>0, <1>1, <1>2, <2>1, <2>4, HoldersFinite, OverflowType, BooksPrime
    <2> QED
      BY <1>0, <2>1, <2>2, <2>3, <2>5 DEF PCs
  <1>3. CASE waiters # << >>
    <2> DEFINE h == Head(waiters)
    <2>1. /\ waiters' = Tail(waiters)
          /\ pc' = [pc EXCEPT ![c] = "idle", ![h] = "granted"]
          /\ permits' = permits
      BY <1>3 DEF ReturnPermit
    <2>2. /\ Len(waiters) \in Nat \ {0}
          /\ h = waiters[1]
          /\ h \in Callers
          /\ waiters' \in Seq(Callers)
          /\ Len(waiters') = Len(waiters) - 1
          /\ \A k \in 1 .. Len(waiters) - 1 : waiters'[k] = waiters[k + 1]
      BY <1>0, <1>3, <2>1, PopFront
    <2> HIDE DEF h
    <2>3. pc[h] = "waiting" /\ h # c
      BY <1>0, <2>2 DEF QueueShape
    <2>4. /\ pc' = [pc EXCEPT ![c] = "idle", ![h] = "granted"]
          /\ permits' = permits
      BY <2>1
    <2>5. QueueShape'
      <3>1. \A k \in 1 .. Len(waiters) : waiters[k] \in Callers
        BY <1>0
      <3>2. \A k \in 1 .. Len(waiters') : pc'[waiters'[k]] = "waiting"
        BY <1>0, <2>2, <2>3, <2>4, <3>1 DEF QueueShape
      <3>3. \A j, k \in 1 .. Len(waiters') : waiters'[j] = waiters'[k] => j = k
        BY <2>2 DEF QueueShape
      <3> QED
        BY <3>2, <3>3 DEF QueueShape
    <2>6. h \notin Holders \ {c} /\ Holders' = (Holders \ {c}) \cup {h}
      BY <1>0, <2>2, <2>3, <2>4 DEF Holders, HoldsPermit
    <2>7. Cardinality(Holders') = Cardinality(Holders)
      <3>1. Cardinality((Holders \ {c}) \cup {h}) = Cardinality(Holders \ {c}) + 1
        BY <1>1, <2>6, FS_AddElement
      <3> QED
        BY <1>1, <2>6, <3>1, HoldersFinite
    <2>8. PermitsConserved'
      BY <1>0, <1>3, <2>4, <2>7, HoldersFinite, OverflowType, BooksPrime
    <2> QED
      BY <1>0, <2>2, <2>3, <2>4, <2>5, <2>8 DEF PCs
  <1> QED
    BY <1>2, <1>3

\* An assigned permit that is not used goes to the next waiter or back.
LEMMA GiveUpGrantInv ==
    ASSUME PoolInv, NEW c \in Callers, GiveUpGrant(c)
    PROVE  PoolInv'
  <1> USE NoSlotType
  <1>0. /\ TypeOK /\ SlotExclusive /\ RunnerExclusive /\ ParkedVerified
        /\ PcShape /\ LeasedSlotEmpty /\ QueueShape /\ AnsweredVerified
        /\ NoOrphan /\ PermitsConserved
    BY DEF PoolInv
  <1>1. /\ pc[c] = "granted" /\ index[c] = NoSlot /\ runner[c] = NoProc
        /\ c \in Holders
        /\ \A d \in Callers : pc[d] = "waiting" => index[d] = NoSlot
        /\ UNCHANGED << free_slots, slots, index, runner, executions, alive,
                        unverified >>
    BY <1>0 DEF GiveUpGrant, PcShape, Holders, HoldsPermit
  <1>2. /\ permits' \in 0 .. Overflow
        /\ waiters' \in Seq(Callers)
        /\ pc' \in [Callers -> PCs]
        /\ pc'[c] = "idle"
        /\ \A d \in Callers \ {c} :
              pc'[d] = pc[d] \/ (pc[d] = "waiting" /\ pc'[d] = "granted")
        /\ QueueShape'
        /\ PermitsConserved'
    BY <1>0, <1>1, ReturnPermitInv DEF GiveUpGrant
  <1>3. TypeOK'
    BY <1>0, <1>1, <1>2 DEF TypeOK
  <1>4. SlotExclusive' /\ RunnerExclusive' /\ ParkedVerified' /\ NoOrphan'
        /\ LeasedSlotEmpty'
    BY <1>0, <1>1 DEF SlotExclusive, RunnerExclusive, ParkedVerified, NoOrphan,
                      LeasedSlotEmpty
  <1>5. PcShape'
    BY <1>0, <1>1, <1>2 DEF PcShape
  <1>6. AnsweredVerified'
    BY <1>0, <1>1, <1>2 DEF AnsweredVerified
  <1> QED
    BY <1>2, <1>3, <1>4, <1>5, <1>6 DEF PoolInv

\* A cancelled waiter leaves the queue; it held no permit.
LEMMA CancelWaitInv ==
    ASSUME PoolInv, NEW c \in Callers, CancelWait(c)
    PROVE  PoolInv'
  <1> USE NoSlotType
  <1>0. /\ TypeOK /\ SlotExclusive /\ RunnerExclusive /\ ParkedVerified
        /\ PcShape /\ LeasedSlotEmpty /\ QueueShape /\ AnsweredVerified
        /\ NoOrphan /\ PermitsConserved
    BY DEF PoolInv
  <1>1. PICK k \in 1 .. Len(waiters) :
            waiters[k] = c /\ waiters' = RemoveAt(waiters, k)
    BY DEF CancelWait
  <1>2. waiters \in Seq(Callers)
    BY <1>0 DEF TypeOK
  <1>3. /\ waiters' \in Seq(Callers)
        /\ Len(waiters) \in Nat
        /\ Len(waiters') = Len(waiters) - 1
        /\ \A j \in 1 .. Len(waiters) - 1 :
              waiters'[j] = IF j < k THEN waiters[j] ELSE waiters[j + 1]
    <2>1. Len(waiters) \in Nat
      BY <1>2
    <2>2. /\ RemoveAt(waiters, k) \in Seq(Callers)
          /\ Len(RemoveAt(waiters, k)) = Len(waiters) - 1
          /\ \A j \in 1 .. Len(waiters) - 1 :
                RemoveAt(waiters, k)[j] = IF j < k THEN waiters[j] ELSE waiters[j + 1]
      BY <1>2, RemoveAtSeq
    <2> QED
      BY <1>1, <2>1, <2>2
  <1>4. /\ pc[c] = "waiting" /\ index[c] = NoSlot /\ runner[c] = NoProc
        /\ pc' = [pc EXCEPT ![c] = "idle"]
        /\ UNCHANGED << free_slots, slots, permits, index, runner, executions,
                        alive, unverified >>
    BY <1>0 DEF CancelWait, PcShape
  <1>5. TypeOK'
    BY <1>0, <1>3, <1>4 DEF TypeOK, PCs
  <1>6. SlotExclusive' /\ RunnerExclusive' /\ ParkedVerified' /\ NoOrphan'
        /\ LeasedSlotEmpty'
    BY <1>0, <1>4 DEF SlotExclusive, RunnerExclusive, ParkedVerified, NoOrphan,
                      LeasedSlotEmpty
  <1>7. PcShape' /\ AnsweredVerified'
    BY <1>0, <1>4 DEF TypeOK, PcShape, AnsweredVerified
  <1>8. QueueShape'
    <2>1. \A j \in 1 .. Len(waiters) : waiters[j] \in Callers
      BY <1>2
    <2>2. \A j \in 1 .. Len(waiters') : waiters'[j] # c
      BY <1>0, <1>1, <1>3 DEF QueueShape
    <2>5. \A d \in Callers \ {c} : pc'[d] = pc[d]
      BY <1>0, <1>4 DEF TypeOK
    <2>3. \A j \in 1 .. Len(waiters') : pc'[waiters'[j]] = "waiting"
      BY <1>0, <1>3, <2>1, <2>2, <2>5 DEF QueueShape
    <2>4. \A i, j \in 1 .. Len(waiters') : waiters'[i] = waiters'[j] => i = j
      BY <1>0, <1>1, <1>3 DEF QueueShape
    <2> QED
      BY <2>3, <2>4 DEF QueueShape
  <1>9. Holders' = Holders
    BY <1>0, <1>4 DEF TypeOK, Holders, HoldsPermit
  <1>10. ~(permits > 0)
    <2>1. waiters # << >>
      BY <1>1, <1>2
    <2> QED
      BY <1>0, <2>1 DEF PermitsConserved
  <1>11. PermitsConserved'
    BY <1>0, <1>4, <1>9, <1>10, Books, BooksPrime
  <1> QED
    BY <1>5, <1>6, <1>7, <1>8, <1>11 DEF PoolInv

\* Reading Done or Error verifies the runner.
LEMMA AnswerInv ==
    ASSUME PoolInv, NEW c \in Callers, Answer(c)
    PROVE  PoolInv'
  <1>0. /\ TypeOK /\ SlotExclusive /\ RunnerExclusive /\ ParkedVerified
        /\ PcShape /\ LeasedSlotEmpty /\ QueueShape /\ AnsweredVerified
        /\ NoOrphan /\ PermitsConserved
    BY DEF PoolInv
  <1>1. /\ pc[c] = "driving"
        /\ unverified' = unverified \ {runner[c]}
        /\ pc' = [pc EXCEPT ![c] = "answered"]
        /\ UNCHANGED << free_slots, slots, permits, waiters, index, runner,
                        executions, alive >>
    BY DEF Answer
  <1>2. TypeOK'
    BY <1>0, <1>1 DEF TypeOK, PCs
  <1>3. SlotExclusive' /\ RunnerExclusive' /\ ParkedVerified' /\ NoOrphan'
        /\ LeasedSlotEmpty'
    BY <1>0, <1>1 DEF SlotExclusive, RunnerExclusive, ParkedVerified, NoOrphan,
                      LeasedSlotEmpty
  <1>4. PcShape' /\ AnsweredVerified'
    BY <1>0, <1>1 DEF TypeOK, PcShape, AnsweredVerified
  <1>5. QueueShape'
    BY <1>0, <1>1 DEF TypeOK, QueueShape
  <1>6. Holders' = Holders
    BY <1>0, <1>1 DEF TypeOK, Holders, HoldsPermit
  <1> QED
    BY <1>0, <1>1, <1>2, <1>3, <1>4, <1>5, <1>6, SameHolders DEF PoolInv

\* release() of a pooled lease below the recycle threshold, up to the lock.
LEMMA StartParkingInv ==
    ASSUME PoolInv, NEW c \in Callers, pc[c] = "answered", index[c] # NoSlot,
           executions[runner[c]] + 1 < RecycleAfter,
           executions' = [executions EXCEPT ![runner[c]] = @ + 1],
           pc' = [pc EXCEPT ![c] = "parking"],
           UNCHANGED << free_slots, slots, permits, waiters, index, runner,
                        alive, unverified >>
    PROVE  PoolInv'
  <1>0. /\ TypeOK /\ SlotExclusive /\ RunnerExclusive /\ ParkedVerified
        /\ PcShape /\ LeasedSlotEmpty /\ QueueShape /\ AnsweredVerified
        /\ NoOrphan /\ PermitsConserved
    BY DEF PoolInv
  <1>1. runner[c] \in Procs
    BY <1>0 DEF TypeOK, PcShape
  <1>2. TypeOK'
    <2>1. executions' \in [Procs -> 0 .. RecycleAfter - 1]
      BY <1>0, <1>1, PoolConfigAssumption DEF TypeOK
    <2> QED
      BY <1>0, <2>1 DEF TypeOK, PCs
  <1>3. SlotExclusive' /\ RunnerExclusive' /\ ParkedVerified' /\ NoOrphan'
        /\ LeasedSlotEmpty'
    BY <1>0 DEF SlotExclusive, RunnerExclusive, ParkedVerified, NoOrphan,
                LeasedSlotEmpty
  <1>4. PcShape' /\ AnsweredVerified'
    BY <1>0 DEF TypeOK, PcShape, AnsweredVerified
  <1>5. QueueShape'
    BY <1>0 DEF TypeOK, QueueShape
  <1>6. Holders' = Holders
    BY <1>0 DEF TypeOK, Holders, HoldsPermit
  <1> QED
    BY <1>0, <1>2, <1>3, <1>4, <1>5, <1>6, SameHolders DEF PoolInv

\* The bookkeeping at the end of a lease, pooled or ephemeral.
LEMMA FinishLeaseInv ==
    ASSUME TypeOK, SlotExclusive, PcShape, QueueShape, PermitsConserved,
           NEW c \in Callers, pc[c] \in {"driving", "answered", "parking"},
           FinishLease(c)
    PROVE  /\ free_slots' \in Seq(Slots)
           /\ index' = [index EXCEPT ![c] = NoSlot]
           /\ permits' \in 0 .. Overflow
           /\ waiters' \in Seq(Callers)
           /\ pc' \in [Callers -> PCs]
           /\ pc'[c] = "idle"
           /\ \A d \in Callers \ {c} :
                 pc'[d] = pc[d] \/ (pc[d] = "waiting" /\ pc'[d] = "granted")
           /\ SlotExclusive' /\ QueueShape' /\ PermitsConserved'
  <1> USE NoSlotType
  <1>0. /\ free_slots \in Seq(Slots) /\ waiters \in Seq(Callers)
        /\ permits \in 0 .. Overflow /\ pc \in [Callers -> PCs]
        /\ index \in [Callers -> Slots \cup {NoSlot}]
    BY DEF TypeOK
  <1>1. CASE index[c] # NoSlot
    <2>1. /\ free_slots' = Append(free_slots, index[c])
          /\ index' = [index EXCEPT ![c] = NoSlot]
          /\ pc' = [pc EXCEPT ![c] = "idle"]
          /\ UNCHANGED << permits, waiters >>
      BY <1>1 DEF FinishLease
    <2>2. index[c] \in Slots
      BY <1>0, <1>1
    <2>3. free_slots' \in Seq(Slots) /\ SlotExclusive'
      BY <2>1, <2>2, ReturnSlot
    <2>4. QueueShape'
      BY <1>0, <2>1 DEF QueueShape
    <2>5. Holders' = Holders
      BY <1>0, <1>1, <2>1 DEF Holders, HoldsPermit
    <2>6. PermitsConserved'
      BY <2>1, <2>5, SameHolders
    <2>7. pc' \in [Callers -> PCs] /\ pc'[c] = "idle"
          /\ \A d \in Callers \ {c} : pc'[d] = pc[d]
      BY <1>0, <2>1 DEF PCs
    <2> QED
      BY <1>0, <2>1, <2>3, <2>4, <2>6, <2>7
  <1>2. CASE index[c] = NoSlot
    <2>1. /\ ReturnPermit([pc EXCEPT ![c] = "idle"])
          /\ UNCHANGED << free_slots, index >>
      BY <1>2 DEF FinishLease
    <2>2. /\ c \in Holders
          /\ \A d \in Callers : pc[d] = "waiting" => index[d] = NoSlot
      BY <1>2 DEF Holders, HoldsPermit, PcShape
    <2>3. /\ permits' \in 0 .. Overflow
          /\ waiters' \in Seq(Callers)
          /\ pc' \in [Callers -> PCs]
          /\ pc'[c] = "idle"
          /\ \A d \in Callers \ {c} :
                pc'[d] = pc[d] \/ (pc[d] = "waiting" /\ pc'[d] = "granted")
          /\ QueueShape'
          /\ PermitsConserved'
      BY <1>2, <2>1, <2>2, ReturnPermitInv
    <2>4. index' = [index EXCEPT ![c] = NoSlot]
      BY <1>0, <1>2, <2>1
    <2>5. SlotExclusive'
      BY <2>1 DEF SlotExclusive
    <2> QED
      BY <1>0, <2>1, <2>3, <2>4, <2>5
  <1> QED
    BY <1>1, <1>2

\* A lease that ends with its runner killed: evict, Drop, recycle, ephemeral.
LEMMA KillAndFinishInv ==
    ASSUME PoolInv, NEW c \in Callers,
           pc[c] \in {"driving", "answered", "parking"},
           KillRunner(c), FinishLease(c), UNCHANGED << slots, executions >>
    PROVE  PoolInv'
  <1> USE NoSlotType, PoolConfigAssumption
  <1>0. /\ TypeOK /\ SlotExclusive /\ RunnerExclusive /\ ParkedVerified
        /\ PcShape /\ LeasedSlotEmpty /\ QueueShape /\ AnsweredVerified
        /\ NoOrphan /\ PermitsConserved
    BY DEF PoolInv
  <1>1. /\ free_slots' \in Seq(Slots)
        /\ index' = [index EXCEPT ![c] = NoSlot]
        /\ permits' \in 0 .. Overflow
        /\ waiters' \in Seq(Callers)
        /\ pc' \in [Callers -> PCs]
        /\ pc'[c] = "idle"
        /\ \A d \in Callers \ {c} :
              pc'[d] = pc[d] \/ (pc[d] = "waiting" /\ pc'[d] = "granted")
        /\ SlotExclusive' /\ QueueShape' /\ PermitsConserved'
    BY <1>0, FinishLeaseInv
  <1>2. /\ alive' = alive \ {runner[c]}
        /\ unverified' = unverified \ {runner[c]}
        /\ runner' = [runner EXCEPT ![c] = NoProc]
        /\ slots' = slots /\ executions' = executions
    BY DEF KillRunner
  <1>3. TypeOK'
    BY <1>0, <1>1, <1>2 DEF TypeOK
  <1>4. RunnerExclusive' /\ ParkedVerified' /\ LeasedSlotEmpty'
    BY <1>0, <1>1, <1>2 DEF TypeOK, RunnerExclusive, ParkedVerified, LeasedSlotEmpty
  <1>5. NoOrphan'
    <2> SUFFICES ASSUME NEW p \in alive'
                 PROVE  (\E j \in Slots : slots'[j] = p) \/ (\E d \in Callers : runner'[d] = p)
      BY DEF NoOrphan
    <2>1. p \in alive /\ p # runner[c]
      BY <1>2
    <2> QED
      BY <1>0, <1>2, <2>1 DEF TypeOK, NoOrphan
  <1>6. PcShape' /\ AnsweredVerified'
    BY <1>0, <1>1, <1>2 DEF TypeOK, PcShape, AnsweredVerified
  <1> QED
    BY <1>1, <1>3, <1>4, <1>5, <1>6 DEF PoolInv

\* release() with the slot lock: the runner moves from the lease to the slot.
LEMMA ParkInv ==
    ASSUME PoolInv, NEW c \in Callers, Park(c)
    PROVE  PoolInv'
  <1> USE NoSlotType, PoolConfigAssumption
  <1>0. /\ TypeOK /\ SlotExclusive /\ RunnerExclusive /\ ParkedVerified
        /\ PcShape /\ LeasedSlotEmpty /\ QueueShape /\ AnsweredVerified
        /\ NoOrphan /\ PermitsConserved
    BY DEF PoolInv
  <1>1. /\ free_slots' \in Seq(Slots)
        /\ index' = [index EXCEPT ![c] = NoSlot]
        /\ permits' \in 0 .. Overflow
        /\ waiters' \in Seq(Callers)
        /\ pc' \in [Callers -> PCs]
        /\ pc'[c] = "idle"
        /\ \A d \in Callers \ {c} :
              pc'[d] = pc[d] \/ (pc[d] = "waiting" /\ pc'[d] = "granted")
        /\ SlotExclusive' /\ QueueShape' /\ PermitsConserved'
    BY <1>0, FinishLeaseInv DEF Park
  <1>2. PICK i \in Slots : i = index[c] /\ slots[i] = NoProc
    BY <1>0 DEF Park, TypeOK, PcShape, LeasedSlotEmpty
  <1>3. runner[c] \in Procs /\ runner[c] \notin unverified
    BY <1>0 DEF Park, TypeOK, PcShape, AnsweredVerified
  <1>4. /\ slots' = [slots EXCEPT ![i] = runner[c]]
        /\ runner' = [runner EXCEPT ![c] = NoProc]
        /\ UNCHANGED << executions, alive, unverified >>
    BY <1>2 DEF Park
  <1>5. TypeOK'
    BY <1>0, <1>1, <1>3, <1>4 DEF TypeOK
  <1>6. RunnerExclusive'
    BY <1>0, <1>2, <1>3, <1>4 DEF TypeOK, RunnerExclusive
  <1>7. ParkedVerified'
    BY <1>0, <1>2, <1>3, <1>4 DEF TypeOK, ParkedVerified
  <1>8. LeasedSlotEmpty'
    BY <1>0, <1>1, <1>2, <1>4 DEF TypeOK, LeasedSlotEmpty, SlotExclusive
  <1>9. NoOrphan'
    <2> SUFFICES ASSUME NEW p \in alive
                 PROVE  (\E j \in Slots : slots'[j] = p) \/ (\E d \in Callers : runner'[d] = p)
      BY <1>4 DEF NoOrphan
    <2>0. p \in Procs
      BY <1>0 DEF TypeOK
    <2>1. CASE p = runner[c]
      BY <1>0, <1>2, <1>4, <2>1 DEF TypeOK
    <2>2. CASE p # runner[c]
      <3>1. CASE \E d \in Callers : runner[d] = p
        BY <1>0, <1>4, <2>2, <3>1 DEF TypeOK
      <3>2. CASE \E j \in Slots : slots[j] = p
        BY <1>0, <1>2, <1>4, <2>0, <3>2 DEF TypeOK
      <3> QED
        BY <1>0, <3>1, <3>2 DEF NoOrphan
    <2> QED
      BY <2>1, <2>2
  <1>10. PcShape' /\ AnsweredVerified'
    BY <1>0, <1>1, <1>4 DEF TypeOK, PcShape, AnsweredVerified
  <1> QED
    BY <1>1, <1>5, <1>6, <1>7, <1>8, <1>9, <1>10 DEF PoolInv

\* A process that dies leaves its handle where it is.
LEMMA RunnerDiesInv ==
    ASSUME PoolInv, NEW p \in Procs, RunnerDies(p)
    PROVE  PoolInv'
  <1>0. /\ TypeOK /\ SlotExclusive /\ RunnerExclusive /\ ParkedVerified
        /\ PcShape /\ LeasedSlotEmpty /\ QueueShape /\ AnsweredVerified
        /\ NoOrphan /\ PermitsConserved
    BY DEF PoolInv
  <1>1. /\ alive' = alive \ {p}
        /\ UNCHANGED << free_slots, slots, permits, waiters, pc, index, runner,
                        executions, unverified >>
    BY DEF RunnerDies
  <1>2. TypeOK' /\ SlotExclusive' /\ RunnerExclusive' /\ ParkedVerified'
    BY <1>0, <1>1 DEF TypeOK, SlotExclusive, RunnerExclusive, ParkedVerified
  <1>3. PcShape' /\ LeasedSlotEmpty' /\ QueueShape' /\ AnsweredVerified' /\ NoOrphan'
    BY <1>0, <1>1 DEF PcShape, LeasedSlotEmpty, QueueShape, AnsweredVerified, NoOrphan
  <1>4. Holders' = Holders
    BY <1>1 DEF Holders, HoldsPermit
  <1> QED
    BY <1>0, <1>1, <1>2, <1>3, <1>4, SameHolders DEF PoolInv

-----------------------------------------------------------------------------
\* Every step of the pool keeps the invariant.
LEMMA PoolNext == PoolInv /\ [Next]_vars => PoolInv'
  <1> SUFFICES ASSUME PoolInv, [Next]_vars PROVE PoolInv'
    OBVIOUS
  <1>1. CASE UNCHANGED vars
    <2>1. Holders' = Holders
      BY <1>1 DEF vars, Holders, HoldsPermit
    <2>2. PermitsConserved'
      BY <1>1, <2>1, SameHolders DEF vars, PoolInv
    <2> QED
      BY <1>1, <2>2
      DEF vars, PoolInv, TypeOK, SlotExclusive, RunnerExclusive, ParkedVerified,
          PcShape, LeasedSlotEmpty, QueueShape, AnsweredVerified, NoOrphan
  <1>2. ASSUME NEW p \in Procs, RunnerDies(p) PROVE PoolInv'
    BY <1>2, RunnerDiesInv
  <1>3. ASSUME NEW c \in Callers, CallerStep(c) PROVE PoolInv'
    <2>1. CASE Checkout(c)
      BY <2>1, CheckoutInv
    <2>2. CASE TakeParked(c)
      BY <2>2, TakeParkedInv
    <2>3. CASE SpawnPooled(c) \/ SpawnOverflow(c)
      <3>1. PICK p \in Procs : SpawnInto(c, p)
        BY <2>3 DEF SpawnPooled, SpawnOverflow
      <3>2. /\ pc[c] \in {"claimed", "granted"}
            /\ pc[c] = "claimed" => slots[index[c]] = NoProc
            /\ UNCHANGED << free_slots, slots, permits, waiters, index >>
        BY <2>3 DEF SpawnPooled, SpawnOverflow
      <3> QED
        BY <3>1, <3>2, SpawnInv
    <2>4. CASE SpawnPooledFails(c) \/ CancelClaim(c)
      BY <2>4, LeaveClaimInv
    <2>5. CASE GiveUpGrant(c)
      BY <2>5, GiveUpGrantInv
    <2>6. CASE CancelWait(c)
      BY <2>6, CancelWaitInv
    <2>7. CASE Answer(c)
      BY <2>7, AnswerInv
    <2>8. CASE Release(c)
      <3>1. CASE /\ index[c] # NoSlot
                 /\ executions[runner[c]] + 1 < RecycleAfter
                 /\ executions' = [executions EXCEPT ![runner[c]] = @ + 1]
                 /\ pc' = [pc EXCEPT ![c] = "parking"]
                 /\ UNCHANGED << free_slots, slots, permits, waiters, index,
                                 runner, alive, unverified >>
        BY <2>8, <3>1, StartParkingInv DEF Release
      <3>2. CASE KillRunner(c) /\ FinishLease(c) /\ UNCHANGED << slots, executions >>
        BY <2>8, <3>2, KillAndFinishInv DEF Release
      <3> QED
        BY <2>8, <3>1, <3>2 DEF Release
    <2>9. CASE Park(c)
      BY <2>9, ParkInv
    <2>10. CASE Evict(c) \/ DropLease(c)
      BY <2>10, KillAndFinishInv DEF Evict, DropLease
    <2> QED
      BY <1>3, <2>1, <2>2, <2>3, <2>4, <2>5, <2>6, <2>7, <2>8, <2>9, <2>10
      DEF CallerStep
  <1> QED
    BY <1>1, <1>2, <1>3 DEF Next

\* The inductive invariant holds in every reachable state of the pool.
THEOREM PoolInvariant == Spec => []PoolInv
  BY PoolInit, PoolNext, PTL DEF Spec

\* Counting: a running process is chargeable to a slot (parked there, or leased
\* with that index) or to a permit holder, and no two to the same one.
LEMMA CountProcesses == PoolInv => ProcessBound
  <1> SUFFICES ASSUME PoolInv PROVE ProcessBound
    OBVIOUS
  <1> USE NoSlotType, PoolConfigAssumption
  <1>0. /\ TypeOK /\ SlotExclusive /\ RunnerExclusive /\ PcShape
        /\ LeasedSlotEmpty /\ NoOrphan /\ PermitsConserved
    BY DEF PoolInv
  <1> DEFINE Charged(i, p) ==
                 slots[i] = p \/ \E c \in Callers : runner[c] = p /\ index[c] = i
             Pooled == {p \in alive : \E i \in Slots : Charged(i, p)}
             Extra == alive \ Pooled
             slotOf == [p \in Pooled |-> CHOOSE i \in Slots : Charged(i, p)]
             leaseOf == [p \in Extra |-> CHOOSE c \in Callers : runner[c] = p]
  <1>1. alive \subseteq Procs
    BY <1>0 DEF TypeOK
  <1>2. slotOf \in Injection(Pooled, Slots)
    <2>1. \A p \in Pooled : slotOf[p] \in Slots /\ Charged(slotOf[p], p)
      OBVIOUS
    <2>2. ASSUME NEW p \in Pooled, NEW q \in Pooled, NEW i \in Slots,
                 Charged(i, p), Charged(i, q)
          PROVE  p = q
      <3>1. p \in Procs /\ q \in Procs
        BY <1>1
      <3>2. \A c \in Callers : index[c] = i /\ runner[c] \in Procs => slots[i] = NoProc
        BY <1>0 DEF LeasedSlotEmpty
      <3>3. \A c, d \in Callers : index[c] = i /\ index[d] = i => c = d
        BY <1>0 DEF SlotExclusive
      <3> QED
        BY <2>2, <3>1, <3>2, <3>3
    <2> HIDE DEF Charged, Pooled
    <2>3. slotOf \in [Pooled -> Slots]
      BY <2>1
    <2> HIDE DEF slotOf
    <2>4. \A p, q \in Pooled : slotOf[p] = slotOf[q] => p = q
      BY <2>1, <2>2
    <2> QED
      BY <2>3, <2>4 DEF Injection, IsInjective
  <1>3. leaseOf \in Injection(Extra, Holders)
    <2>1. \A p \in Extra : leaseOf[p] \in Callers /\ runner[leaseOf[p]] = p
      BY <1>0 DEF NoOrphan
    <2>2. \A p \in Extra : leaseOf[p] \in Holders
      <3> SUFFICES ASSUME NEW p \in Extra, NEW c \in Callers, runner[c] = p
                   PROVE  c \in Holders
        BY <2>1
      <3>1. p \in Procs /\ p \notin Pooled
        BY <1>1
      <3>2. index[c] = NoSlot
        BY <1>0, <3>1 DEF TypeOK
      <3>3. pc[c] \in {"driving", "answered"}
        BY <1>0, <3>1, <3>2 DEF PcShape
      <3> QED
        BY <3>2, <3>3 DEF Holders, HoldsPermit
    <2> HIDE DEF Extra
    <2>3. leaseOf \in [Extra -> Holders]
      BY <2>2
    <2> HIDE DEF leaseOf
    <2>4. \A p, q \in Extra : leaseOf[p] = leaseOf[q] => p = q
      BY <2>1
    <2> QED
      BY <2>3, <2>4 DEF Injection, IsInjective
  <1>4. IsFiniteSet(Slots) /\ Cardinality(Slots) = Size
    <2>1. IsFiniteSet(0 .. Size - 1)
          /\ Cardinality(0 .. Size - 1) = IF 0 > Size - 1 THEN 0 ELSE Size - 1 - 0 + 1
      BY FS_Interval
    <2> QED
      BY <2>1 DEF Slots
  <1>5. alive = Pooled \cup Extra
    OBVIOUS
  <1>6. alive \subseteq Handles
    BY <1>0 DEF NoOrphan, Handles
  <1> HIDE DEF Pooled, Extra, slotOf, leaseOf
  <1>7. /\ IsFiniteSet(Pooled) /\ Cardinality(Pooled) <= Size
        /\ IsFiniteSet(Extra) /\ Cardinality(Extra) <= Cardinality(Holders)
    BY <1>2, <1>3, <1>4, HoldersFinite, FS_Injection
  <1>8. Cardinality(alive) =
            Cardinality(Pooled) + Cardinality(Extra) - Cardinality(Pooled \cap Extra)
    BY <1>5, <1>7, FS_Union
  <1>9. /\ Cardinality(Pooled) \in Nat /\ Cardinality(Extra) \in Nat
        /\ Cardinality(Pooled \cap Extra) \in Nat
    BY <1>7, FS_CardinalityType, FS_Intersection
  <1>10. Cardinality(Holders) <= Overflow
    BY <1>0, Books, HoldersFinite, OverflowType DEF TypeOK
  <1>11. Cardinality(alive) <= Size + Overflow
    BY <1>7, <1>8, <1>9, <1>10, HoldersFinite, OverflowType
  <1> QED
    BY <1>6, <1>11 DEF ProcessBound

\* The pool's state is well typed: in particular no more permits than the
\* semaphore was created with, and no runner reaches the recycle threshold.
THEOREM PoolTypeOK == Spec => []TypeOK
  BY PoolInvariant, PTL DEF PoolInv

\* "two concurrent checkouts can never select the same slot" (pool.rs:58-60).
THEOREM PoolSlotExclusive == Spec => []SlotExclusive
  BY PoolInvariant, PTL DEF PoolInv

\* "one execution per runner at a time" (pool.rs:9).
THEOREM PoolRunnerExclusive == Spec => []RunnerExclusive
  BY PoolInvariant, PTL DEF PoolInv

\* "never park a runner whose execution state we did not verify" (pool.rs:367).
THEOREM PoolParkedVerified == Spec => []ParkedVerified
  BY PoolInvariant, PTL DEF PoolInv

\* No overflow permit is lost or minted, whatever is cancelled or fails.
THEOREM PoolPermitsConserved == Spec => []PermitsConserved
  BY PoolInvariant, PTL DEF PoolInv

\* "Bounds total concurrent runner processes to pool_size + max_overflow"
\* (pool/config.rs:24-25), max_overflow being at least 1.
THEOREM PoolProcessBound == Spec => []ProcessBound
  BY PoolInvariant, CountProcesses, PTL

=============================================================================

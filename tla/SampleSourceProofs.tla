------------------------- MODULE SampleSourceProofs -------------------------
(***************************************************************************)
(* Theorems about SampleSource, for every pool of two buffers or more: the *)
(* pool is conserved and never exhausted, every block is accounted for,    *)
(* blocks arrive in order, a block being processed is never written, and,  *)
(* given that neither thread blocks where it should not, the loop never    *)
(* stalls and the destructor returns.                                      *)
(***************************************************************************)
EXTENDS SampleSource, TLAPS

USE SampleSourceAssumption

\* The reader holds a buffer exactly between taking one and queueing it, and
\* the block it has just written carries the next number.
ReaderHolds ==
  /\ filling = NoBuffer <=> reader \notin {"fill", "push"}
  /\ reader = "push" => content[filling].n = produced + 1

\* The real-time loop holds a block while it works on one, and a block it
\* waits for is not yet there.
ConsumerHolds ==
  /\ dsp = "work" => current # NoBuffer
  /\ dsp = "wait" => current = NoBuffer

IInv == TypeOK /\ PoolPartition /\ BlocksAccounted /\ ReaderHolds /\ ConsumerHolds

-----------------------------------------------------------------------------
(* What the queue operations do to the set of queued buffers.              *)

LEMMA QueueTail ==
  ASSUME NEW s \in Seq(Buffers), s # <<>>
  PROVE  /\ Head(s) \in Buffers
         /\ Tail(s) \in Seq(Buffers)
         /\ Len(Tail(s)) = Len(s) - 1
         /\ Len(s) \in Nat \ {0}
         /\ s[1] = Head(s)
         /\ \A i \in 1..Len(Tail(s)) : Tail(s)[i] = s[i + 1]
  OBVIOUS

LEMMA QueueAppend ==
  ASSUME NEW s \in Seq(Buffers), NEW b \in Buffers
  PROVE  /\ Append(s, b) \in Seq(Buffers)
         /\ Len(Append(s, b)) = Len(s) + 1
         /\ Len(s) \in Nat
         /\ Append(s, b)[Len(s) + 1] = b
         /\ \A i \in 1..Len(s) : Append(s, b)[i] = s[i]
  OBVIOUS

Elements(s) == {s[i] : i \in 1..Len(s)}

Distinct(s) == \A i, j \in 1..Len(s) : s[i] = s[j] => i = j

LEMMA DequeueElements ==
  ASSUME NEW s \in Seq(Buffers), s # <<>>, Distinct(s)
  PROVE  /\ Elements(s) = Elements(Tail(s)) \cup {Head(s)}
         /\ Head(s) \notin Elements(Tail(s))
         /\ Distinct(Tail(s))
<1>1. \A i \in 1..Len(Tail(s)) : Tail(s)[i] = s[i + 1] /\ i + 1 \in 1..Len(s)
  BY QueueTail
<1>2. \A i \in 1..Len(s) : i = 1 \/ (i - 1 \in 1..Len(Tail(s)) /\ Tail(s)[i - 1] = s[i])
  BY QueueTail
<1>3. 1 \in 1..Len(s) /\ s[1] = Head(s)
  BY QueueTail
<1>4. Elements(s) = Elements(Tail(s)) \cup {Head(s)}
  BY <1>1, <1>2, <1>3 DEF Elements
<1>5. Head(s) \notin Elements(Tail(s))
  BY <1>1, <1>3 DEF Elements, Distinct
<1>6. Distinct(Tail(s))
  BY <1>1 DEF Distinct
<1>7. QED
  BY <1>4, <1>5, <1>6

LEMMA EnqueueElements ==
  ASSUME NEW s \in Seq(Buffers), Distinct(s), NEW b \in Buffers, b \notin Elements(s)
  PROVE  /\ Elements(Append(s, b)) = Elements(s) \cup {b}
         /\ Distinct(Append(s, b))
<1>1. 1..Len(Append(s, b)) = 1..Len(s) \cup {Len(s) + 1}
  BY QueueAppend
<1>2. QED
  BY <1>1, QueueAppend DEF Elements, Distinct

LEMMA InitOK == Init => IInv
<1> SUFFICES ASSUME Init PROVE IInv
  OBVIOUS
<1>1. Len(ready) = 0 /\ Queued = {} /\ Held = {}
  BY DEF Init, Queued, Held
<1>2. NoBlock \in [n : Nat, live : BOOLEAN]
  BY DEF NoBlock
<1>3. content \in [Buffers -> [n : Nat, live : BOOLEAN]]
  BY <1>2 DEF Init
<1>4. TypeOK
  <2>1. ready \in Seq(Buffers)
    BY DEF Init
  <2>2. /\ free \subseteq Buffers
        /\ current \in Buffers \cup {NoBuffer} /\ filling \in Buffers \cup {NoBuffer}
        /\ overruns \in Nat /\ produced \in Nat /\ delivered \in Nat
    BY DEF Init
  <2>3. /\ linkUp \in BOOLEAN /\ stop \in BOOLEAN
        /\ reader \in {"head", "refill", "take", "fill", "push", "pause", "done"}
        /\ dsp \in {"call", "wait", "work", "joining", "done"}
    BY DEF Init
  <2>4. QED
    BY <1>3, <2>1, <2>2, <2>3, Zenon DEF TypeOK
<1>5. PoolPartition
  BY <1>1 DEF Init, PoolPartition
<1>6. BlocksAccounted /\ ReaderHolds /\ ConsumerHolds
  BY <1>1 DEF Init, BlocksAccounted, ReaderHolds, ConsumerHolds
<1>7. QED
  BY <1>4, <1>5, <1>6 DEF IInv

LEMMA TypePreserved == TypeOK /\ ReaderHolds /\ [Next]_vars => TypeOK'
<1> SUFFICES ASSUME TypeOK, ReaderHolds, [Next]_vars PROVE TypeOK'
  OBVIOUS
<1> USE DEF TypeOK, pool, counts
<1>1. CASE ReaderHead \/ RefillOk \/ RefillFail \/ StillAway \/ Reopened
  BY <1>1 DEF ReaderHead, RefillOk, RefillFail, StillAway, Reopened
<1>2. CASE TakeBuffer
  <2>1. CASE TakeFree
    BY <1>2, <2>1 DEF TakeBuffer, TakeFree
  <2>2. CASE DropOldest
    BY <1>2, <2>2, QueueTail DEF TakeBuffer, DropOldest
  <2>3. QED BY <1>2, <2>1, <2>2 DEF TakeBuffer
<1>3. CASE Fill
  <2> DEFINE blk == [n |-> produced + 1, live |-> linkUp]
  <2>1. blk \in [n : Nat, live : BOOLEAN]
    OBVIOUS
  <2>2. content' = [content EXCEPT ![filling] = blk] /\ reader' = "push"
    BY <1>3 DEF Fill
  <2>3. content' \in [Buffers -> [n : Nat, live : BOOLEAN]]
    <3> HIDE DEF blk
    <3> QED BY <2>1, <2>2
  <2>4. QED
    BY <1>3, <2>2, <2>3 DEF Fill
<1>4. CASE Push
  BY <1>4, QueueAppend DEF Push, ReaderHolds
<1>5. CASE NextBlock
  <2>1. free' \subseteq Buffers
    BY <1>5 DEF NextBlock, Held
  <2>2. CASE TakeReady("work")
    BY <1>5, <2>1, <2>2, QueueTail DEF NextBlock, TakeReady
  <2>3. CASE ready = <<>> /\ current' = NoBuffer /\ dsp' = "wait" /\ UNCHANGED <<ready, delivered>>
    BY <1>5, <2>1, <2>3 DEF NextBlock
  <2>4. QED BY <1>5, <2>2, <2>3 DEF NextBlock
<1>6. CASE Wake
  BY <1>6, QueueTail DEF Wake, TakeReady
<1>7. CASE Process \/ Shutdown \/ Joined
  BY <1>7 DEF Process, Shutdown, Joined
<1>8. CASE UNCHANGED vars
  BY <1>8 DEF vars
<1>9. QED
  BY <1>1, <1>2, <1>3, <1>4, <1>5, <1>6, <1>7, <1>8 DEF Next, Reader, Consumer

\* The pool's conservation, by where each action moves a buffer.
LEMMA PartitionPreserved == IInv /\ [Next]_vars => PoolPartition'
<1> SUFFICES ASSUME IInv, [Next]_vars PROVE PoolPartition'
  OBVIOUS
<1> DEFINE Part(f, r, c, g) ==
      /\ Buffers = f \cup Elements(r) \cup ({c} \ {NoBuffer}) \cup ({g} \ {NoBuffer})
      /\ f \cap Elements(r) = {} /\ c \notin f \cup Elements(r)
      /\ g \notin f \cup Elements(r)
      /\ c = g => c = NoBuffer
      /\ Distinct(r)
<1>a. PoolPartition <=> Part(free, ready, current, filling)
  BY DEF PoolPartition, Queued, Held, Elements, Distinct
<1>b. PoolPartition' <=> Part(free', ready', current', filling')
  BY DEF PoolPartition, Queued, Held, Elements, Distinct
<1>c. /\ Part(free, ready, current, filling)
      /\ TypeOK /\ ReaderHolds /\ ConsumerHolds
  BY <1>a DEF IInv
<1>d. ready \in Seq(Buffers) /\ free \subseteq Buffers /\ NoBuffer \notin Elements(ready)
      /\ Elements(ready) \subseteq Buffers
  BY <1>c DEF TypeOK, Elements
<1>1. CASE UNCHANGED <<free, ready, current, filling>>
  BY <1>1, <1>b, <1>c
<1>2. CASE TakeBuffer
  <2>0. filling = NoBuffer /\ UNCHANGED current
    BY <1>2, <1>c DEF TakeBuffer, ReaderHolds
  <2>1. CASE TakeFree
    BY <1>b, <1>c, <1>d, <2>0, <2>1 DEF TakeFree
  <2>2. CASE DropOldest
    <3>1. /\ ready # <<>> /\ filling' = Head(ready) /\ ready' = Tail(ready)
          /\ free' = free /\ free = {}
      BY <2>2 DEF DropOldest
    <3>2. /\ Elements(ready) = Elements(ready') \cup {filling'}
          /\ filling' \notin Elements(ready')
          /\ Distinct(ready')
      BY <1>c, <1>d, <3>1, DequeueElements
    <3>3. QED
      BY <1>b, <1>c, <1>d, <2>0, <3>1, <3>2
  <2>3. QED
    BY <1>2, <2>1, <2>2 DEF TakeBuffer
<1>3. CASE Push
  <2>1. /\ ready' = Append(ready, filling) /\ filling' = NoBuffer
        /\ UNCHANGED <<free, current>> /\ filling \in Buffers
    BY <1>3, <1>c DEF Push, ReaderHolds, TypeOK
  <2>2. Elements(ready') = Elements(ready) \cup {filling} /\ Distinct(ready')
    BY <1>c, <1>d, <2>1, EnqueueElements
  <2>3. QED
    BY <1>b, <1>c, <1>d, <2>1, <2>2
<1>4. ASSUME ready # <<>>, current' = Head(ready), ready' = Tail(ready),
             free' = free \cup Held, UNCHANGED filling
      PROVE  PoolPartition'
  <2>1. /\ Elements(ready) = Elements(ready') \cup {current'}
        /\ current' \notin Elements(ready')
        /\ Distinct(ready')
    BY <1>c, <1>d, <1>4, DequeueElements
  <2>2. QED
    BY <1>b, <1>c, <1>d, <1>4, <2>1 DEF Held
<1>5. ASSUME current' = NoBuffer, free' = free \cup Held, UNCHANGED <<ready, filling>>
      PROVE  PoolPartition'
  BY <1>b, <1>c, <1>d, <1>5 DEF Held
<1>6. CASE NextBlock
  BY <1>4, <1>5, <1>6 DEF NextBlock, TakeReady
<1>7. CASE Wake
  <2>1. Held = {}
    BY <1>7, <1>c DEF Wake, ConsumerHolds, Held
  <2>2. QED
    BY <1>4, <1>7, <2>1 DEF Wake, TakeReady
<1>8. QED
  BY <1>1, <1>2, <1>3, <1>6, <1>7
     DEF Next, Reader, Consumer, ReaderHead, RefillOk, RefillFail, Fill, StillAway,
         Reopened, Process, Shutdown, Joined, pool, vars

LEMMA ReaderPreserved == IInv /\ [Next]_vars => ReaderHolds'
<1> SUFFICES ASSUME IInv, [Next]_vars PROVE ReaderHolds'
  OBVIOUS
<1>1. TypeOK /\ ReaderHolds /\ PoolPartition
  BY DEF IInv
<1> USE DEF ReaderHolds, pool, counts
<1>2. CASE ReaderHead \/ RefillOk \/ RefillFail \/ StillAway \/ Reopened
  BY <1>1, <1>2 DEF ReaderHead, RefillOk, RefillFail, StillAway, Reopened
<1>3. CASE TakeBuffer
  <2>1. filling' \in Buffers
    BY <1>1, <1>3, QueueTail DEF TakeBuffer, TakeFree, DropOldest, TypeOK
  <2>2. QED
    BY <1>1, <1>3, <2>1 DEF TakeBuffer
<1>4. CASE Fill
  <2>1. filling \in Buffers
    BY <1>1, <1>4 DEF Fill, TypeOK
  <2>2. content'[filling].n = produced + 1
    BY <1>1, <1>4, <2>1 DEF Fill, TypeOK
  <2>3. QED
    BY <1>1, <1>4, <2>1, <2>2 DEF Fill
<1>5. CASE Push
  BY <1>5 DEF Push
<1>6. CASE Consumer
  BY <1>1, <1>6 DEF Consumer, NextBlock, Wake, Process, Shutdown, Joined
<1>7. CASE UNCHANGED vars
  BY <1>1, <1>7 DEF vars
<1>8. QED
  BY <1>2, <1>3, <1>4, <1>5, <1>6, <1>7 DEF Next, Reader

LEMMA ConsumerPreserved == IInv /\ [Next]_vars => ConsumerHolds'
<1> SUFFICES ASSUME IInv, [Next]_vars PROVE ConsumerHolds'
  OBVIOUS
<1>1. TypeOK /\ ConsumerHolds
  BY DEF IInv
<1> USE DEF ConsumerHolds, pool, counts
<1>2. CASE Reader
  BY <1>1, <1>2 DEF Reader, ReaderHead, RefillOk, RefillFail, TakeBuffer, Fill, Push,
       StillAway, Reopened
<1>3. ASSUME TakeReady("work") PROVE ConsumerHolds'
  BY <1>1, <1>3, QueueTail DEF TakeReady, TypeOK
<1>4. CASE NextBlock
  BY <1>3, <1>4 DEF NextBlock
<1>5. CASE Wake
  BY <1>3, <1>5 DEF Wake
<1>6. CASE Process \/ Shutdown \/ Joined
  BY <1>1, <1>6 DEF Process, Shutdown, Joined
<1>7. CASE UNCHANGED vars
  BY <1>1, <1>7 DEF vars
<1>8. QED
  BY <1>2, <1>4, <1>5, <1>6, <1>7 DEF Next, Consumer

\* The accounts, by what each action counts.
LEMMA AccountsPreserved == IInv /\ [Next]_vars => BlocksAccounted'
<1> SUFFICES ASSUME IInv, [Next]_vars PROVE BlocksAccounted'
  OBVIOUS
<1>1. TypeOK /\ PoolPartition /\ BlocksAccounted /\ ReaderHolds /\ ConsumerHolds
  BY DEF IInv
<1>2. Len(ready) \in Nat /\ overruns \in Nat /\ delivered \in Nat /\ produced \in Nat
      /\ ready \in Seq(Buffers)
  BY <1>1 DEF TypeOK
<1>3. ASSUME ready # <<>>, ready' = Tail(ready), UNCHANGED <<content, produced>>,
             delivered' + overruns' = delivered + overruns + 1
      PROVE  BlocksAccounted'
  <2>1. \A i \in 1..Len(ready') : ready'[i] = ready[i + 1] /\ i + 1 \in 1..Len(ready)
    BY <1>2, <1>3, QueueTail
  <2>2. Len(ready') = Len(ready) - 1
    BY <1>2, <1>3, QueueTail
  <2>3. \A i \in 1..Len(ready') : content'[ready'[i]].n = delivered' + overruns' + i
    BY <1>1, <1>2, <1>3, <2>1 DEF BlocksAccounted
  <2>4. produced' = delivered' + overruns' + Len(ready')
    BY <1>1, <1>2, <1>3, <2>2 DEF BlocksAccounted
  <2>5. QED
    BY <2>3, <2>4 DEF BlocksAccounted
<1>4. CASE TakeBuffer
  <2>1. CASE TakeFree
    BY <1>1, <1>4, <2>1 DEF TakeBuffer, TakeFree, BlocksAccounted
  <2>2. CASE DropOldest
    BY <1>2, <1>3, <1>4, <2>2 DEF TakeBuffer, DropOldest
  <2>3. QED
    BY <1>4, <2>1, <2>2 DEF TakeBuffer
<1>5. CASE Fill
  <2>1. /\ UNCHANGED <<ready, produced, delivered, overruns>>
        /\ \A b \in Buffers : b # filling => content'[b] = content[b]
    BY <1>1, <1>5 DEF Fill, TypeOK, counts
  <2>2. \A i \in 1..Len(ready) : ready[i] \in Buffers /\ ready[i] # filling
    BY <1>1, <1>2 DEF PoolPartition, Queued
  <2>3. QED
    BY <1>1, <2>1, <2>2 DEF BlocksAccounted
<1>6. CASE Push
  <2>1. /\ ready' = Append(ready, filling) /\ produced' = produced + 1
        /\ UNCHANGED <<content, overruns, delivered>>
        /\ filling \in Buffers /\ content[filling].n = produced + 1
    BY <1>1, <1>6 DEF Push, ReaderHolds, TypeOK
  <2>2. Len(ready') = Len(ready) + 1
    BY <1>2, <2>1, QueueAppend
  <2>3. ASSUME NEW i \in 1..Len(ready')
        PROVE  content'[ready'[i]].n = delivered' + overruns' + i
    <3>1. CASE i \in 1..Len(ready)
      BY <1>1, <1>2, <2>1, <3>1, QueueAppend DEF BlocksAccounted
    <3>2. CASE i = Len(ready) + 1
      <4>1. ready'[i] = filling
        BY <1>2, <2>1, <3>2, QueueAppend
      <4>2. QED
        BY <1>1, <1>2, <2>1, <3>2, <4>1 DEF BlocksAccounted
    <3>3. QED
      BY <1>2, <2>2, <3>1, <3>2
  <2>4. produced' = delivered' + overruns' + Len(ready')
    BY <1>1, <1>2, <2>1, <2>2 DEF BlocksAccounted
  <2>5. QED
    BY <2>3, <2>4 DEF BlocksAccounted
<1>7. ASSUME TakeReady("work"), UNCHANGED <<content, overruns, produced>>
      PROVE  BlocksAccounted'
  BY <1>2, <1>3, <1>7 DEF TakeReady
<1>8. CASE NextBlock
  <2>1. CASE TakeReady("work")
    BY <1>7, <1>8, <2>1 DEF NextBlock
  <2>2. CASE UNCHANGED <<ready, delivered>>
    BY <1>1, <1>8, <2>2 DEF NextBlock, BlocksAccounted
  <2>3. QED
    BY <1>8, <2>1, <2>2 DEF NextBlock
<1>9. CASE Wake
  BY <1>7, <1>9 DEF Wake
<1>10. CASE UNCHANGED <<ready, content, overruns, produced, delivered>>
  BY <1>1, <1>10 DEF BlocksAccounted
<1>11. QED
  BY <1>4, <1>5, <1>6, <1>8, <1>9, <1>10
     DEF Next, Reader, Consumer, ReaderHead, RefillOk, RefillFail, StillAway, Reopened,
         Process, Shutdown, Joined, pool, counts, vars

-----------------------------------------------------------------------------

\* The inductive invariant holds in every reachable state.
THEOREM Invariance == Spec => []IInv
<1>1. IInv /\ [Next]_vars => IInv'
  <2>1. IInv => TypeOK /\ ReaderHolds
    BY DEF IInv
  <2>2. QED
    BY <2>1, TypePreserved, PartitionPreserved, AccountsPreserved, ReaderPreserved,
       ConsumerPreserved DEF IInv
<1>2. QED
  BY InitOK, <1>1, PTL DEF Spec

\* Type correctness of the source and its consumer.
THEOREM TypeCorrect == Spec => []TypeOK
<1>1. IInv => TypeOK
  BY DEF IInv
<1>2. QED
  BY Invariance, <1>1, PTL

\* No buffer leaks and none is in two places, for a pool of any size.
THEOREM PoolConserved == Spec => []PoolPartition
<1>1. IInv => PoolPartition
  BY DEF IInv
<1>2. QED
  BY Invariance, <1>1, PTL

\* The overrun counter accounts for every block that was not delivered.
THEOREM AccountsExact == Spec => []BlocksAccounted
<1>1. IInv => BlocksAccounted
  BY DEF IInv
<1>2. QED
  BY Invariance, <1>1, PTL

\* What is not free, queued or being written is one buffer at most, the consumer's.
LEMMA TakeFinds == IInv => PoolNeverExhausted
<1> SUFFICES ASSUME IInv, reader = "take", free = {}, ready = <<>> PROVE FALSE
  BY DEF PoolNeverExhausted
<1>1. Queued = {} /\ filling = NoBuffer
  BY DEF IInv, ReaderHolds, Queued
<1>2. Buffers \subseteq {current}
  BY <1>1 DEF IInv, PoolPartition, Held
<1>3. QED
  BY <1>2

\* With two buffers or more, take_buffer() always finds one: the reader never
\* allocates on its path.
THEOREM NeverAllocates == Spec => []PoolNeverExhausted
  BY Invariance, TakeFinds, PTL

\* A block is only ever given up when all the others are queued.
THEOREM DropsOnlyWhenBehind == Spec => DropOnlyWhenBehind
<1>1. IInv /\ [Next]_vars => (overruns' # overruns => Buffers = Queued \cup Held)
  <2> SUFFICES ASSUME IInv, [Next]_vars, overruns' # overruns
               PROVE  Buffers = Queued \cup Held
    OBVIOUS
  <2>1. TakeBuffer /\ DropOldest
    BY DEF Next, Reader, Consumer, ReaderHead, RefillOk, RefillFail, TakeBuffer, TakeFree,
       Fill, Push, StillAway, Reopened, NextBlock, Wake, Process, Shutdown, Joined,
       counts, vars
  <2>2. free = {} /\ filling = NoBuffer
    BY <2>1 DEF IInv, ReaderHolds, TakeBuffer, DropOldest
  <2>3. QED
    BY <2>2 DEF IInv, PoolPartition
<1>2. QED
  BY Invariance, <1>1, PTL DEF Spec, DropOnlyWhenBehind

\* The block the consumer is processing is never written by the reader.
THEOREM BlockIsStable == Spec => BlockStable
<1>1. IInv /\ [Next]_vars =>
        (current # NoBuffer /\ current' = current => content'[current] = content[current])
  <2> SUFFICES ASSUME IInv, [Next]_vars, current # NoBuffer, content' # content
               PROVE  content'[current] = content[current]
    OBVIOUS
  <2>1. Fill
    BY DEF Next, Reader, Consumer, ReaderHead, RefillOk, RefillFail, TakeBuffer, Fill, Push,
       StillAway, Reopened, NextBlock, Wake, Process, Shutdown, Joined, pool, vars
  <2>2. /\ current # filling /\ current \in Buffers
        /\ content \in [Buffers -> [n : Nat, live : BOOLEAN]]
    BY <2>1 DEF IInv, PoolPartition, TypeOK
  <2>3. QED
    BY <2>1, <2>2 DEF Fill
<1>2. QED
  BY Invariance, <1>1, PTL DEF Spec, BlockStable

\* Blocks are delivered in capture order, once each, gaps being overruns.
THEOREM DeliveryIsOrdered == Spec => OrderedDelivery
<1>1. IInv /\ [Next]_vars =>
        (delivered' # delivered =>
           delivered' = delivered + 1 /\ content[current'].n = delivered' + overruns)
  <2> SUFFICES ASSUME IInv, [Next]_vars, delivered' # delivered
               PROVE  delivered' = delivered + 1 /\ content[current'].n = delivered' + overruns
    OBVIOUS
  <2>1. TakeReady("work")
    BY DEF Next, Reader, Consumer, ReaderHead, RefillOk, RefillFail, TakeBuffer, Fill, Push,
       StillAway, Reopened, NextBlock, Wake, Process, Shutdown, Joined, counts, vars
  <2>2. /\ ready \in Seq(Buffers) /\ ready # <<>> /\ current' = Head(ready)
        /\ delivered' = delivered + 1 /\ delivered \in Nat /\ overruns \in Nat
    BY <2>1 DEF TakeReady, IInv, TypeOK
  <2>3. current' = ready[1] /\ 1 \in 1..Len(ready)
    BY <2>2, QueueTail
  <2>4. content[ready[1]].n = delivered + overruns + 1
    BY <2>3 DEF IInv, BlocksAccounted
  <2>5. QED
    BY <2>2, <2>3, <2>4
<1>2. QED
  BY Invariance, <1>1, PTL DEF Spec, OrderedDelivery

-----------------------------------------------------------------------------
(* What must eventually happen.  Each proof is a finite chain of phases: a  *)
(* step of either thread keeps the phase or moves it on, and a step of the  *)
(* fair thread moves it on.  The provers do not look inside ENABLED, so it  *)
(* is a hypothesis that a thread is enabled where the guard of one of its   *)
(* actions holds (ReaderCanStep, ConsumerCanStep); that some guard always   *)
(* holds is proved.                                                         *)

\* The guards of the reader's actions, in the order of the actions.
ReaderGuards ==
  \/ reader = "head" /\ (stop \/ produced < MaxBlocks)
  \/ reader = "refill"
  \/ reader = "take" /\ (free # {} \/ (free = {} /\ ready # <<>>))
  \/ reader = "fill"
  \/ reader = "push"
  \/ reader = "pause"

ReaderCanStep == ReaderGuards => ENABLED <<Reader>>_vars

\* The guards of the loop's actions but Shutdown, which nothing obliges.
ConsumerGuards ==
  \/ dsp = "call"
  \/ dsp = "wait" /\ ready # <<>>
  \/ dsp = "work"
  \/ dsp = "joining" /\ reader = "done"

ConsumerCanStep ==
  ConsumerGuards => ENABLED <<NextBlock \/ Wake \/ Process \/ Joined>>_vars

\* The reader is told to stop exactly by the destructor, returns only when
\* told, and starts no block past the bound.
ThreadLives ==
  /\ stop <=> dsp \in {"joining", "done"}
  /\ reader = "done" => stop
  /\ produced <= MaxBlocks
  /\ reader \in {"refill", "take", "fill", "push"} => produced < MaxBlocks

LInv == IInv /\ ThreadLives

LEMMA LivesPreserved == TypeOK /\ ThreadLives /\ [Next]_vars => ThreadLives'
<1> SUFFICES ASSUME TypeOK, ThreadLives, [Next]_vars PROVE ThreadLives'
  OBVIOUS
<1> MaxBlocks \in Nat /\ produced \in Nat
  BY SampleSourceAssumption DEF TypeOK
<1>1. CASE Reader
  BY <1>1 DEF Reader, ReaderHead, RefillOk, RefillFail, TakeBuffer, TakeFree, DropOldest,
     Fill, Push, StillAway, Reopened, ThreadLives, pool, counts
<1>2. CASE Consumer
  BY <1>2 DEF Consumer, NextBlock, Wake, Process, Shutdown, Joined, TakeReady, ThreadLives,
     pool, counts
<1>3. CASE UNCHANGED vars
  BY <1>3 DEF vars, counts, ThreadLives
<1>4. QED
  BY <1>1, <1>2, <1>3 DEF Next

LEMMA Liveliness == Spec => []LInv
<1>1. Init => ThreadLives
  BY SampleSourceAssumption DEF Init, ThreadLives
<1>2. IInv => TypeOK
  BY DEF IInv
<1>3. QED
  BY <1>1, <1>2, Invariance, LivesPreserved, PTL DEF Spec, LInv

\* The reader blocks nowhere: unless it has returned, or the bound on the number
\* of blocks holds it, the guard of one of its actions holds.
LEMMA ReaderNeverBlocks ==
  ASSUME LInv, reader # "done", reader = "head" => stop \/ produced < MaxBlocks
  PROVE  ReaderGuards
BY TakeFinds DEF LInv, IInv, TypeOK, PoolNeverExhausted, ReaderGuards

\* While the destructor joins, the reader is at r; the phases of the proof.
Joining(r) == dsp = "joining" /\ reader = r

\* Until the reader has returned, the loop does not move: only the reader does.
LEMMA JoiningSteps ==
  ASSUME LInv, [Next]_vars, dsp = "joining", reader # "done"
  PROVE  Reader \/ UNCHANGED vars
BY DEF Next, Consumer, NextBlock, Wake, Process, Shutdown, Joined

\* The destructor of the source returns: the reader, told to stop, leaves its
\* loop from wherever it is, a lost link included, and the join then succeeds.
THEOREM ShutdownTerminates == Spec /\ []ReaderCanStep /\ []ConsumerCanStep => ShutdownEnds
<1>1. ASSUME NEW r \in {"head", "refill", "take", "fill", "push", "pause"}
      PROVE  LInv /\ Joining(r) => ReaderGuards
  BY ReaderNeverBlocks DEF Joining, LInv, ThreadLives
<1>2. /\ LInv /\ Joining("refill") /\ [Next]_vars =>
           (Joining("refill") \/ Joining("take") \/ Joining("head"))'
      /\ LInv /\ Joining("refill") /\ <<Reader>>_vars => (Joining("take") \/ Joining("head"))'
  <2>1. LInv /\ Joining("refill") /\ Reader => (Joining("take") \/ Joining("head"))'
    BY DEF Joining, Reader, ReaderHead, RefillOk, RefillFail, TakeBuffer, Fill, Push,
       StillAway, Reopened
  <2>2. QED
    BY <2>1, JoiningSteps DEF Joining, vars
<1>3. /\ LInv /\ Joining("take") /\ [Next]_vars => (Joining("take") \/ Joining("fill"))'
      /\ LInv /\ Joining("take") /\ <<Reader>>_vars => Joining("fill")'
  <2>1. LInv /\ Joining("take") /\ Reader => Joining("fill")'
    BY DEF Joining, Reader, ReaderHead, RefillOk, RefillFail, TakeBuffer, Fill, Push,
       StillAway, Reopened
  <2>2. QED
    BY <2>1, JoiningSteps DEF Joining, vars
<1>4. /\ LInv /\ Joining("fill") /\ [Next]_vars => (Joining("fill") \/ Joining("push"))'
      /\ LInv /\ Joining("fill") /\ <<Reader>>_vars => Joining("push")'
  <2>1. LInv /\ Joining("fill") /\ Reader => Joining("push")'
    BY DEF Joining, Reader, ReaderHead, RefillOk, RefillFail, TakeBuffer, Fill, Push,
       StillAway, Reopened
  <2>2. QED
    BY <2>1, JoiningSteps DEF Joining, vars
<1>5. /\ LInv /\ Joining("push") /\ [Next]_vars =>
           (Joining("push") \/ Joining("pause") \/ Joining("head"))'
      /\ LInv /\ Joining("push") /\ <<Reader>>_vars => (Joining("pause") \/ Joining("head"))'
  <2>1. LInv /\ Joining("push") /\ Reader => (Joining("pause") \/ Joining("head"))'
    BY DEF Joining, Reader, ReaderHead, RefillOk, RefillFail, TakeBuffer, Fill, Push,
       StillAway, Reopened
  <2>2. QED
    BY <2>1, JoiningSteps DEF Joining, vars
<1>6. /\ LInv /\ Joining("pause") /\ [Next]_vars => (Joining("pause") \/ Joining("head"))'
      /\ LInv /\ Joining("pause") /\ <<Reader>>_vars => Joining("head")'
  <2>1. LInv /\ Joining("pause") /\ Reader => Joining("head")'
    BY DEF Joining, Reader, ReaderHead, RefillOk, RefillFail, TakeBuffer, Fill, Push,
       StillAway, Reopened
  <2>2. QED
    BY <2>1, JoiningSteps DEF Joining, vars
<1>7. /\ LInv /\ Joining("head") /\ [Next]_vars => (Joining("head") \/ Joining("done"))'
      /\ LInv /\ Joining("head") /\ <<Reader>>_vars => Joining("done")'
  <2>1. LInv /\ Joining("head") /\ Reader => Joining("done")'
    BY DEF Joining, Reader, ReaderHead, RefillOk, RefillFail, TakeBuffer, Fill, Push,
       StillAway, Reopened, LInv, ThreadLives
  <2>2. QED
    BY <2>1, JoiningSteps DEF Joining, vars
<1>8. /\ Joining("done") => ConsumerGuards
      /\ Joining("done") /\ [Next]_vars => (Joining("done") \/ dsp = "done")'
      /\ Joining("done") /\ <<NextBlock \/ Wake \/ Process \/ Joined>>_vars => (dsp = "done")'
  BY DEF Joining, ConsumerGuards, Next, Reader, ReaderHead, RefillOk, RefillFail, TakeBuffer,
     Fill, Push, StillAway, Reopened, Consumer, NextBlock, Wake, Process, Shutdown, Joined, vars
<1>9. LInv /\ dsp = "joining" =>
        \/ Joining("refill") \/ Joining("take") \/ Joining("fill") \/ Joining("push")
        \/ Joining("pause") \/ Joining("head") \/ Joining("done")
  BY DEF Joining, LInv, IInv, TypeOK
<1>10. /\ LInv /\ Joining("refill") => ReaderGuards
       /\ LInv /\ Joining("take") => ReaderGuards
       /\ LInv /\ Joining("fill") => ReaderGuards
       /\ LInv /\ Joining("push") => ReaderGuards
       /\ LInv /\ Joining("pause") => ReaderGuards
       /\ LInv /\ Joining("head") => ReaderGuards
  BY <1>1
<1>11. QED
  BY <1>2, <1>3, <1>4, <1>5, <1>6, <1>7, <1>8, <1>9, <1>10, Liveliness, PTL
     DEF Spec, Fairness, ReaderCanStep, ConsumerCanStep, ShutdownEnds

\* While the loop waits and the bound is not reached, the reader is at r with
\* the link up or down, and nothing is queued; then something is.
Starved(r) == dsp = "wait" /\ produced # MaxBlocks /\ ready = <<>> /\ reader = r
StarvedAtHead(up) == Starved("head") /\ linkUp = up
Fed == dsp = "wait" /\ produced # MaxBlocks /\ ready # <<>>
Unstalled == dsp # "wait" \/ produced = MaxBlocks

\* While nothing is queued the waiting loop does not move: only the reader does.
LEMMA StarvedSteps ==
  ASSUME LInv, [Next]_vars, dsp = "wait", ready = <<>>
  PROVE  Reader \/ UNCHANGED vars
BY DEF Next, Consumer, NextBlock, Wake, TakeReady, Process, Shutdown, Joined

\* The block the reader pushes is there to be taken.
LEMMA PushQueues == LInv /\ Push => ready' # <<>>
<1> SUFFICES ASSUME LInv, Push PROVE ready' # <<>>
  OBVIOUS
<1>1. filling \in Buffers /\ ready \in Seq(Buffers) /\ ready' = Append(ready, filling)
  BY DEF Push, LInv, IInv, TypeOK, ReaderHolds
<1>2. Len(ready') = Len(ready) + 1 /\ Len(ready) \in Nat
  BY <1>1, QueueAppend
<1>3. QED
  BY <1>2

\* A block once queued for the waiting loop is not all given up: the loop holds
\* none, so a reader that finds no free buffer finds two blocks queued at least.
LEMMA FedStays == LInv /\ Fed /\ [Next]_vars => (Fed \/ Unstalled)'
<1> SUFFICES ASSUME LInv, Fed, [Next]_vars, dsp' = "wait" PROVE ready' # <<>>
  BY DEF Fed, Unstalled
<1> ready \in Seq(Buffers) /\ ready # <<>> /\ dsp = "wait" /\ current = NoBuffer
  BY DEF LInv, IInv, TypeOK, ConsumerHolds, Fed
<1>1. CASE TakeBuffer /\ DropOldest
  <2>1. filling = NoBuffer /\ free = {}
    BY <1>1 DEF TakeBuffer, DropOldest, LInv, IInv, ReaderHolds
  <2>2. Buffers = Queued
    BY <2>1 DEF LInv, IInv, PoolPartition, Held
  <2>3. Len(ready) = 1 => Queued = {ready[1]}
    BY DEF Queued
  <2>4. Len(ready) # 1
    BY <2>2, <2>3, SampleSourceAssumption
  <2>5. ready' = Tail(ready)
    BY <1>1 DEF DropOldest
  <2>6. /\ Tail(ready) \in Seq(Buffers) /\ Len(Tail(ready)) = Len(ready) - 1
        /\ Len(ready) \in Nat \ {0}
    BY QueueTail
  <2>7. Len(Tail(ready)) > 0
    BY <2>4, <2>6
  <2>8. \A s \in Seq(Buffers) : Len(s) > 0 => s # <<>>
    OBVIOUS
  <2>9. Tail(ready) # <<>>
    BY <2>6, <2>7, <2>8, Zenon
  <2>10. QED
    BY <2>5, <2>9, Zenon
<1>2. CASE Push
  BY <1>2, PushQueues
<1>3. CASE UNCHANGED ready
  BY <1>3
<1>4. QED
  BY <1>1, <1>2, <1>3 DEF Next, Reader, ReaderHead, RefillOk, RefillFail, TakeBuffer, TakeFree,
     Fill, StillAway, Reopened, Consumer, NextBlock, Wake, Process, Shutdown, Joined, TakeReady,
     pool, vars

\* next_block() returns: with the link up or down the reader queues a block, of
\* samples or of silence, and the block reaches the loop before the pool takes
\* it back.
THEOREM LoopNeverStalls == Spec /\ []ReaderCanStep /\ []ConsumerCanStep => NoStall
<1>1. LInv /\ dsp = "wait" => ~stop
  BY DEF LInv, ThreadLives
<1>2. /\ LInv /\ Starved("pause") => ReaderGuards
      /\ LInv /\ Starved("pause") /\ [Next]_vars =>
           (Starved("pause") \/ StarvedAtHead(TRUE) \/ StarvedAtHead(FALSE))'
      /\ LInv /\ Starved("pause") /\ <<Reader>>_vars =>
           (StarvedAtHead(TRUE) \/ StarvedAtHead(FALSE))'
  <2>1. LInv /\ Starved("pause") /\ Reader => (StarvedAtHead(TRUE) \/ StarvedAtHead(FALSE))'
    BY DEF Starved, StarvedAtHead, Fed, Unstalled, Reader, ReaderHead, RefillOk,
       RefillFail, TakeBuffer, TakeFree, DropOldest, Fill, Push, StillAway,
       Reopened, pool, counts, LInv, IInv, TypeOK
  <2>2. LInv /\ Starved("pause") => ReaderGuards
    BY ReaderNeverBlocks DEF Starved, StarvedAtHead, LInv, IInv, TypeOK, ThreadLives
  <2>3. QED
    BY <2>1, <2>2, StarvedSteps DEF Starved, StarvedAtHead, vars, pool, counts
<1>3. /\ LInv /\ StarvedAtHead(TRUE) => ReaderGuards
      /\ LInv /\ StarvedAtHead(TRUE) /\ [Next]_vars =>
           (StarvedAtHead(TRUE) \/ Starved("refill"))'
      /\ LInv /\ StarvedAtHead(TRUE) /\ <<Reader>>_vars => (Starved("refill"))'
  <2>1. LInv /\ StarvedAtHead(TRUE) /\ Reader => (Starved("refill"))'
    BY <1>1 DEF Starved, StarvedAtHead, Fed, Unstalled, Reader, ReaderHead, RefillOk,
       RefillFail, TakeBuffer, TakeFree, DropOldest, Fill, Push, StillAway,
       Reopened, pool, counts, LInv, IInv, TypeOK
  <2>2. LInv /\ StarvedAtHead(TRUE) => ReaderGuards
    BY ReaderNeverBlocks DEF Starved, StarvedAtHead, LInv, IInv, TypeOK, ThreadLives
  <2>3. QED
    BY <2>1, <2>2, StarvedSteps DEF Starved, StarvedAtHead, vars, pool, counts
<1>4. /\ LInv /\ Starved("refill") => ReaderGuards
      /\ LInv /\ Starved("refill") /\ [Next]_vars =>
           (Starved("refill") \/ Starved("take") \/ StarvedAtHead(FALSE))'
      /\ LInv /\ Starved("refill") /\ <<Reader>>_vars =>
           (Starved("take") \/ StarvedAtHead(FALSE))'
  <2>1. LInv /\ Starved("refill") /\ Reader => (Starved("take") \/ StarvedAtHead(FALSE))'
    BY DEF Starved, StarvedAtHead, Fed, Unstalled, Reader, ReaderHead, RefillOk,
       RefillFail, TakeBuffer, TakeFree, DropOldest, Fill, Push, StillAway,
       Reopened, pool, counts, LInv, IInv, TypeOK
  <2>2. LInv /\ Starved("refill") => ReaderGuards
    BY ReaderNeverBlocks DEF Starved, StarvedAtHead, LInv, IInv, TypeOK, ThreadLives
  <2>3. QED
    BY <2>1, <2>2, StarvedSteps DEF Starved, StarvedAtHead, vars, pool, counts
<1>5. /\ LInv /\ StarvedAtHead(FALSE) => ReaderGuards
      /\ LInv /\ StarvedAtHead(FALSE) /\ [Next]_vars =>
           (StarvedAtHead(FALSE) \/ Starved("take"))'
      /\ LInv /\ StarvedAtHead(FALSE) /\ <<Reader>>_vars => (Starved("take"))'
  <2>1. LInv /\ StarvedAtHead(FALSE) /\ Reader => (Starved("take"))'
    BY <1>1 DEF Starved, StarvedAtHead, Fed, Unstalled, Reader, ReaderHead, RefillOk,
       RefillFail, TakeBuffer, TakeFree, DropOldest, Fill, Push, StillAway,
       Reopened, pool, counts, LInv, IInv, TypeOK
  <2>2. LInv /\ StarvedAtHead(FALSE) => ReaderGuards
    BY ReaderNeverBlocks DEF Starved, StarvedAtHead, LInv, IInv, TypeOK, ThreadLives
  <2>3. QED
    BY <2>1, <2>2, StarvedSteps DEF Starved, StarvedAtHead, vars, pool, counts
<1>6. /\ LInv /\ Starved("take") => ReaderGuards
      /\ LInv /\ Starved("take") /\ [Next]_vars => (Starved("take") \/ Starved("fill"))'
      /\ LInv /\ Starved("take") /\ <<Reader>>_vars => (Starved("fill"))'
  <2>1. LInv /\ Starved("take") /\ Reader => (Starved("fill"))'
    BY DEF Starved, StarvedAtHead, Fed, Unstalled, Reader, ReaderHead, RefillOk,
       RefillFail, TakeBuffer, TakeFree, DropOldest, Fill, Push, StillAway,
       Reopened, pool, counts, LInv, IInv, TypeOK
  <2>2. LInv /\ Starved("take") => ReaderGuards
    BY ReaderNeverBlocks DEF Starved, StarvedAtHead, LInv, IInv, TypeOK, ThreadLives
  <2>3. QED
    BY <2>1, <2>2, StarvedSteps DEF Starved, StarvedAtHead, vars, pool, counts
<1>7. /\ LInv /\ Starved("fill") => ReaderGuards
      /\ LInv /\ Starved("fill") /\ [Next]_vars => (Starved("fill") \/ Starved("push"))'
      /\ LInv /\ Starved("fill") /\ <<Reader>>_vars => (Starved("push"))'
  <2>1. LInv /\ Starved("fill") /\ Reader => (Starved("push"))'
    BY DEF Starved, StarvedAtHead, Fed, Unstalled, Reader, ReaderHead, RefillOk,
       RefillFail, TakeBuffer, TakeFree, DropOldest, Fill, Push, StillAway,
       Reopened, pool, counts, LInv, IInv, TypeOK
  <2>2. LInv /\ Starved("fill") => ReaderGuards
    BY ReaderNeverBlocks DEF Starved, StarvedAtHead, LInv, IInv, TypeOK, ThreadLives
  <2>3. QED
    BY <2>1, <2>2, StarvedSteps DEF Starved, StarvedAtHead, vars, pool, counts
<1>8. /\ LInv /\ Starved("push") => ReaderGuards
      /\ LInv /\ Starved("push") /\ [Next]_vars => (Starved("push") \/ Fed \/ Unstalled)'
      /\ LInv /\ Starved("push") /\ <<Reader>>_vars => (Fed \/ Unstalled)'
  <2>1. LInv /\ Starved("push") /\ Reader => (Fed \/ Unstalled)'
    BY PushQueues DEF Starved, StarvedAtHead, Fed, Unstalled, Reader, ReaderHead, RefillOk,
       RefillFail, TakeBuffer, TakeFree, DropOldest, Fill, Push, StillAway,
       Reopened, pool, counts, LInv, IInv, TypeOK
  <2>2. LInv /\ Starved("push") => ReaderGuards
    BY ReaderNeverBlocks DEF Starved, StarvedAtHead, LInv, IInv, TypeOK, ThreadLives
  <2>3. QED
    BY <2>1, <2>2, StarvedSteps DEF Starved, StarvedAtHead, vars, pool, counts
<1>9. /\ LInv /\ Fed => ConsumerGuards
      /\ LInv /\ Fed /\ [Next]_vars => (Fed \/ Unstalled)'
      /\ Fed /\ <<NextBlock \/ Wake \/ Process \/ Joined>>_vars => Unstalled'
  BY FedStays DEF Fed, ConsumerGuards, Unstalled, NextBlock, Wake, Process, Joined, TakeReady
<1>10. LInv =>
        \/ Unstalled \/ Fed \/ Starved("pause") \/ StarvedAtHead(TRUE) \/ StarvedAtHead(FALSE)
        \/ Starved("refill") \/ Starved("take") \/ Starved("fill") \/ Starved("push")
  BY DEF Unstalled, Fed, Starved, StarvedAtHead, LInv, IInv, TypeOK, ThreadLives
<1>11. Unstalled <=> (dsp # "wait" \/ produced = MaxBlocks)
  BY DEF Unstalled
<1>12. QED
  BY <1>1, <1>2, <1>3, <1>4, <1>5, <1>6, <1>7, <1>8, <1>9, <1>10, <1>11, Liveliness, PTL
     DEF Spec, Fairness, ReaderCanStep, ConsumerCanStep, NoStall
=============================================================================

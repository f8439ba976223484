--------------------------- MODULE StatusPortProofs ---------------------------
(***************************************************************************)
(* Theorems about what the HTTP workers of the status port do.             *)
(*                                                                         *)
(* BandScan, for every number of workers, scan length and timeout: a       *)
(* handler is only ever given a whole scan, made after it asked; and       *)
(* for a timeout that covers one scan per worker, it is refused one only   *)
(* after a stall.                                                          *)
(*                                                                         *)
(* HttpServer, for every number of workers and connections and every limit *)
(* of the queue: an accepted connection has one owner and is closed once,  *)
(* and while one is queued, no worker waits for it in vain.                *)
(***************************************************************************)
EXTENDS BandScan, HttpServer, SequenceTheorems, FiniteSetTheorems, TLAPS

-----------------------------------------------------------------------------
(* BandScan.                                                               *)

USE BandScanAssumption

\* The loop follows the requests, and reports no scan it has not published.
Order == done <= psd.of /\ psd.of <= seen /\ seen <= req

\* What the periodogram holds, and what is left to feed, make one scan.
Feeding ==
  /\ seen > 0 => fed + feedLeft = FeedBlocks
  /\ seen = 0 => feedLeft = 0
  /\ rt \in {"publish", "done"} => seen > 0 /\ feedLeft = 0
  /\ rt = "done" => psd.of = seen

\* Whatever has been published is a whole scan.
Published == psd.of > 0 => psd.blocks = FeedBlocks

\* A handler that polls has asked; one that copies has been answered.
Handlers ==
  \A w \in Workers :
    /\ want[w] <= req
    /\ handler[w] # "idle" => want[w] > 0
    /\ handler[w] = "copy" => want[w] <= done
    /\ handler[w] = "sleep" => waited[w] < Timeout

IInv == TypeOK /\ Order /\ Feeding /\ Published /\ Handlers /\ AnswerIsFresh

LEMMA InitOK == Init => IInv
  BY DEF Init, IInv, TypeOK, Order, Feeding, Published, Handlers, AnswerIsFresh, PsdType, NoPsd

LEMMA RequestPreserves ==
  ASSUME IInv, NEW w \in Workers, Request(w)
  PROVE  IInv'
<1>1. TypeOK'
  BY DEF IInv, TypeOK, Request, Step, loop
<1>2. Order' /\ Feeding' /\ Published'
  BY DEF IInv, TypeOK, Order, Feeding, Published, Request, loop
<1>3. Handlers' /\ AnswerIsFresh'
  BY DEF IInv, TypeOK, Handlers, AnswerIsFresh, Request, Step, loop
<1>4. QED
  BY <1>1, <1>2, <1>3 DEF IInv

LEMMA HandlerPreserves ==
  ASSUME IInv, NEW w \in Workers, Handler(w) \/ Reply(w)
  PROVE  IInv'
<1>1. TypeOK'
  BY DEF IInv, TypeOK, Handler, Complete, Sleep, GiveUp, Copy, Reply, Step, loop, PsdType, NoPsd
<1>2. Order' /\ Feeding' /\ Published'
  BY DEF IInv, Order, Feeding, Published, Handler, Complete, Sleep, GiveUp, Copy, Reply, loop
<1>3. Handlers'
  BY DEF IInv, TypeOK, Handlers, Handler, Complete, Sleep, GiveUp, Copy, Reply, Step, loop
<1>4. AnswerIsFresh'
  <2>1. CASE Copy(w)
    \* The handler has been answered, so what is published is for it.
    <3>1. psd.of >= want[w] /\ psd.blocks = FeedBlocks
      BY <2>1 DEF IInv, TypeOK, PsdType, Order, Published, Handlers, Copy, Step
    <3>2. QED
      BY <2>1, <3>1 DEF IInv, TypeOK, AnswerIsFresh, Copy, Step
  <2>2. CASE Complete(w) \/ Sleep(w) \/ GiveUp(w) \/ Reply(w)
    BY <2>2 DEF IInv, TypeOK, AnswerIsFresh, Complete, Sleep, GiveUp, Reply, Step
  <2>3. QED
    BY <2>1, <2>2 DEF Handler
<1>5. QED
  BY <1>1, <1>2, <1>3, <1>4 DEF IInv

LEMMA BlockPreserves ==
  ASSUME IInv, Block
  PROVE  IInv'
<1>1. TypeOK'
  BY DEF IInv, TypeOK, Block, Accumulate, http
<1>2. Order' /\ Feeding' /\ Published'
  BY DEF IInv, TypeOK, PsdType, Order, Feeding, Published, Block, Accumulate, http
<1>3. Handlers' /\ AnswerIsFresh'
  BY DEF IInv, Handlers, AnswerIsFresh, Block, http
<1>4. QED
  BY <1>1, <1>2, <1>3 DEF IInv

LEMMA PublishPreserves ==
  ASSUME IInv, Publish \/ Done
  PROVE  IInv'
<1>1. TypeOK'
  BY DEF IInv, TypeOK, Publish, Done, PsdType, http
<1>2. Order' /\ Feeding' /\ Published'
  <2>1. CASE Publish
    BY <2>1 DEF IInv, TypeOK, PsdType, Order, Feeding, Published, Publish, http
  <2>2. CASE Done
    BY <2>2 DEF IInv, TypeOK, PsdType, Order, Feeding, Published, Done, http
  <2>3. QED
    BY <2>1, <2>2
<1>3. Handlers' /\ AnswerIsFresh'
  \* done only grows.
  BY DEF IInv, TypeOK, PsdType, Order, Feeding, Handlers, AnswerIsFresh, Publish, Done, http
<1>4. QED
  BY <1>1, <1>2, <1>3 DEF IInv

LEMMA TickPreserves ==
  ASSUME IInv, Tick
  PROVE  IInv'
<1>1. TypeOK'
  <2>1. waited' \in [Workers -> 0 .. Timeout]
    BY DEF IInv, TypeOK, Handlers, Tick, WakeAll, Asleep
  <2>2. handler' \in [Workers -> {"idle", "check", "sleep", "copy", "200", "503"}]
    BY DEF IInv, TypeOK, Tick
  <2>3. QED
    BY <2>1, <2>2 DEF IInv, TypeOK, Tick, Asleep
<1>2. Order' /\ Feeding' /\ Published'
  BY DEF IInv, Order, Feeding, Published, Tick
<1>3. Handlers' /\ AnswerIsFresh'
  BY DEF IInv, TypeOK, Handlers, AnswerIsFresh, Tick, Asleep
<1>4. QED
  BY <1>1, <1>2, <1>3 DEF IInv

\* The inductive invariant holds in every reachable state.
THEOREM Invariance == Spec => []IInv
<1>1. IInv /\ [Next]_vars => IInv'
  <2> SUFFICES ASSUME IInv, [Next]_vars PROVE IInv'
    OBVIOUS
  <2>1. CASE UNCHANGED vars
    BY <2>1 DEF IInv, TypeOK, Order, Feeding, Published, Handlers, AnswerIsFresh,
                vars, loop, http
  <2>2. QED
    BY <2>1, RequestPreserves, HandlerPreserves, BlockPreserves, PublishPreserves,
       TickPreserves DEF Next, Loop
<1>2. QED
  BY InitOK, <1>1, PTL DEF Spec

\* Type correctness; in particular no handler polls past its timeout.
THEOREM TypeCorrect == Spec => []TypeOK
<1>1. IInv => TypeOK
  BY DEF IInv
<1>2. QED
  BY Invariance, <1>1, PTL

\* No handler is given the PSD of an earlier scan, or a part of one.
THEOREM ScanIsFresh == Spec => []AnswerIsFresh
<1>1. IInv => AnswerIsFresh
  BY DEF IInv
<1>2. QED
  BY Invariance, <1>1, PTL
-----------------------------------------------------------------------------
(* The timeout.  A scan is started over by each later request, and such a  *)
(* request occupies its worker until the scan is complete, so a handler    *)
(* waits through at most FeedBlocks - 1 blocks for each of the others and  *)
(* FeedBlocks blocks of its own.  A timeout that covers those is never hit *)
(* while blocks arrive.                                                    *)

Pending(w) == done < want[w]

\* The requests after w's that have started the accumulation over.
Restarts(w) == {v \in Workers : want[w] < want[v] /\ want[v] <= seen}

\* The block that has been counted in waited and not yet in fed.
Due == IF rt = "block" THEN 1 ELSE 0

\* Requests are told apart, and a handler's locals are set while it runs.
Locals ==
  /\ \A v, w \in Workers : want[v] = want[w] /\ want[v] > 0 => v = w
  /\ \A w \in Workers : /\ handler[w] = "idle" => want[w] = 0 /\ waited[w] = 0
                        /\ handler[w] \in {"copy", "200"} => want[w] <= done
                        /\ w \in stalled => want[w] > 0

\* While an answer is due, there is something left to feed.
Owing == rt \in {"wait", "block"} /\ done < seen => feedLeft > 0

\* Whoever waited through a stall, so did those who had asked before ...
StallOrder ==
  \A v, w \in Workers : Pending(w) /\ want[w] < want[v] /\ v \in stalled => w \in stalled

\* ... and the last to ask is still there, or else all have been through one.
Latest ==
  done < req => \/ \E v \in Workers : want[v] = req
                \/ \A w \in Workers : Pending(w) => w \in stalled

\* How long a handler may have waited, if no block failed to arrive.
Patience(w) ==
  IF want[w] <= seen
  THEN waited[w] <= (FeedBlocks - 1) * Cardinality(Restarts(w)) + fed + Due
  ELSE waited[w] <= Due

Waits == \A w \in Workers : Pending(w) /\ w \notin stalled => Patience(w)

TInv == Locals /\ Owing /\ StallOrder /\ Latest /\ Waits /\ RefusalIsHonest

\* There are finitely many workers, and the timeout covers their scans.
TimeoutCovers ==
  IsFiniteSet(Workers) /\ Timeout > (FeedBlocks - 1) * Cardinality(Workers) + 1

LEMMA TimingInit == Init => TInv
  BY DEF Init, TInv, Locals, Owing, StallOrder, Latest, Waits, Pending, RefusalIsHonest

LEMMA RequestTiming ==
  ASSUME IInv, TInv, NEW w \in Workers, Request(w)
  PROVE  TInv'
<1>1. /\ want' = [want EXCEPT ![w] = req + 1] /\ req' = req + 1
      /\ handler' = [handler EXCEPT ![w] = "check"]
      /\ handler[w] = "idle" /\ want[w] = 0 /\ waited[w] = 0 /\ w \notin stalled
      /\ UNCHANGED <<done, seen, feedLeft, fed, psd, rt, waited, copy, stalled>>
      /\ done <= req /\ seen <= req /\ req \in Nat /\ done \in Nat /\ seen \in Nat
      /\ want \in [Workers -> Nat] /\ handler[w] # "503"
      /\ \A v \in Workers : want[v] <= req
  BY DEF IInv, TypeOK, PsdType, Order, Handlers, TInv, Locals, Request, Step, loop
<1>2. Locals' /\ Owing' /\ RefusalIsHonest'
  BY <1>1 DEF IInv, TypeOK, TInv, Locals, Owing, RefusalIsHonest
<1>3. StallOrder' /\ Latest'
  BY <1>1 DEF TInv, StallOrder, Latest, Pending
<1>4. ASSUME NEW v \in Workers, v # w, Pending(v), v \notin stalled
      PROVE  Patience(v)'
  <2>1. Restarts(v)' = Restarts(v) /\ want'[v] = want[v]
    BY <1>1, <1>4 DEF Restarts, Pending
  <2>2. Patience(v)
    BY <1>4 DEF TInv, Waits
  <2>3. QED
    BY <1>1, <2>1, <2>2 DEF Patience, Due
<1>5. Patience(w)'
  BY <1>1 DEF Patience, Due
<1>6. Waits'
  BY <1>1, <1>4, <1>5 DEF Waits, Pending
<1>7. QED
  BY <1>2, <1>3, <1>6 DEF TInv

\* The bound that refutes a refusal without a stall.
LEMMA NoPatienceLeft ==
  ASSUME IInv, TInv, TimeoutCovers, NEW w \in Workers, GiveUp(w)
  PROVE  w \in stalled
<1> SUFFICES ASSUME w \notin stalled PROVE FALSE
  OBVIOUS
<1>1. /\ Pending(w) /\ Patience(w) /\ waited[w] >= Timeout
  BY DEF GiveUp, Pending, TInv, Waits
<1>2. /\ Restarts(w) \subseteq Workers \ {w} /\ IsFiniteSet(Workers)
  BY DEF Restarts, TimeoutCovers, IInv, TypeOK
<1>3. /\ Cardinality(Workers \ {w}) = Cardinality(Workers) - 1 /\ IsFiniteSet(Workers \ {w})
      /\ Cardinality(Workers) \in Nat
  BY <1>2, FS_RemoveElement, FS_CardinalityType
<1>4. /\ Cardinality(Restarts(w)) <= Cardinality(Workers) - 1
      /\ Cardinality(Restarts(w)) \in Nat
  BY <1>2, <1>3, FS_Subset, FS_CardinalityType
<1>5. /\ fed \in Nat /\ waited[w] \in Nat /\ feedLeft \in Nat /\ seen \in Nat /\ done \in Nat
      /\ want[w] \in Nat /\ done < want[w] /\ (seen > 0 => fed + feedLeft = FeedBlocks)
      /\ (rt = "block" /\ done < seen => feedLeft > 0)
  BY <1>1 DEF IInv, TypeOK, Feeding, TInv, Owing, Pending
<1> DEFINE R == Cardinality(Restarts(w))
           N == Cardinality(Workers)
<1>6. Due \in {0, 1} /\ (want[w] <= seen => fed + Due <= FeedBlocks)
  BY <1>5 DEF Due
<1>7. /\ (FeedBlocks - 1) * R \in Int /\ (FeedBlocks - 1) * N \in Nat
      /\ (FeedBlocks - 1) * R <= (FeedBlocks - 1) * (N - 1)
      /\ (FeedBlocks - 1) * (N - 1) = (FeedBlocks - 1) * N - FeedBlocks + 1
  <2>1. \A f, r, n \in Nat : r <= n - 1 =>
          /\ f * r \in Int /\ f * n \in Nat
          /\ f * r <= f * (n - 1) /\ f * (n - 1) = f * n - f
    OBVIOUS
  <2>2. FeedBlocks - 1 \in Nat
    OBVIOUS
  <2> HIDE DEF R, N
  <2>3. QED
    BY <1>3, <1>4, <2>1, <2>2 DEF R, N
<1> HIDE DEF R, N
<1>8. CASE want[w] <= seen
  <2>1. waited[w] <= (FeedBlocks - 1) * R + fed + Due
    BY <1>1, <1>8 DEF Patience, R
  <2>2. Timeout > (FeedBlocks - 1) * N + 1
    BY DEF TimeoutCovers, N
  <2>3. QED
    BY <1>1, <1>5, <1>6, <1>7, <1>8, <2>1, <2>2
<1>9. CASE want[w] > seen
  <2>1. waited[w] <= Due
    BY <1>1, <1>5, <1>9 DEF Patience
  <2>2. Timeout > (FeedBlocks - 1) * N + 1
    BY DEF TimeoutCovers, N
  <2>3. QED
    BY <1>1, <1>5, <1>6, <1>7, <2>1, <2>2
<1>10. QED
  BY <1>5, <1>8, <1>9

LEMMA HandlerTiming ==
  ASSUME IInv, TInv, TimeoutCovers, NEW w \in Workers, Handler(w)
  PROVE  TInv'
<1>1. /\ UNCHANGED <<done, seen, feedLeft, fed, psd, rt, req, want, waited, stalled>>
      /\ \E to \in {"copy", "sleep", "503", "200"} : handler' = [handler EXCEPT ![w] = to]
      /\ handler \in [Workers -> {"idle", "check", "sleep", "copy", "200", "503"}]
      /\ handler[w] \in {"check", "copy"}
  BY DEF IInv, TypeOK, Handler, Complete, Sleep, GiveUp, Copy, Step, loop
<1>2. Owing' /\ StallOrder' /\ Latest' /\ Waits'
  BY <1>1 DEF TInv, Owing, StallOrder, Latest, Waits, Pending, Patience, Restarts, Due
<1>3. Locals'
  <2>1. handler'[w] \in {"copy", "200"} => want[w] <= done
    BY <1>1 DEF IInv, TypeOK, TInv, Locals, Handler, Complete, Sleep, GiveUp, Copy, Step
  <2>2. QED
    BY <1>1, <2>1 DEF TInv, Locals
<1>4. RefusalIsHonest'
  <2>1. handler'[w] = "503" => w \in stalled
    BY <1>1, NoPatienceLeft DEF Handler, Complete, Sleep, Copy, Step
  <2>2. QED
    BY <1>1, <2>1 DEF TInv, RefusalIsHonest
<1>5. QED
  BY <1>2, <1>3, <1>4 DEF TInv

LEMMA ReplyTiming ==
  ASSUME IInv, TInv, NEW w \in Workers, Reply(w)
  PROVE  TInv'
<1>1. /\ UNCHANGED <<done, seen, feedLeft, fed, psd, rt, req>>
      /\ want' = [want EXCEPT ![w] = 0] /\ waited' = [waited EXCEPT ![w] = 0]
      /\ handler' = [handler EXCEPT ![w] = "idle"] /\ stalled' = stalled \ {w}
      /\ want \in [Workers -> Nat] /\ waited \in [Workers -> 0 .. Timeout]
      /\ handler \in [Workers -> {"idle", "check", "sleep", "copy", "200", "503"}]
      /\ done \in Nat /\ req \in Nat /\ seen \in Nat
      /\ \A v \in Workers : want[v] <= req
  BY DEF IInv, TypeOK, Handlers, Reply, Step, loop
\* It was answered, or refused after a stall that the earlier ones saw too.
<1>2. want[w] <= done \/ w \in stalled
  BY DEF Reply, Step, TInv, Locals, RefusalIsHonest
<1>3. \A v \in Workers : Pending(v) /\ v \notin stalled => ~(want[v] < want[w])
  BY <1>1, <1>2 DEF TInv, StallOrder, Pending
<1>4. Locals' /\ Owing' /\ RefusalIsHonest'
  BY <1>1 DEF TInv, Locals, Owing, RefusalIsHonest
<1>5. StallOrder'
  BY <1>1 DEF TInv, StallOrder, Pending
<1>6. Latest'
  <2> SUFFICES ASSUME done < req, ~ \E v \in Workers : want'[v] = req,
                      NEW u \in Workers, done < want'[u]
               PROVE  u \in stalled'
    BY <1>1 DEF Latest, Pending
  <2>1. u # w /\ want'[u] = want[u] /\ Pending(u)
    BY <1>1 DEF Pending
  <2>2. CASE \E v \in Workers : want[v] = req
    <3>1. want[w] = req
      BY <1>1, <2>2
    <3>2. want[u] < want[w]
      BY <1>1, <2>1, <3>1 DEF TInv, Locals
    <3>3. QED
      BY <1>1, <1>3, <2>1, <3>2
  <2>3. CASE ~ \E v \in Workers : want[v] = req
    BY <1>1, <2>1, <2>3 DEF TInv, Latest
  <2>4. QED
    BY <2>2, <2>3
<1>7. Waits'
  <2> SUFFICES ASSUME NEW u \in Workers, Pending(u)', u \notin stalled'
               PROVE  Patience(u)'
    BY DEF Waits
  <2>1. u # w /\ want'[u] = want[u] /\ waited'[u] = waited[u] /\ Pending(u) /\ u \notin stalled
    BY <1>1 DEF Pending
  <2>2. Restarts(u)' = Restarts(u)
    BY <1>1, <1>3, <2>1 DEF Restarts
  <2>3. Patience(u)
    BY <2>1 DEF TInv, Waits
  <2>4. QED
    BY <1>1, <2>1, <2>2, <2>3 DEF Patience, Due
<1>8. QED
  BY <1>4, <1>5, <1>6, <1>7 DEF TInv

\* A block that starts the accumulation over does so for a later request, whose
\* handler is still there; it costs the earlier ones less than a whole scan.
LEMMA BlockTiming ==
  ASSUME IInv, TInv, TimeoutCovers, Block
  PROVE  TInv'
<1>1. /\ UNCHANGED <<done, psd, req, handler, want, waited, copy, stalled>>
      /\ rt = "block" /\ rt' \in {"publish", "wait"} /\ Due = 1 /\ Due' = 0
      /\ done \in Nat /\ seen \in Nat /\ req \in Nat /\ fed \in Nat /\ feedLeft \in 0 .. FeedBlocks
      /\ done <= seen /\ seen <= req /\ waited \in [Workers -> 0 .. Timeout]
      /\ want \in [Workers -> Nat] /\ (\A v \in Workers : want[v] <= req)
      /\ (seen > 0 => fed + feedLeft = FeedBlocks) /\ (done < seen => feedLeft > 0)
  BY DEF IInv, TypeOK, PsdType, Order, Handlers, Feeding, TInv, Owing, Block, Accumulate, http, Due
<1>2. Locals' /\ StallOrder' /\ Latest' /\ RefusalIsHonest'
  BY <1>1 DEF TInv, Locals, StallOrder, Latest, Pending, RefusalIsHonest
<1>3. \A w \in Workers : /\ Restarts(w) \subseteq Workers
                         /\ IsFiniteSet(Restarts(w)) /\ Cardinality(Restarts(w)) \in Nat
                         /\ IsFiniteSet(Restarts(w)') /\ Cardinality(Restarts(w)') \in Nat
  BY FS_Subset, FS_CardinalityType DEF Restarts, TimeoutCovers
<1>4. CASE req # seen
  <2>1. /\ seen' = req /\ fed' = 1 /\ feedLeft' = FeedBlocks - 1
        /\ rt' = IF FeedBlocks = 1 THEN "publish" ELSE "wait"
    BY <1>4 DEF Block, Accumulate
  <2>2. Owing'
    BY <2>1 DEF Owing
  <2>3. ASSUME NEW w \in Workers, Pending(w), w \notin stalled
        PROVE  Patience(w)'
    <3> DEFINE r == Cardinality(Restarts(w))
               s == Cardinality(Restarts(w)')
    <3>1. Patience(w) /\ r \in Nat /\ s \in Nat /\ done < want[w] /\ waited[w] \in Nat
      BY <1>1, <1>3, <2>3 DEF TInv, Waits, Pending
    <3>2. Patience(w)' <=> waited[w] <= (FeedBlocks - 1) * s + 1
      <4>1. /\ want'[w] <= seen' /\ waited'[w] = waited[w] /\ fed' = 1 /\ Due' = 0
            /\ (FeedBlocks - 1) * s \in Int
        BY <1>1, <2>1, <3>1
      <4>2. Patience(w)' <=> waited[w] <= (FeedBlocks - 1) * s + 1 + 0
        BY <4>1 DEF Patience
      <4> HIDE DEF s
      <4>3. QED
        BY <4>1, <4>2
    <3>3. CASE want[w] > seen
      <4>1. waited[w] <= 1
        BY <1>1, <3>1, <3>3 DEF Patience
      <4>2. \A f, n \in Nat : f * n \in Nat
        OBVIOUS
      <4>3. FeedBlocks - 1 \in Nat
        OBVIOUS
      <4> HIDE DEF s
      <4>4. QED
        BY <3>1, <3>2, <4>1, <4>2, <4>3
    <3>4. CASE want[w] <= seen
      <4>1. waited[w] <= (FeedBlocks - 1) * r + FeedBlocks
        <5>1. waited[w] <= (FeedBlocks - 1) * r + fed + 1 /\ fed + 1 <= FeedBlocks
          BY <1>1, <3>1, <3>4 DEF Patience
        <5>2. (FeedBlocks - 1) * r \in Int
          BY <3>1
        <5>3. QED
          BY <1>1, <3>1, <5>1, <5>2
      <4>2. PICK v \in Workers : want[v] = req
        BY <1>1, <1>4, <2>3 DEF TInv, Latest
      <4>3. v \notin Restarts(w) /\ Restarts(w) \cup {v} \subseteq Restarts(w)'
        BY <1>1, <1>4, <2>1, <3>4, <4>2 DEF Restarts
      <4>4. r + 1 <= s
        <5>1. Cardinality(Restarts(w) \cup {v}) = r + 1
          BY <1>3, <4>3, FS_AddElement
        <5>2. IsFiniteSet(Restarts(w)')
          BY <1>3
        <5>3. Cardinality(Restarts(w) \cup {v}) <= s
          BY <4>3, <5>2, FS_Subset
        <5>4. QED
          BY <5>1, <5>3
      <4>5. \A f, m, n \in Nat : m + 1 <= n => f * m + f <= f * n /\ f * m \in Nat /\ f * n \in Nat
        OBVIOUS
      <4>6. FeedBlocks - 1 \in Nat
        OBVIOUS
      <4> HIDE DEF r, s
      <4>7. QED
        BY <3>1, <3>2, <4>1, <4>4, <4>5, <4>6
    <3>5. QED
      BY <1>1, <3>3, <3>4
  <2>4. QED
    BY <1>1, <1>2, <2>2, <2>3 DEF TInv, Waits, Pending
<1>5. CASE req = seen
  <2>1. /\ seen' = seen
        /\ IF feedLeft > 0
           THEN fed' = fed + 1 /\ feedLeft' = feedLeft - 1
                /\ rt' = IF feedLeft = 1 THEN "publish" ELSE "wait"
           ELSE fed' = fed /\ feedLeft' = feedLeft /\ rt' = "wait"
    BY <1>5 DEF Block, Accumulate
  <2>2. Owing'
    BY <1>1, <2>1 DEF Owing
  <2>3. ASSUME NEW w \in Workers, Pending(w), w \notin stalled
        PROVE  Patience(w)'
    <3>1. want[w] <= seen /\ done < seen /\ feedLeft > 0
      BY <1>1, <1>5, <2>3 DEF Pending
    <3>2. waited[w] <= (FeedBlocks - 1) * Cardinality(Restarts(w)) + fed + 1
      BY <1>1, <2>3, <3>1 DEF TInv, Waits, Patience
    <3>3. Restarts(w)' = Restarts(w)
      BY <1>1, <2>1 DEF Restarts
    <3>4. (FeedBlocks - 1) * Cardinality(Restarts(w)) \in Int
      BY <1>3
    <3>5. QED
      BY <1>1, <2>1, <3>1, <3>2, <3>3, <3>4 DEF Patience
  <2>4. QED
    BY <1>1, <1>2, <2>2, <2>3 DEF TInv, Waits, Pending
<1>6. QED
  BY <1>4, <1>5

LEMMA PublishTiming ==
  ASSUME IInv, TInv, Publish \/ Done
  PROVE  TInv'
<1>1. /\ UNCHANGED <<seen, feedLeft, fed, req, handler, want, waited, copy, stalled>>
      /\ done \in Nat /\ seen \in Nat /\ want \in [Workers -> Nat] /\ req \in Nat
      /\ Due = 0 /\ Due' = 0 /\ done' \in Nat /\ done <= done' /\ done' \in {done, seen}
      /\ rt' = "wait" => done' = seen
      /\ rt' \in {"wait", "done"}
  BY DEF IInv, TypeOK, PsdType, Order, Publish, Done, http, Due
<1>2. Locals' /\ Owing' /\ StallOrder' /\ Latest' /\ RefusalIsHonest'
  BY <1>1 DEF TInv, Locals, Owing, StallOrder, Latest, Pending, RefusalIsHonest
<1>3. ASSUME NEW w \in Workers, Pending(w)', w \notin stalled
      PROVE  Patience(w)'
  <2>1. Patience(w)
    BY <1>1, <1>3 DEF TInv, Waits, Pending
  <2>2. QED
    BY <1>1, <2>1 DEF Patience, Restarts
<1>4. QED
  BY <1>1, <1>2, <1>3 DEF TInv, Waits

LEMMA TickTiming ==
  ASSUME IInv, TInv, TimeoutCovers, Tick
  PROVE  TInv'
<1>1. /\ UNCHANGED <<done, seen, feedLeft, fed, psd, req, want, copy>>
      /\ rt = "wait" /\ rt' \in {"wait", "block"} /\ Due = 0
      /\ \A w \in Workers : handler[w] \in {"idle", "sleep"}
      /\ handler' = [w \in Workers |-> IF w \in Asleep THEN "check" ELSE handler[w]]
      /\ waited' = [w \in Workers |-> waited[w] + (IF w \in Asleep THEN 1 ELSE 0)]
      /\ stalled' = IF rt' = "block" THEN stalled ELSE stalled \cup Asleep
      /\ waited \in [Workers -> 0 .. Timeout] /\ want \in [Workers -> Nat]
      /\ done \in Nat /\ seen \in Nat /\ req \in Nat /\ fed \in Nat
  BY DEF IInv, TypeOK, Tick, WakeAll, Due
<1>2. \A w \in Workers : want[w] > 0 => w \in Asleep
  BY <1>1 DEF TInv, Locals, Asleep
<1>3. Locals'
  <2>1. \A w \in Workers : w \in stalled' => want[w] > 0
    BY <1>1 DEF IInv, Handlers, Asleep, TInv, Locals
  <2>2. \A w \in Workers : handler'[w] = "idle" => want[w] = 0 /\ waited'[w] = 0
    BY <1>1, <1>2 DEF TInv, Locals, Asleep
  <2>3. QED
    BY <1>1, <2>1, <2>2 DEF TInv, Locals
<1>4. Owing' /\ RefusalIsHonest'
  BY <1>1 DEF TInv, Owing, RefusalIsHonest
<1>5. StallOrder' /\ Latest'
  BY <1>1, <1>2 DEF TInv, StallOrder, Latest, Pending
<1>6. ASSUME NEW w \in Workers, Pending(w), w \notin stalled'
      PROVE  Patience(w)'
  <2>1. w \in Asleep /\ rt' = "block" /\ w \notin stalled
    BY <1>1, <1>2, <1>6 DEF Pending
  <2>2. Patience(w) /\ Due' = 1 /\ waited'[w] = waited[w] + 1 /\ Restarts(w)' = Restarts(w)
    BY <1>1, <1>6, <2>1 DEF TInv, Waits, Due, Restarts
  <2>3. CASE want[w] <= seen
    <3> DEFINE b == (FeedBlocks - 1) * Cardinality(Restarts(w)) + fed
    <3>1. Cardinality(Restarts(w)) \in Nat
      BY FS_Subset, FS_CardinalityType DEF Restarts, TimeoutCovers
    <3>2. b \in Int /\ waited[w] \in Int
      BY <1>1, <3>1
    <3>3. waited[w] <= b + 0
      BY <1>1, <2>2, <2>3 DEF Patience
    <3>4. Patience(w)' <=> waited[w] + 1 <= b + 1
      BY <1>1, <2>2, <2>3 DEF Patience
    <3> HIDE DEF b
    <3>5. QED
      BY <3>2, <3>3, <3>4
  <2>4. CASE ~(want[w] <= seen)
    BY <1>1, <2>2, <2>4 DEF Patience
  <2>5. QED
    BY <2>3, <2>4
<1>7. QED
  BY <1>1, <1>3, <1>4, <1>5, <1>6 DEF TInv, Waits, Pending

\* A timeout that covers one scan per worker, less the block they share, is
\* enough: no scan is refused with 503 unless the source really stalled while it
\* waited, whatever requests come in between.
THEOREM RefusalMeansStall ==
  ASSUME TimeoutCovers
  PROVE  Spec => []RefusalIsHonest
<1>1. IInv /\ TInv /\ [Next]_vars => TInv'
  <2> SUFFICES ASSUME IInv, TInv, [Next]_vars PROVE TInv'
    OBVIOUS
  <2>1. CASE UNCHANGED vars
    BY <2>1 DEF TInv, Locals, Owing, StallOrder, Latest, Waits, RefusalIsHonest,
                Pending, Patience, Restarts, Due, vars, loop, http
  <2>2. QED
    BY <2>1, RequestTiming, HandlerTiming, ReplyTiming, BlockTiming, PublishTiming,
       TickTiming DEF Next, Loop
<1>2. TInv => RefusalIsHonest
  BY DEF TInv
<1>3. QED
  BY TimingInit, Invariance, <1>1, <1>2, PTL DEF Spec

-----------------------------------------------------------------------------
(* HttpServer: who owns an accepted connection.                            *)

\* What a queue holds, and that it holds nothing twice.
Items(q) == {q[i] : i \in 1 .. Len(q)}
NoRepeats(q) == \A i, j \in 1 .. Len(q) : q[i] = q[j] => i = j

LEMMA Appended ==
  ASSUME NEW S, NEW q \in Seq(S), NEW x \in S, NoRepeats(q), x \notin Items(q)
  PROVE  /\ Append(q, x) \in Seq(S) /\ Len(Append(q, x)) = Len(q) + 1
         /\ Items(Append(q, x)) = Items(q) \cup {x} /\ NoRepeats(Append(q, x))
<1> DEFINE r == Append(q, x)
<1>1. /\ r \in Seq(S) /\ Len(q) \in Nat /\ Len(r) = Len(q) + 1
      /\ \A i \in 1 .. Len(q) : r[i] = q[i]
      /\ r[Len(q) + 1] = x
  BY AppendProperties, LenProperties
<1> HIDE DEF r
<1>2. 1 .. Len(r) = (1 .. Len(q)) \cup {Len(q) + 1}
  BY <1>1
<1>3. Items(r) = Items(q) \cup {x}
  BY <1>1, <1>2 DEF Items
<1>4. NoRepeats(r)
  BY <1>1, <1>2 DEF Items, NoRepeats
<1>5. QED
  BY <1>1, <1>3, <1>4 DEF r

LEMMA Taken ==
  ASSUME NEW S, NEW q \in Seq(S), q # <<>>, NoRepeats(q)
  PROVE  /\ Head(q) \in S /\ Head(q) \in Items(q)
         /\ Tail(q) \in Seq(S) /\ Len(Tail(q)) = Len(q) - 1
         /\ Items(Tail(q)) = Items(q) \ {Head(q)} /\ NoRepeats(Tail(q))
<1> DEFINE t == Tail(q)
<1>1. /\ t \in Seq(S) /\ Len(q) \in Nat \ {0} /\ Len(t) = Len(q) - 1 /\ Head(q) \in S
      /\ Head(q) = q[1] /\ \A i \in 1 .. Len(t) : t[i] = q[i + 1]
  BY HeadTailProperties, LenProperties, EmptySeq
<1> HIDE DEF t
<1>2. Head(q) \in Items(q)
  BY <1>1 DEF Items
<1>3. Items(t) \subseteq Items(q) \ {Head(q)}
  BY <1>1 DEF Items, NoRepeats
<1>4. ASSUME NEW i \in 1 .. Len(q), q[i] # Head(q)
      PROVE  q[i] \in Items(t)
  <2>1. i - 1 \in 1 .. Len(t) /\ t[i - 1] = q[i]
    BY <1>1, <1>4
  <2>2. QED
    BY <2>1 DEF Items
<1>5. Items(q) \ {Head(q)} \subseteq Items(t)
  BY <1>4 DEF Items
<1>6. NoRepeats(t)
  BY <1>1 DEF NoRepeats
<1>7. QED
  BY <1>1, <1>2, <1>3, <1>5, <1>6 DEF t

\* What became of a connection says who holds it, and whether it was closed.
InHand == \A c \in Conns : held = c <=> conn[c] = "accepted"
InQueue == NoRepeats(queue) /\ \A c \in Conns : c \in Items(queue) <=> conn[c] = "queued"
InService ==
  /\ \A c \in Conns : conn[c] = "handled" <=> \E w \in WorkerThreads : serving[w] = c
  /\ \A v, w \in WorkerThreads : serving[v] = serving[w] /\ v # w => serving[v] = None
Counted == \A c \in Conns : closes[c] = IF conn[c] = "closed" THEN 1 ELSE 0

\* A thread holds a connection exactly at the step that is to pass it on.
Hands ==
  /\ held # None <=> acceptor = "push"
  /\ \A w \in WorkerThreads : serving[w] # None <=> at[w] = "handle"

\* The destructor goes on when its threads have left, and leaves nothing queued.
Joined ==
  /\ dtor \in {"notify", "join workers", "drain", "done"} => acceptor = "exit"
  /\ dtor \in {"drain", "done"} => \A w \in WorkerThreads : at[w] = "exit"
  /\ dtor = "done" => queue = <<>>

PortInv == PortTypeOK /\ InHand /\ InQueue /\ InService /\ Counted /\ Hands /\ Joined

LEMMA PortStart == PortInit => PortInv
<1> SUFFICES ASSUME PortInit PROVE PortInv
  OBVIOUS
<1>1. queue = <<>> /\ queue \in Seq(Conns) /\ Len(queue) = 0 /\ Items(queue) = {} /\ NoRepeats(queue)
  BY EmptySeq DEF PortInit, Items, NoRepeats
<1>2. PortTypeOK
  <2>1. Len(queue) <= MaxQueued
    BY <1>1, HttpServerAssumption
  <2>2. closes \in [Conns -> Nat]
    BY DEF PortInit
  <2>3. QED
    BY <1>1, <2>1, <2>2 DEF PortInit, PortTypeOK
<1>3. /\ \A c \in Conns : conn[c] = "new" /\ closes[c] = 0 /\ held # c
      /\ \A w \in WorkerThreads : serving[w] = None
      /\ None \notin Conns
  BY HttpServerAssumption DEF PortInit
<1>4. InHand /\ InQueue /\ InService /\ Counted
  BY <1>1, <1>3 DEF InHand, InQueue, InService, Counted
<1>5. Hands /\ Joined
  BY DEF PortInit, Hands, Joined
<1>6. QED
  BY <1>2, <1>4, <1>5 DEF PortInv

\* What counting one more x makes of a counter f.
LEMMA CountedOneMore ==
  ASSUME NEW S, NEW f \in [S -> Nat], NEW x \in S, NEW g, g = [f EXCEPT ![x] = f[x] + 1]
  PROVE  /\ g \in [S -> Nat] /\ g[x] = f[x] + 1
         /\ \A y \in S : y # x => g[y] = f[y]
<1>1. f[x] + 1 \in Nat
  OBVIOUS
<1>2. QED
  BY <1>1, Zenon

\* A step that passes no connection on keeps who holds what.
LEMMA NothingPassed ==
  ASSUME PortInv, UNCHANGED <<closes, queue, held, serving>>,
         \A c \in Conns : \/ conn'[c] = conn[c]
                          \/ {conn[c], conn'[c]} \subseteq {"new", "backlog", "reset"}
  PROVE  InHand' /\ InQueue' /\ InService' /\ Counted'
<1>1. \A c \in Conns, x \in {"accepted", "queued", "handled", "closed"} : conn'[c] = x <=> conn[c] = x
  OBVIOUS
<1>2. InHand' /\ Counted'
  BY <1>1 DEF PortInv, InHand, Counted
<1>3. InQueue'
  BY <1>1 DEF PortInv, InQueue
<1>4. InService'
  BY <1>1 DEF PortInv, InService
<1>5. QED
  BY <1>2, <1>3, <1>4

\* The accept thread: a connection passes from the backlog to it, and from it
\* to the queue or, when that is full, to its end.
LEMMA AcceptorKeeps ==
  ASSUME PortInv, Acceptor
  PROVE  PortInv'
<1>0. /\ PortTypeOK /\ InHand /\ InQueue /\ InService /\ Counted /\ Hands /\ Joined
      /\ None \notin Conns
  BY HttpServerAssumption DEF PortInv
<1>1. CASE AcceptTest \/ Poll
  <2>1. /\ UNCHANGED <<conn, closes, queue, listening, stop, held, at, serving, dtor>>
        /\ acceptor \in {"test", "poll"} /\ acceptor' \in {"exit", "poll", "accept", "test"}
    BY <1>1 DEF AcceptTest, Poll
  <2>2. PortTypeOK'
    BY <1>0, <2>1 DEF PortTypeOK
  <2>3. InHand' /\ InQueue' /\ InService' /\ Counted'
    BY <2>1, NothingPassed
  <2>4. Hands' /\ Joined'
    BY <1>0, <2>1 DEF Hands, Joined
  <2>5. QED
    BY <2>2, <2>3, <2>4 DEF PortInv
<1>2. CASE Accept
  <2>1. PICK c \in Conns : conn[c] = "backlog" /\ held' = c /\ conn' = [conn EXCEPT ![c] = "accepted"]
    BY <1>2 DEF Accept, Backlog
  <2>2. /\ acceptor = "accept" /\ acceptor' = "push" /\ held = None
        /\ UNCHANGED <<closes, queue, listening, stop, at, serving, dtor>>
    BY <1>0, <1>2 DEF Accept, Hands
  <2>3. PortTypeOK'
    BY <1>0, <2>1, <2>2 DEF PortTypeOK
  <2>4. conn'[c] = "accepted" /\ \A d \in Conns : d # c => conn'[d] = conn[d]
    BY <1>0, <2>1 DEF PortTypeOK
  <2>5. InHand' /\ Counted'
    BY <1>0, <2>1, <2>2, <2>4 DEF InHand, Counted
  <2>6. InQueue'
    BY <1>0, <2>1, <2>2, <2>4 DEF InQueue
  <2>7. InService'
    BY <1>0, <2>1, <2>2, <2>4 DEF InService
  <2>8. Hands' /\ Joined'
    BY <1>0, <2>1, <2>2 DEF Hands, Joined
  <2>9. QED
    BY <2>3, <2>5, <2>6, <2>7, <2>8 DEF PortInv
<1>3. CASE AcceptFails
  <2>1. /\ \/ conn' = conn
           \/ \E c \in Conns : conn[c] = "backlog" /\ conn' = [conn EXCEPT ![c] = "reset"]
        /\ acceptor = "accept" /\ acceptor' = "test"
        /\ UNCHANGED <<closes, queue, listening, stop, held, at, serving, dtor>>
    BY <1>3 DEF AcceptFails, Backlog
  <2>2. PortTypeOK'
    BY <1>0, <2>1 DEF PortTypeOK
  <2>3. \A c \in Conns : conn'[c] = conn[c] \/ {conn[c], conn'[c]} \subseteq {"new", "backlog", "reset"}
    BY <1>0, <2>1 DEF PortTypeOK
  <2>4. InHand' /\ InQueue' /\ InService' /\ Counted'
    BY <2>1, <2>3, NothingPassed
  <2>5. Hands' /\ Joined'
    BY <1>0, <2>1 DEF Hands, Joined
  <2>6. QED
    BY <2>2, <2>4, <2>5 DEF PortInv
<1>4. CASE Push
  <2>1. /\ acceptor = "push" /\ acceptor' = "test" /\ held' = None /\ held # None
        /\ UNCHANGED <<listening, stop, serving, dtor>>
    BY <1>0, <1>4 DEF Push, Hands
  <2>2. /\ held \in Conns /\ conn[held] = "accepted" /\ held \notin Items(queue)
        /\ \A w \in WorkerThreads : serving[w] # held
    BY <1>0, <2>1 DEF PortTypeOK, InHand, InQueue, InService
  <2>3. CASE Refuse
    <3>1. /\ closes' = [closes EXCEPT ![held] = closes[held] + 1]
          /\ conn' = [conn EXCEPT ![held] = "closed"] /\ UNCHANGED <<queue, at>>
      BY <2>3 DEF Refuse, Close
    <3>2. PortTypeOK'
      <4>1. closes' \in [Conns -> Nat]
        BY <1>0, <2>2, <3>1, CountedOneMore DEF PortTypeOK
      <4>2. conn' \in [Conns -> {"new", "backlog", "accepted", "queued", "handled", "closed", "reset"}]
        BY <1>0, <3>1 DEF PortTypeOK
      <4>3. QED
        BY <1>0, <2>1, <3>1, <4>1, <4>2 DEF PortTypeOK
    <3>3. /\ conn'[held] = "closed" /\ closes'[held] = closes[held] + 1
          /\ \A d \in Conns : d # held => conn'[d] = conn[d] /\ closes'[d] = closes[d]
      BY <1>0, <2>2, <3>1, CountedOneMore DEF PortTypeOK
    <3>4. InHand' /\ Counted'
      BY <1>0, <2>1, <2>2, <3>3 DEF InHand, Counted
    <3>5. InQueue'
      BY <1>0, <2>2, <3>1, <3>3 DEF InQueue
    <3>6. InService'
      BY <1>0, <2>1, <2>2, <3>3 DEF InService
    <3>7. Hands' /\ Joined'
      BY <1>0, <2>1, <3>1 DEF Hands, Joined
    <3>8. QED
      BY <3>2, <3>4, <3>5, <3>6, <3>7 DEF PortInv
  <2>4. CASE Len(queue) < MaxQueued /\ Enqueue
    <3>1. /\ queue' = Append(queue, held) /\ conn' = [conn EXCEPT ![held] = "queued"]
          /\ UNCHANGED closes
          /\ \/ at' = at
             \/ \E w \in WorkerThreads : at[w] = "asleep" /\ at' = [at EXCEPT ![w] = "test"]
      BY <2>4 DEF Enqueue, Waiters
    <3>2. queue \in Seq(Conns) /\ NoRepeats(queue)
      BY <1>0 DEF PortTypeOK, InQueue
    <3>3. /\ queue' \in Seq(Conns) /\ Len(queue') = Len(queue) + 1
          /\ Items(queue') = Items(queue) \cup {held} /\ NoRepeats(queue')
      BY <2>2, <3>1, <3>2, Appended
    <3>4. Len(queue') <= MaxQueued
      BY <2>4, <3>2, <3>3, LenProperties, HttpServerAssumption
    <3>5. /\ conn'[held] = "queued"
          /\ \A d \in Conns : d # held => conn'[d] = conn[d]
      BY <1>0, <2>2, <3>1 DEF PortTypeOK
    <3>6. /\ at' \in [WorkerThreads -> {"test", "blocking", "asleep", "handle", "exit"}]
          /\ \A w \in WorkerThreads : at'[w] = at[w] \/ (at[w] = "asleep" /\ at'[w] = "test")
      BY <1>0, <3>1 DEF PortTypeOK
    <3>7. conn' \in [Conns -> {"new", "backlog", "accepted", "queued", "handled", "closed", "reset"}]
      BY <1>0, <3>1 DEF PortTypeOK
    <3>8. PortTypeOK'
      BY <1>0, <2>1, <3>1, <3>3, <3>4, <3>6, <3>7 DEF PortTypeOK
    <3>9. InHand' /\ Counted'
      BY <1>0, <2>1, <2>2, <3>1, <3>5 DEF InHand, Counted
    <3>10. InQueue'
      BY <1>0, <2>2, <3>3, <3>5 DEF InQueue
    <3>11. InService'
      BY <1>0, <2>1, <2>2, <3>5 DEF InService
    <3>12. Hands' /\ Joined'
      BY <1>0, <2>1, <3>6 DEF Hands, Joined
    <3>13. QED
      BY <3>8, <3>9, <3>10, <3>11, <3>12 DEF PortInv
  <2>5. QED
    BY <1>4, <2>3, <2>4 DEF Push
<1>5. QED
  BY <1>1, <1>2, <1>3, <1>4 DEF Acceptor

\* A worker takes the oldest connection, and closes the one it served.
LEMMA WorkerKeeps ==
  ASSUME PortInv, NEW w \in WorkerThreads, Worker(w) \/ Wake(w)
  PROVE  PortInv'
<1>0. /\ PortTypeOK /\ InHand /\ InQueue /\ InService /\ Counted /\ Hands /\ Joined
      /\ None \notin Conns
  BY HttpServerAssumption DEF PortInv
<1>1. CASE Pop(w)
  <2> DEFINE c == Head(queue)
  <2>1. /\ queue # <<>> /\ at[w] = "test" /\ at' = [at EXCEPT ![w] = "handle"]
        /\ serving' = [serving EXCEPT ![w] = c] /\ conn' = [conn EXCEPT ![c] = "handled"]
        /\ queue' = Tail(queue) /\ UNCHANGED <<closes, listening, stop, acceptor, held, dtor>>
    BY <1>1 DEF Pop, Goto
  <2>2. queue \in Seq(Conns) /\ NoRepeats(queue)
    BY <1>0 DEF PortTypeOK, InQueue
  <2>3. /\ c \in Conns /\ c \in Items(queue)
        /\ queue' \in Seq(Conns) /\ Len(queue') = Len(queue) - 1
        /\ Items(queue') = Items(queue) \ {c} /\ NoRepeats(queue')
    BY <2>1, <2>2, Taken
  <2> HIDE DEF c
  <2>4. serving[w] = None /\ conn[c] = "queued" /\ held # c /\ \A v \in WorkerThreads : serving[v] # c
    BY <1>0, <2>1, <2>3 DEF Hands, InHand, InQueue, InService
  <2>5. Len(queue') <= MaxQueued
    <3>1. Len(queue) \in Nat /\ Len(queue) <= MaxQueued /\ MaxQueued \in Nat
      BY <1>0, <2>2, LenProperties, HttpServerAssumption DEF PortTypeOK
    <3>2. QED
      BY <2>3, <3>1
  <2>6. /\ conn'[c] = "handled" /\ \A d \in Conns : d # c => conn'[d] = conn[d]
        /\ serving'[w] = c /\ \A v \in WorkerThreads : v # w => serving'[v] = serving[v]
        /\ at'[w] = "handle" /\ \A v \in WorkerThreads : v # w => at'[v] = at[v]
    BY <1>0, <2>1, <2>3 DEF PortTypeOK
  <2>7. PortTypeOK'
    BY <1>0, <2>1, <2>3, <2>5 DEF PortTypeOK
  <2>8. InHand' /\ Counted'
    BY <1>0, <2>1, <2>4, <2>6 DEF InHand, Counted
  <2>9. InQueue'
    BY <1>0, <2>3, <2>6 DEF InQueue
  <2>10. InService'
    BY <1>0, <2>3, <2>4, <2>6 DEF InService
  <2>11. Hands' /\ Joined'
    BY <1>0, <2>1, <2>3, <2>6 DEF Hands, Joined
  <2>12. QED
    BY <2>7, <2>8, <2>9, <2>10, <2>11 DEF PortInv
<1>2. CASE Handle(w)
  <2> DEFINE c == serving[w]
  <2>1. /\ at[w] = "handle" /\ at' = [at EXCEPT ![w] = "test"]
        /\ serving' = [serving EXCEPT ![w] = None] /\ conn' = [conn EXCEPT ![c] = "closed"]
        /\ closes' = [closes EXCEPT ![c] = closes[c] + 1]
        /\ UNCHANGED <<queue, listening, stop, acceptor, held, dtor>>
    BY <1>2 DEF Handle, Goto, Close
  <2>2. c \in Conns
    BY <1>0, <2>1 DEF Hands, PortTypeOK
  <2>3. conn[c] = "handled" /\ \A v \in WorkerThreads : serving[v] = c => v = w
    BY <1>0, <2>2 DEF InService
  <2>4. held # c /\ c \notin Items(queue) /\ closes[c] = 0
    BY <1>0, <2>2, <2>3 DEF InHand, InQueue, Counted
  <2> HIDE DEF c
  <2>5. PortTypeOK'
    <3>1. closes' \in [Conns -> Nat]
      BY <1>0, <2>1, <2>2, CountedOneMore DEF PortTypeOK
    <3>2. conn' \in [Conns -> {"new", "backlog", "accepted", "queued", "handled", "closed", "reset"}]
      BY <1>0, <2>1 DEF PortTypeOK
    <3>3. QED
      BY <1>0, <2>1, <3>1, <3>2 DEF PortTypeOK
  <2>6. /\ conn'[c] = "closed" /\ closes'[c] = 1
        /\ \A d \in Conns : d # c => conn'[d] = conn[d] /\ closes'[d] = closes[d]
        /\ serving'[w] = None /\ \A v \in WorkerThreads : v # w => serving'[v] = serving[v]
        /\ at'[w] = "test" /\ \A v \in WorkerThreads : v # w => at'[v] = at[v]
    <3>1. conn'[c] = "closed" /\ \A d \in Conns : d # c => conn'[d] = conn[d]
      BY <1>0, <2>1, <2>2 DEF PortTypeOK
    <3>2. closes'[c] = closes[c] + 1 /\ \A d \in Conns : d # c => closes'[d] = closes[d]
      BY <1>0, <2>1, <2>2, CountedOneMore DEF PortTypeOK
    <3>3. /\ serving'[w] = None /\ \A v \in WorkerThreads : v # w => serving'[v] = serving[v]
          /\ at'[w] = "test" /\ \A v \in WorkerThreads : v # w => at'[v] = at[v]
      BY <1>0, <2>1 DEF PortTypeOK
    <3>4. QED
      BY <2>4, <3>1, <3>2, <3>3
  <2>7. InHand' /\ Counted'
    BY <1>0, <2>1, <2>4, <2>6 DEF InHand, Counted
  <2>8. InQueue'
    BY <1>0, <2>1, <2>4, <2>6 DEF InQueue
  <2>9. InService'
    BY <1>0, <2>3, <2>6 DEF InService, c
  <2>10. Hands' /\ Joined'
    BY <1>0, <2>1, <2>6 DEF Hands, Joined
  <2>11. QED
    BY <2>5, <2>7, <2>8, <2>9, <2>10 DEF PortInv
<1>3. CASE Leave(w) \/ StartWait(w) \/ Wait(w) \/ Wake(w)
  <2>1. /\ UNCHANGED <<conn, closes, queue, listening, stop, acceptor, held, serving, dtor>>
        /\ at[w] \in {"test", "blocking", "asleep"}
        /\ \E to \in {"exit", "blocking", "asleep", "test"} : at' = [at EXCEPT ![w] = to]
    BY <1>3 DEF Leave, StartWait, Wait, Wake, Goto
  <2>2. /\ at' \in [WorkerThreads -> {"test", "blocking", "asleep", "handle", "exit"}]
        /\ at'[w] # "handle" /\ \A v \in WorkerThreads : v # w => at'[v] = at[v]
    BY <1>0, <2>1 DEF PortTypeOK
  <2>3. PortTypeOK'
    BY <1>0, <2>1, <2>2 DEF PortTypeOK
  <2>4. InHand' /\ InQueue' /\ InService' /\ Counted'
    BY <2>1, NothingPassed
  <2>5. Hands' /\ Joined'
    BY <1>0, <2>1, <2>2 DEF Hands, Joined
  <2>6. QED
    BY <2>3, <2>4, <2>5 DEF PortInv
<1>4. QED
  BY <1>1, <1>2, <1>3 DEF Worker, WorkerQueues

\* The destructor joins the threads before it closes what they left queued.
LEMMA DestructorKeeps ==
  ASSUME PortInv, Destructor
  PROVE  PortInv'
<1>0. /\ PortTypeOK /\ InHand /\ InQueue /\ InService /\ Counted /\ Hands /\ Joined
      /\ None \notin Conns
  BY HttpServerAssumption DEF PortInv
<1>1. CASE SetStop \/ JoinAcceptor \/ JoinWorkers
  <2>1. /\ UNCHANGED <<conn, closes, queue, listening, acceptor, held, at, serving>>
        /\ stop' \in BOOLEAN /\ dtor' \in {"shut", "notify", "drain"}
        /\ dtor' = "notify" => acceptor = "exit"
        /\ dtor' = "drain" => dtor = "join workers" /\ \A w \in WorkerThreads : at[w] = "exit"
    BY <1>0, <1>1 DEF SetStop, JoinAcceptor, JoinWorkers, DtorStep, PortTypeOK
  <2>2. PortTypeOK'
    BY <1>0, <2>1 DEF PortTypeOK
  <2>3. InHand' /\ InQueue' /\ InService' /\ Counted'
    BY <2>1, NothingPassed
  <2>4. Hands' /\ Joined'
    BY <1>0, <2>1 DEF Hands, Joined
  <2>5. QED
    BY <2>2, <2>3, <2>4 DEF PortInv
<1>2. CASE Shut
  <2>1. /\ conn' = [c \in Conns |-> IF conn[c] = "backlog" THEN "reset" ELSE conn[c]]
        /\ listening' = FALSE /\ dtor = "shut" /\ dtor' = "join accept"
        /\ UNCHANGED <<closes, queue, stop, acceptor, held, at, serving>>
    BY <1>2 DEF Shut, DtorStep, Backlog
  <2>2. PortTypeOK'
    BY <1>0, <2>1 DEF PortTypeOK
  <2>3. \A c \in Conns : conn'[c] = conn[c] \/ {conn[c], conn'[c]} \subseteq {"new", "backlog", "reset"}
    BY <2>1
  <2>4. InHand' /\ InQueue' /\ InService' /\ Counted'
    BY <2>1, <2>3, NothingPassed
  <2>5. Hands' /\ Joined'
    BY <1>0, <2>1 DEF Hands, Joined
  <2>6. QED
    BY <2>2, <2>4, <2>5 DEF PortInv
<1>3. CASE NotifyAll
  <2>1. /\ at' = [w \in WorkerThreads |-> IF at[w] = "asleep" THEN "test" ELSE at[w]]
        /\ dtor = "notify" /\ dtor' = "join workers"
        /\ UNCHANGED <<conn, closes, queue, listening, stop, acceptor, held, serving>>
    BY <1>3 DEF NotifyAll, DtorStep, Waiters
  <2>2. PortTypeOK'
    BY <1>0, <2>1 DEF PortTypeOK
  <2>3. InHand' /\ InQueue' /\ InService' /\ Counted'
    BY <2>1, NothingPassed
  <2>4. Hands' /\ Joined'
    BY <1>0, <2>1 DEF Hands, Joined
  <2>5. QED
    BY <2>2, <2>3, <2>4 DEF PortInv
<1>4. CASE Drain
  <2>1. /\ dtor = "drain" /\ dtor' = "done" /\ queue' = <<>>
        /\ closes' = [c \in Conns |-> IF c \in Items(queue) THEN closes[c] + 1 ELSE closes[c]]
        /\ conn' = [c \in Conns |-> IF c \in Items(queue) THEN "closed" ELSE conn[c]]
        /\ UNCHANGED <<listening, stop, acceptor, held, at, serving>>
    BY <1>4 DEF Drain, DtorStep, Queued, Items
  <2>2. queue' \in Seq(Conns) /\ Len(queue') = 0 /\ Items(queue') = {} /\ NoRepeats(queue')
    BY <2>1, EmptySeq DEF Items, NoRepeats
  <2>3. conn' \in [Conns -> {"new", "backlog", "accepted", "queued", "handled", "closed", "reset"}]
    BY <1>0, <2>1 DEF PortTypeOK
  <2>4. closes' \in [Conns -> Nat]
    BY <1>0, <2>1 DEF PortTypeOK
  <2>5. PortTypeOK'
    BY <1>0, <2>1, <2>2, <2>3, <2>4, HttpServerAssumption DEF PortTypeOK
  <2>6. \A c \in Conns :
          IF conn[c] = "queued" THEN conn'[c] = "closed" /\ closes'[c] = closes[c] + 1
                                ELSE conn'[c] = conn[c] /\ closes'[c] = closes[c]
    BY <1>0, <2>1 DEF InQueue
  <2>7. InHand' /\ Counted'
    BY <1>0, <2>1, <2>6 DEF InHand, Counted
  <2>8. InQueue'
    BY <2>2, <2>6 DEF InQueue
  <2>9. InService'
    BY <1>0, <2>1, <2>6 DEF InService
  <2>10. Hands' /\ Joined'
    BY <1>0, <2>1 DEF Hands, Joined
  <2>11. QED
    BY <2>5, <2>7, <2>8, <2>9, <2>10 DEF PortInv
<1>5. QED
  BY <1>1, <1>2, <1>3, <1>4 DEF Destructor

LEMMA PortStep == PortInv /\ [PortNext]_portVars => PortInv'
<1> SUFFICES ASSUME PortInv, [PortNext]_portVars PROVE PortInv'
  OBVIOUS
<1>1. CASE UNCHANGED portVars
  <2>1. UNCHANGED <<conn, closes, queue, listening, stop, acceptor, held, at, serving, dtor>>
    BY <1>1 DEF portVars
  <2>2. InHand' /\ InQueue' /\ InService' /\ Counted'
    BY <2>1, NothingPassed
  <2>3. PortTypeOK' /\ Hands' /\ Joined'
    BY <2>1 DEF PortInv, PortTypeOK, Hands, Joined
  <2>4. QED
    BY <2>2, <2>3 DEF PortInv
<1>2. ASSUME NEW c \in Conns, Connect(c)
      PROVE  PortInv'
  <2>1. /\ conn[c] = "new" /\ conn' = [conn EXCEPT ![c] = "backlog"]
        /\ UNCHANGED <<closes, queue, listening, stop, acceptor, held, at, serving, dtor>>
    BY <1>2 DEF Connect
  <2>2. PortTypeOK'
    BY <2>1 DEF PortInv, PortTypeOK
  <2>3. \A d \in Conns : conn'[d] = conn[d] \/ {conn[d], conn'[d]} \subseteq {"new", "backlog", "reset"}
    BY <2>1 DEF PortInv, PortTypeOK
  <2>4. InHand' /\ InQueue' /\ InService' /\ Counted'
    BY <2>1, <2>3, NothingPassed
  <2>5. Hands' /\ Joined'
    BY <2>1 DEF PortInv, Hands, Joined
  <2>6. QED
    BY <2>2, <2>4, <2>5 DEF PortInv
<1>3. QED
  BY <1>1, <1>2, AcceptorKeeps, WorkerKeeps, DestructorKeeps DEF PortNext

\* An accepted connection has one owner until it is closed, and is closed once,
\* for any number of workers and connections and any limit of the queue.
THEOREM ConnectionsHaveOneOwner ==
  PortSpec => []OneOwner
<1>1. PortInv => OneOwner
  <2> SUFFICES ASSUME PortInv PROVE OneOwner
    OBVIOUS
  <2>0. /\ PortTypeOK /\ InHand /\ InQueue /\ InService /\ Counted /\ Hands /\ Joined
        /\ None \notin Conns /\ Queued = Items(queue)
    BY HttpServerAssumption DEF PortInv, Queued, Items
  <2>1. \A c \in Conns : Owned(c) <=> conn[c] \in {"accepted", "queued", "handled"}
    BY <2>0 DEF Owned, InHand, InQueue, InService
  <2>2. \A c \in Conns : closes[c] <= 1 /\ (Owned(c) => closes[c] = 0)
    BY <2>0, <2>1 DEF Counted
  <2>3. dtor = "done" => \A c \in Conns : ~Owned(c)
    <3>1. dtor = "done" => queue = <<>> /\ held = None /\ \A w \in WorkerThreads : serving[w] = None
      BY <2>0 DEF Joined, Hands
    <3>2. queue = <<>> => Items(queue) = {}
      BY EmptySeq DEF Items
    <3>3. QED
      BY <2>0, <3>1, <3>2 DEF Owned
  <2>4. \A i, j \in 1 .. Len(queue) : queue[i] = queue[j] => i = j
    BY <2>0 DEF InQueue, NoRepeats
  <2>5. Items(queue) \subseteq Conns
    <3>1. queue \in Seq(Conns)
      BY <2>0 DEF PortTypeOK
    <3>2. QED
      BY <3>1, ElementOfSeq DEF Items
  <2>6. /\ held \notin Items(queue)
        /\ \A w \in WorkerThreads : serving[w] \notin Items(queue) \cup ({held} \ {None})
    BY <2>0, <2>5 DEF PortTypeOK, InHand, InQueue, InService
  <2>7. \A v, w \in WorkerThreads : serving[v] = serving[w] /\ v # w => serving[v] = None
    BY <2>0 DEF InService
  <2>8. QED
    BY <2>0, <2>1, <2>2, <2>3, <2>4, <2>6, <2>7 DEF OneOwner
<1>2. QED
  BY PortStart, PortStep, <1>1, PTL DEF PortSpec

-----------------------------------------------------------------------------
(* HttpServer: no wake-up is lost.                                         *)

\* The workers on their way to the queue.
Ready == {w \in WorkerThreads : at[w] = "test"}

\* A worker sleeps, or is about to, only while every queued connection has an
\* awake worker of its own coming for it: none waits for a busy worker beside an
\* idle one.
NobodyIdles ==
  (\E w \in WorkerThreads : at[w] \in {"blocking", "asleep"}) => Len(queue) <= Cardinality(Ready)

\* The mutex keeps the accept thread out until a worker that blocks is asleep.
BlocksOnEmpty == \A w \in WorkerThreads : at[w] = "blocking" => queue = <<>>

\* What a worker that comes to the test of the predicate, or leaves it, does to
\* their number.
LEMMA ReadyOneMore ==
  ASSUME PortTypeOK, IsFiniteSet(WorkerThreads), NEW w \in WorkerThreads, at[w] # "test",
         at' = [at EXCEPT ![w] = "test"]
  PROVE  Cardinality(Ready') = Cardinality(Ready) + 1 /\ Cardinality(Ready) \in Nat
<1>1. Ready' = Ready \cup {w} /\ w \notin Ready
  BY DEF Ready, PortTypeOK
<1>2. IsFiniteSet(Ready)
  BY FS_Subset DEF Ready
<1>3. QED
  BY <1>1, <1>2, FS_AddElement, FS_CardinalityType

LEMMA ReadyOneLess ==
  ASSUME PortTypeOK, IsFiniteSet(WorkerThreads), NEW w \in WorkerThreads, at[w] = "test",
         NEW x, x # "test", at' = [at EXCEPT ![w] = x]
  PROVE  /\ Cardinality(Ready') = Cardinality(Ready) - 1
         /\ Cardinality(Ready) \in Nat /\ Cardinality(Ready') \in Nat
<1>1. Ready' = Ready \ {w} /\ w \in Ready
  BY DEF Ready, PortTypeOK
<1>2. IsFiniteSet(Ready)
  BY FS_Subset DEF Ready
<1>3. QED
  BY <1>1, <1>2, FS_RemoveElement, FS_CardinalityType

LEMMA ReadyCounted ==
  ASSUME IsFiniteSet(WorkerThreads)
  PROVE  Cardinality(Ready) \in Nat
<1>1. IsFiniteSet(Ready)
  BY FS_Subset DEF Ready
<1>2. QED
  BY <1>1, FS_CardinalityType

LEMMA WakeUpsKept ==
  ASSUME PortTypeOK, PortTypeOK', IsFiniteSet(WorkerThreads), BlocksOnEmpty, NobodyIdles,
         [PortNext]_portVars
  PROVE  BlocksOnEmpty' /\ NobodyIdles'
<1>0. /\ at \in [WorkerThreads -> {"test", "blocking", "asleep", "handle", "exit"}]
      /\ queue \in Seq(Conns) /\ Len(queue) \in Nat
      /\ Cardinality(Ready) \in Nat /\ Cardinality(Ready') \in Nat
      /\ Len(<<>>) = 0
  <2>1. at \in [WorkerThreads -> {"test", "blocking", "asleep", "handle", "exit"}]
        /\ queue \in Seq(Conns)
    BY Zenon DEF PortTypeOK
  <2>2. Cardinality(Ready) \in Nat
    BY ReadyCounted
  <2>3. Ready' \subseteq WorkerThreads
    BY DEF Ready
  <2>4. Cardinality(Ready') \in Nat
    BY <2>3, FS_Subset, FS_CardinalityType
  <2>5. Len(queue) \in Nat
    BY <2>1, LenProperties
  <2>6. Len(<<>>) = 0
    BY EmptySeq
  <2>7. QED
    BY <2>1, <2>2, <2>4, <2>5, <2>6
<1>1. CASE at' = at /\ queue' = queue
  <2>1. Ready' = Ready
    BY <1>1, Zenon DEF Ready
  <2>2. QED
    BY <1>1, <2>1, Zenon DEF BlocksOnEmpty, NobodyIdles
<1>2. CASE Push /\ Len(queue) < MaxQueued /\ Enqueue
  <2>1. /\ \A v \in WorkerThreads : at[v] # "blocking"
        /\ queue' = Append(queue, held) /\ queue' \in Seq(Conns)
    BY <1>2 DEF Push, Enqueue, MutexFree, PortTypeOK
  <2>2. held \in Conns /\ Len(queue') = Len(queue) + 1
    BY <1>0, <1>2, <2>1, AppendProperties DEF Push
  <2>3. CASE Waiters = {}
    BY <1>0, <1>2, <2>1, <2>3 DEF Enqueue, Waiters, BlocksOnEmpty, NobodyIdles
  <2>4. ASSUME NEW w \in Waiters, at' = [at EXCEPT ![w] = "test"]
        PROVE  BlocksOnEmpty' /\ NobodyIdles'
    <3>1. w \in WorkerThreads /\ at[w] = "asleep"
      BY DEF Waiters
    <3>2. Cardinality(Ready') = Cardinality(Ready) + 1
      BY <2>4, <3>1, ReadyOneMore
    <3>3. \A v \in WorkerThreads : at'[v] # "blocking"
      BY <1>0, <2>1, <2>4
    <3>4. Len(queue) <= Cardinality(Ready)
      BY <3>1 DEF NobodyIdles
    <3>5. QED
      BY <1>0, <2>2, <3>2, <3>3, <3>4 DEF BlocksOnEmpty, NobodyIdles
  <2>5. QED
    BY <1>2, <2>3, <2>4 DEF Enqueue
<1>3. ASSUME NEW w \in WorkerThreads, Pop(w)
      PROVE  BlocksOnEmpty' /\ NobodyIdles'
  <2>1. /\ Len(queue') = Len(queue) - 1 /\ at' = [at EXCEPT ![w] = "handle"] /\ at[w] = "test"
        /\ \A v \in WorkerThreads : at[v] # "blocking"
    BY <1>0, <1>3, HeadTailProperties DEF Pop, Goto, MutexFree
  <2>2. Cardinality(Ready') = Cardinality(Ready) - 1
    BY <2>1, ReadyOneLess
  <2>3. /\ \A v \in WorkerThreads : at'[v] # "blocking"
        /\ \A v \in WorkerThreads : at'[v] = "asleep" => at[v] = "asleep"
    BY <1>0, <2>1
  <2>4. QED
    BY <1>0, <2>1, <2>2, <2>3 DEF BlocksOnEmpty, NobodyIdles
<1>4. ASSUME queue' = <<>>
      PROVE  BlocksOnEmpty' /\ NobodyIdles'
  BY <1>0, <1>4 DEF BlocksOnEmpty, NobodyIdles
<1>5. ASSUME NEW w \in WorkerThreads, Wait(w)
      PROVE  BlocksOnEmpty' /\ NobodyIdles'
  <2>1. queue' = queue /\ queue = <<>>
    BY <1>5 DEF Wait, Goto, BlocksOnEmpty
  <2>2. QED
    BY <1>4, <2>1
<1>6. ASSUME NEW w \in WorkerThreads, Wake(w) \/ Handle(w)
      PROVE  BlocksOnEmpty' /\ NobodyIdles'
  <2>1. /\ queue' = queue /\ at' = [at EXCEPT ![w] = "test"] /\ at[w] # "test"
    BY <1>6 DEF Wake, Handle, Goto
  <2>2. Cardinality(Ready') = Cardinality(Ready) + 1
    BY <2>1, ReadyOneMore
  <2>3. \A v \in WorkerThreads : at'[v] \in {"blocking", "asleep"} => at'[v] = at[v]
    BY <1>0, <2>1
  <2>4. QED
    BY <1>0, <2>1, <2>2, <2>3 DEF BlocksOnEmpty, NobodyIdles
<1>7. CASE NotifyAll
  <2>1. /\ queue' = queue
        /\ \A v \in WorkerThreads : at'[v] # "asleep" /\ (at'[v] = "blocking" => at[v] = "blocking")
    BY <1>0, <1>7 DEF NotifyAll, Waiters
  <2>2. QED
    BY <1>0, <2>1 DEF BlocksOnEmpty, NobodyIdles
<1>8. CASE Acceptor
  <2>1. CASE Push
    BY <1>1, <1>2, <2>1 DEF Push, Refuse
  <2>2. CASE AcceptTest \/ Poll \/ Accept \/ AcceptFails
    BY <1>1, <2>2 DEF AcceptTest, Poll, Accept, AcceptFails
  <2>3. QED
    BY <1>8, <2>1, <2>2 DEF Acceptor
<1>9. ASSUME NEW w \in WorkerThreads, Worker(w) \/ Wake(w)
      PROVE  BlocksOnEmpty' /\ NobodyIdles'
  BY <1>3, <1>4, <1>5, <1>6, <1>9 DEF Worker, WorkerQueues, Leave, StartWait
<1>10. CASE Destructor
  BY <1>1, <1>4, <1>7, <1>10 DEF Destructor, SetStop, Shut, JoinAcceptor, JoinWorkers, Drain
<1>11. CASE UNCHANGED portVars
  BY <1>1, <1>11 DEF portVars
<1>12. ASSUME NEW c \in Conns, Connect(c)
       PROVE  BlocksOnEmpty' /\ NobodyIdles'
  BY <1>1, <1>12 DEF Connect
<1>13. QED
  BY <1>8, <1>9, <1>10, <1>11, <1>12 DEF PortNext

\* No wake-up is lost between the accept thread and the workers, for any number
\* of either's steps in between: an idle worker is never left asleep beside a
\* connection that nobody is coming for.
THEOREM QueuedIsComeFor ==
  ASSUME IsFiniteSet(WorkerThreads)
  PROVE  PortSpec => []NobodyIdles
<1>1. PortInit => BlocksOnEmpty /\ NobodyIdles
  BY DEF PortInit, BlocksOnEmpty, NobodyIdles
<1>2. PortInv => PortTypeOK
  BY DEF PortInv
<1>3. PortTypeOK /\ PortTypeOK' /\ BlocksOnEmpty /\ NobodyIdles
        /\ [PortNext]_portVars => BlocksOnEmpty' /\ NobodyIdles'
  BY WakeUpsKept
<1>4. QED
  BY PortStart, PortStep, <1>1, <1>2, <1>3, PTL DEF PortSpec
=============================================================================

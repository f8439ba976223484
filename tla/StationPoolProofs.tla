-------------------------- MODULE StationPoolProofs --------------------------
(***************************************************************************)
(* Theorems about StationPool, for every number of stations and threads:   *)
(* the slices share out the stations, no worker is inside a station's      *)
(* chain while the real-time loop is outside run_block(), every block      *)
(* processes every station exactly once, and the pool is a BlockBarrier;   *)
(* no wake-up is lost, the threads never all wait for one another, and     *)
(* each of them leaves when the pool is destroyed.                         *)
(***************************************************************************)
EXTENDS StationPool, FiniteSetTheorems, TLAPS

USE StationPoolAssumption

-----------------------------------------------------------------------------
(* The slices.                                                             *)

LEMMA DivisionMonotone ==
  ASSUME NEW a \in Nat, NEW c \in Nat, a <= c, NEW b \in Nat \ {0}
  PROVE  a \div b <= c \div b
  OBVIOUS

LEMMA DivisionBelow ==
  ASSUME NEW a \in Nat, NEW b \in Nat \ {0}, NEW q \in Nat, a < b * (q + 1)
  PROVE  a \div b <= q
  OBVIOUS

LEMMA DivisionAbove ==
  ASSUME NEW a \in Nat, NEW b \in Nat \ {0}, NEW q \in Nat, b * q <= a
  PROVE  q <= a \div b
  OBVIOUS

LEMMA Threads == NThreads \in Nat \ {0}
  BY DEF NThreads

LEMMA SliceBounds ==
  ASSUME NEW w \in Workers
  PROVE  /\ Lo(w) \in 0 .. NStations
         /\ Hi(w) \in 0 .. NStations
         /\ Lo(w) <= Hi(w)
<1>1. w \in Nat /\ w + 1 <= NThreads
  BY Threads DEF Workers
<1>2. w * NStations \in Nat /\ (w + 1) * NStations \in Nat
      /\ w * NStations <= (w + 1) * NStations
  BY <1>1
<1>3. (w + 1) * NStations < NThreads * (NStations + 1)
  BY <1>1, Threads
<1>4. Hi(w) <= NStations /\ Hi(w) \in Nat
  BY <1>2, <1>3, Threads, DivisionBelow DEF Hi
<1>5. Lo(w) <= Hi(w) /\ Lo(w) \in Nat
  BY <1>2, Threads, DivisionMonotone DEF Lo, Hi
<1>6. QED
  BY <1>4, <1>5

\* Every station belongs to the slice of exactly one worker, for any number of
\* stations and any number of threads.
THEOREM SlicesPartition ==
  \A k \in Stations :
    /\ \E w \in Workers : k \in Lo(w) .. Hi(w) - 1
    /\ \A v, w \in Workers :
         k \in Lo(v) .. Hi(v) - 1 /\ k \in Lo(w) .. Hi(w) - 1 => v = w
<1> SUFFICES ASSUME NEW k \in Stations
             PROVE  /\ \E w \in Workers : k \in Lo(w) .. Hi(w) - 1
                    /\ \A v, w \in Workers :
                         k \in Lo(v) .. Hi(v) - 1 /\ k \in Lo(w) .. Hi(w) - 1 => v = w
  OBVIOUS
<1>1. k \in Nat /\ k + 1 <= NStations /\ NStations \in Nat \ {0}
  BY DEF Stations
<1> DEFINE top == (k + 1) * NThreads - 1
           w0  == top \div NStations
<1>2. top \in Nat /\ w0 \in Nat /\ NStations * w0 <= top /\ top < NStations * w0 + NStations
  BY <1>1, Threads
<1>3. w0 \in Workers
  <2>1. top < NStations * NThreads
    BY <1>1, Threads
  <2>2. w0 < NThreads
    <3>1. NStations * w0 < NStations * NThreads
      BY <1>1, <1>2, <2>1, Threads
    <3>2. QED
      BY <1>1, <1>2, <3>1, Threads
  <2>3. QED
    BY <1>2, <2>2, Threads DEF Workers
<1>4. Lo(w0) <= k
  <2>1. w0 * NStations < NThreads * (k + 1)
    BY <1>1, <1>2, Threads
  <2>2. w0 * NStations \in Nat
    BY <1>1, <1>2
  <2>3. QED
    BY <1>1, <2>1, <2>2, Threads, DivisionBelow DEF Lo
<1>5. k < Hi(w0)
  <2>1. NThreads * (k + 1) <= (w0 + 1) * NStations
    BY <1>1, <1>2, Threads
  <2>2. (w0 + 1) * NStations \in Nat
    BY <1>1, <1>2
  <2>3. k + 1 <= Hi(w0)
    BY <1>1, <2>1, <2>2, Threads, DivisionAbove DEF Hi
  <2>4. QED
    BY <1>1, <1>3, <2>3, SliceBounds
<1>6. \E w \in Workers : k \in Lo(w) .. Hi(w) - 1
  BY <1>1, <1>3, <1>4, <1>5, SliceBounds
<1>7. ASSUME NEW v \in Workers, NEW w \in Workers, v < w,
             k \in Lo(v) .. Hi(v) - 1, k \in Lo(w) .. Hi(w) - 1
      PROVE  FALSE
  <2>1. v \in Nat /\ w \in Nat /\ v + 1 <= w
    BY <1>7, Threads DEF Workers
  <2>2. (v + 1) * NStations <= w * NStations
        /\ (v + 1) * NStations \in Nat /\ w * NStations \in Nat
    BY <1>1, <2>1
  <2>3. Hi(v) <= Lo(w)
    BY <2>2, Threads, DivisionMonotone DEF Hi, Lo
  <2>4. QED
    BY <1>1, <1>7, <2>3, SliceBounds
<1>8. \A v, w \in Workers : v < w \/ w < v \/ v = w
  BY Threads DEF Workers
<1>9. QED
  BY <1>6, <1>7, <1>8

-----------------------------------------------------------------------------
(* The inductive invariant.                                                *)

\* The workers that have finished the current generation.
Reported == {w \in Workers : seen[w] = gen /\ at[w] # "work"}

\* m_done counts them, from the first block on until the pool is destroyed ...
Counted ==
  /\ ~stop /\ gen > 0 => done = Cardinality(Reported)
  /\ ~stop /\ gen = 0 => done = 0
  /\ main = "serial" /\ gen > 0 => done = NThreads
  /\ main = "serial" \/ gen > 0
  /\ stop <=> main \in {"closing", "join", "closed"}

\* ... no worker is more than one generation behind, and none works outside one ...
Generations ==
  \A w \in Workers :
    /\ seen[w] = Blocks \/ seen[w] = Blocks - 1
    /\ at[w] = "work" => /\ seen[w] = gen /\ gen > 0 /\ ~stop
                         /\ next[w] \in Lo(w) .. Hi(w)
    /\ stop => seen[w] = Blocks

\* ... and the stations of a worker's slice have run once per generation.
Progress ==
  \A w \in Workers : \A k \in Lo(w) .. Hi(w) - 1 :
    ran[k] = IF seen[w] = Blocks /\ (at[w] = "work" => k < next[w])
             THEN Blocks ELSE Blocks - 1

IInv == TypeOK /\ Counted /\ Generations /\ Progress

LEMMA WorkersFinite == IsFiniteSet(Workers) /\ Cardinality(Workers) = NThreads
  BY Threads, FS_Interval DEF Workers

LEMMA AllReported ==
  ASSUME TypeOK, Counted, gen > 0, ~stop, done = NThreads
  PROVE  \A w \in Workers : seen[w] = gen /\ at[w] # "work"
<1>1. Cardinality(Reported) = NThreads
  BY DEF Counted
<1>2. Reported = Workers
  BY <1>1, WorkersFinite, FS_Subset DEF Reported
<1>3. QED
  BY <1>2 DEF Reported

\* Outside run_block() every worker has finished the last block.
LEMMA SerialMeansDone ==
  ASSUME IInv, Serial
  PROVE  \A w \in Workers : seen[w] = Blocks /\ at[w] # "work"
<1>1. CASE main = "serial" /\ gen > 0
  BY <1>1, AllReported DEF IInv, Counted, Blocks
<1>2. CASE main = "serial" /\ gen = 0
  BY <1>2 DEF IInv, TypeOK, Counted, Generations, Blocks
<1>3. CASE stop
  BY <1>3 DEF IInv, Generations
<1>4. QED
  BY <1>1, <1>2, <1>3 DEF IInv, TypeOK, Counted, Serial

LEMMA InitOK == Init => IInv
<1> SUFFICES ASSUME Init PROVE IInv
  OBVIOUS
<1>1. TypeOK
  <2>1. at \in [Workers -> {"test", "asleep", "work", "signal", "exit"}]
        /\ seen \in [Workers -> Nat] /\ next \in [Workers -> 0 .. NStations]
        /\ ran \in [Stations -> Nat]
    BY DEF Init
  <2>2. gen \in Nat /\ done \in 0 .. NThreads
    BY Threads DEF Init
  <2>3. /\ stop \in BOOLEAN
        /\ main \in {"serial", "notify", "check", "asleep", "closing", "join", "closed"}
    BY DEF Init
  <2>4. QED
    BY <2>1, <2>2, <2>3, Zenon DEF TypeOK
<1>2. Counted /\ Generations
  BY DEF Init, Counted, Generations, Blocks
<1>3. Progress
  <2> SUFFICES ASSUME NEW w \in Workers, NEW k \in Lo(w) .. Hi(w) - 1 PROVE ran[k] = 0
    BY DEF Progress, Init, Blocks
  <2>1. k \in Stations
    BY SliceBounds DEF Stations
  <2>2. QED
    BY <2>1 DEF Init
<1>4. QED
  BY <1>1, <1>2, <1>3 DEF IInv

LEMMA MainPreserves == IInv /\ (Main \/ Spurious \/ UNCHANGED vars) => IInv'
<1> SUFFICES ASSUME IInv, Main \/ Spurious \/ UNCHANGED vars PROVE IInv'
  OBVIOUS
<1>0. TypeOK /\ Counted /\ Generations /\ Progress
  BY DEF IInv
<1>1. CASE Post
  <2>1. \A w \in Workers : seen[w] = gen /\ at[w] # "work"
    BY <1>1, SerialMeansDone DEF Post, Serial, Blocks, IInv, Counted
  <2>2. ~stop /\ Blocks = gen /\ Blocks' = gen + 1 /\ gen \in Nat
    BY <1>0, <1>1 DEF Post, Counted, TypeOK, Blocks
  <2>3. TypeOK'
    BY <1>0, <1>1, Threads DEF Post, TypeOK
  <2>4. Reported' = {}
    BY <1>0, <1>1, <2>1, <2>2 DEF Post, Reported, TypeOK
  <2>5. Counted'
    BY <1>0, <1>1, <2>2, <2>4, FS_EmptySet DEF Post, Counted
  <2>6. Generations'
    BY <1>1, <2>1, <2>2 DEF Post, Generations
  <2>7. Progress'
    BY <1>0, <1>1, <2>1, <2>2 DEF Post, Progress
  <2>8. QED
    BY <2>3, <2>5, <2>6, <2>7 DEF IInv
<1>2. CASE Destroy
  <2>1. \A w \in Workers : seen[w] = gen /\ at[w] # "work"
    BY <1>2, SerialMeansDone DEF Destroy, Serial, Blocks, IInv, Counted
  <2>2. ~stop /\ Blocks = gen /\ Blocks' = gen /\ gen \in Nat
    BY <1>0, <1>2 DEF Destroy, Counted, TypeOK, Blocks
  <2>3. TypeOK' /\ Counted'
    BY <1>0, <1>2 DEF Destroy, TypeOK, Counted
  <2>4. Generations' /\ Progress'
    BY <1>0, <1>2, <2>1, <2>2 DEF Destroy, Generations, Progress
  <2>5. QED
    BY <2>3, <2>4 DEF IInv
<1>3. ASSUME UNCHANGED <<gen, done, stop, seen, next, ran>>,
             at' \in [Workers -> {"test", "asleep", "work", "signal", "exit"}],
             \A w \in Workers : at'[w] = "work" <=> at[w] = "work",
             main' \in {"serial", "check", "asleep", "notify", "closing", "join", "closed"},
             main' = "serial" => main = "serial" \/ (gen > 0 /\ done = NThreads),
             main' # "serial" => main # "serial",
             main' \in {"closing", "join", "closed"} <=> main \in {"closing", "join", "closed"}
      PROVE  IInv'
  <2>1. TypeOK' /\ Blocks' = Blocks /\ Reported' = Reported
    BY <1>0, <1>3 DEF TypeOK, Blocks, Reported
  <2>2. Counted'
    BY <1>0, <1>3, <2>1 DEF Counted
  <2>3. Generations' /\ Progress'
    BY <1>0, <1>3, <2>1 DEF Generations, Progress
  <2>4. QED
    BY <2>1, <2>2, <2>3 DEF IInv
<1>4. AllAwake \in [Workers -> {"test", "asleep", "work", "signal", "exit"}]
      /\ \A w \in Workers : AllAwake[w] = "work" <=> at[w] = "work"
  BY <1>0 DEF AllAwake, TypeOK
<1>5. CASE NotifyAll \/ NotifyStop
  BY <1>3, <1>4, <1>5 DEF NotifyAll, NotifyStop
<1>6. CASE CheckDone \/ Join
  BY <1>0, <1>3, <1>6 DEF CheckDone, Join, TypeOK, Counted
<1>7. CASE Spurious
  <2>1. CASE /\ main = "asleep" /\ main' = "check"
             /\ UNCHANGED <<gen, done, stop, at, seen, next, ran>>
    BY <1>0, <1>3, <2>1 DEF TypeOK
  <2>2. ASSUME NEW w \in Workers, Goto(w, "asleep", "test"),
               UNCHANGED <<gen, done, stop, main, seen, next, ran>>
        PROVE  IInv'
    <3>1. /\ at' \in [Workers -> {"test", "asleep", "work", "signal", "exit"}]
          /\ \A v \in Workers : at'[v] = "work" <=> at[v] = "work"
      BY <1>0, <2>2 DEF Goto, TypeOK
    <3>2. /\ main \in {"serial", "check", "asleep", "notify", "closing", "join", "closed"}
          /\ main' = main
      BY <1>0, <2>2 DEF TypeOK
    <3>3. /\ main' \in {"serial", "check", "asleep", "notify", "closing", "join", "closed"}
          /\ main' = "serial" => main = "serial" \/ (gen > 0 /\ done = NThreads)
          /\ main' # "serial" => main # "serial"
          /\ main' \in {"closing", "join", "closed"} <=> main \in {"closing", "join", "closed"}
      BY <3>2
    <3>4. UNCHANGED <<gen, done, stop, seen, next, ran>>
      BY <2>2
    <3>5. QED
      BY <1>3, <3>1, <3>3, <3>4
  <2>3. QED
    BY <1>7, <2>1, <2>2 DEF Spurious
<1>8. CASE UNCHANGED vars
  <2>1. /\ main \in {"serial", "check", "asleep", "notify", "closing", "join", "closed"}
        /\ at \in [Workers -> {"test", "asleep", "work", "signal", "exit"}]
    BY <1>0 DEF TypeOK
  <2>2. /\ UNCHANGED <<gen, done, stop, seen, next, ran>>
        /\ at' = at /\ main' = main
    BY <1>8 DEF vars
  <2>3. /\ at' \in [Workers -> {"test", "asleep", "work", "signal", "exit"}]
        /\ \A w \in Workers : at'[w] = "work" <=> at[w] = "work"
        /\ main' \in {"serial", "check", "asleep", "notify", "closing", "join", "closed"}
        /\ main' = "serial" => main = "serial" \/ (gen > 0 /\ done = NThreads)
        /\ main' # "serial" => main # "serial"
        /\ main' \in {"closing", "join", "closed"} <=> main \in {"closing", "join", "closed"}
    BY <2>1, <2>2
  <2>4. QED
    BY <1>3, <2>2, <2>3
<1>9. QED
  BY <1>1, <1>2, <1>5, <1>6, <1>7, <1>8 DEF Main

LEMMA WorkerPreserves ==
  ASSUME IInv, NEW w \in Workers, Worker(w)
  PROVE  IInv'
<1>0. /\ TypeOK /\ Counted /\ Generations /\ Progress
      /\ gen \in Nat /\ Blocks \in Int /\ (~stop => Blocks = gen)
  BY DEF IInv, TypeOK, Blocks
<1>1. CASE StartWork(w)
  <2>1. seen[w] = gen - 1 /\ gen > 0 /\ Blocks' = Blocks /\ at[w] = "test"
    BY <1>0, <1>1 DEF StartWork, Goto, Generations, TypeOK, Blocks
  <2>2. TypeOK'
    BY <1>0, <1>1, SliceBounds DEF StartWork, Goto, TypeOK
  <2>3. Reported' = Reported
    BY <1>0, <1>1, <2>1 DEF StartWork, Goto, Reported, TypeOK
  <2>4. Counted'
    BY <1>0, <1>1, <2>3 DEF StartWork, Goto, Counted
  <2>5. Generations'
    BY <1>0, <1>1, <2>1, SliceBounds DEF StartWork, Goto, Generations, TypeOK
  <2>6. ASSUME NEW v \in Workers, NEW k \in Lo(v) .. Hi(v) - 1
        PROVE  ran'[k] = IF seen'[v] = Blocks' /\ (at'[v] = "work" => k < next'[v])
                         THEN Blocks' ELSE Blocks' - 1
    <3>1. CASE v = w
      BY <1>0, <1>1, <2>1, <3>1, SliceBounds DEF StartWork, Goto, Progress, TypeOK
    <3>2. CASE v # w
      BY <1>0, <1>1, <2>1, <3>2 DEF StartWork, Goto, Progress, TypeOK
    <3>3. QED
      BY <3>1, <3>2
  <2>7. QED
    BY <2>2, <2>4, <2>5, <2>6 DEF IInv, Progress
<1>2. CASE Work(w)
  <2> DEFINE n == next[w]
  <2>1. /\ n \in Lo(w) .. Hi(w) - 1 /\ n \in Stations /\ n + 1 \in 0 .. NStations
        /\ seen[w] = gen /\ gen > 0 /\ ~stop /\ Blocks' = Blocks /\ Blocks = gen
    BY <1>0, <1>2, SliceBounds DEF Work, Generations, Blocks, Stations
  <2>2. /\ ran' = [ran EXCEPT ![n] = ran[n] + 1] /\ next' = [next EXCEPT ![w] = n + 1]
        /\ at[w] = "work" /\ UNCHANGED <<gen, done, stop, main, at, seen>>
    BY <1>2 DEF Work
  <2>3. TypeOK'
    BY <1>0, <2>1, <2>2 DEF TypeOK
  <2>4. Counted'
    BY <1>0, <2>2 DEF Counted, Reported
  <2>5. Generations'
    BY <1>0, <2>1, <2>2, SliceBounds DEF Generations, TypeOK
  <2>6. ASSUME NEW v \in Workers, NEW k \in Lo(v) .. Hi(v) - 1
        PROVE  ran'[k] = IF seen'[v] = Blocks' /\ (at'[v] = "work" => k < next'[v])
                         THEN Blocks' ELSE Blocks' - 1
    <3>1. k \in Stations /\ k \in Int
      BY SliceBounds DEF Stations
    <3>2. CASE k = n
      <4>1. v = w
        BY <2>1, <3>1, <3>2, SlicesPartition
      <4>2. ran[n] = Blocks - 1
        BY <1>0, <2>1, <2>2 DEF Progress
      <4>3. QED
        BY <1>0, <2>1, <2>2, <3>2, <4>1, <4>2 DEF TypeOK
    <3>3. CASE k # n
      <4>1. ran'[k] = ran[k]
        BY <1>0, <2>2, <3>1, <3>3 DEF TypeOK
      <4>2. v = w => (k < next'[v] <=> k < next[v])
        BY <1>0, <2>1, <2>2, <3>1, <3>3 DEF TypeOK
      <4>3. v # w => next'[v] = next[v]
        BY <1>0, <2>2 DEF TypeOK
      <4>4. QED
        BY <1>0, <2>1, <2>2, <4>1, <4>2, <4>3 DEF Progress
    <3>4. QED
      BY <3>2, <3>3
  <2>7. QED
    BY <2>3, <2>4, <2>5, <2>6 DEF IInv, Progress
<1>3. CASE Report(w)
  <2>1. /\ seen[w] = gen /\ gen > 0 /\ ~stop /\ Blocks' = Blocks /\ Blocks = gen
        /\ next[w] = Hi(w) /\ at[w] = "work" /\ at' = [at EXCEPT ![w] = "signal"]
        /\ done' = done + 1 /\ UNCHANGED <<gen, stop, main, seen, next, ran>>
    BY <1>0, <1>3, SliceBounds DEF Report, Goto, Generations, Blocks
  <2>2. Reported' = Reported \cup {w} /\ w \notin Reported
    BY <1>0, <2>1 DEF Reported, TypeOK
  <2>3. IsFiniteSet(Reported) /\ done = Cardinality(Reported)
    BY <1>0, <2>1, WorkersFinite, FS_Subset DEF Reported, Counted
  <2>4. done' = Cardinality(Reported')
    BY <2>1, <2>2, <2>3, FS_AddElement
  <2>5. done' <= NThreads
    BY <2>4, WorkersFinite, FS_Subset DEF Reported
  <2>6. TypeOK'
    BY <1>0, <2>1, <2>5, Threads DEF TypeOK
  <2>7. main # "serial"
    BY <2>1, SerialMeansDone DEF Serial
  <2>8. Counted'
    BY <1>0, <2>1, <2>4, <2>7 DEF Counted
  <2>9. Generations'
    BY <1>0, <2>1 DEF Generations, TypeOK
  <2>10. Progress'
    BY <1>0, <2>1, SliceBounds DEF Progress, TypeOK
  <2>11. QED
    BY <2>6, <2>8, <2>9, <2>10 DEF IInv
<1>4. ASSUME UNCHANGED <<gen, done, stop, seen, next, ran>>,
             at' \in [Workers -> {"test", "asleep", "work", "signal", "exit"}],
             \A v \in Workers : at'[v] = "work" <=> at[v] = "work",
             main' = main \/ (main = "asleep" /\ main' = "check")
      PROVE  IInv'
  <2>1. TypeOK' /\ Blocks' = Blocks /\ Reported' = Reported
    BY <1>0, <1>4 DEF TypeOK, Blocks, Reported
  <2>2. Counted'
    BY <1>0, <1>4, <2>1 DEF Counted
  <2>3. Generations' /\ Progress'
    BY <1>0, <1>4, <2>1 DEF Generations, Progress
  <2>4. QED
    BY <2>1, <2>2, <2>3 DEF IInv
<1>5. CASE Leave(w) \/ Sleep(w) \/ Signal(w)
  BY <1>0, <1>4, <1>5 DEF Leave, Sleep, Signal, Goto, TypeOK
<1>6. QED
  BY <1>1, <1>2, <1>3, <1>5 DEF Worker

\* The inductive invariant holds in every reachable state.
THEOREM Invariance == Spec => []IInv
<1>1. IInv /\ [Next]_vars => IInv'
  BY MainPreserves, WorkerPreserves DEF Next, Closed
<1>2. QED
  BY InitOK, <1>1, PTL DEF Spec

\* Type correctness; in particular m_done never exceeds the number of workers.
THEOREM TypeCorrect == Spec => []TypeOK
<1>1. IInv => TypeOK
  BY DEF IInv
<1>2. QED
  BY Invariance, <1>1, PTL

\* The real-time loop's serial section and the stations' chains never overlap.
THEOREM SerialSectionIsSerial == Spec => []NoWorkInSerial
<1>1. IInv => NoWorkInSerial
  BY SerialMeansDone DEF NoWorkInSerial
<1>2. QED
  BY Invariance, <1>1, PTL

\* Outside run_block() every station has run once per block ...
LEMMA SerialMeansRun ==
  ASSUME IInv, Serial, NEW k \in Stations
  PROVE  ran[k] = Blocks
<1>1. PICK w \in Workers : k \in Lo(w) .. Hi(w) - 1
  BY SlicesPartition
<1>2. QED
  BY <1>1, SerialMeansDone DEF IInv, Progress

\* When run_block() returns, every station has run once for every block.
THEOREM EveryStationRuns == Spec => []EachStationOnce
<1>1. IInv => EachStationOnce
  BY SerialMeansRun DEF EachStationOnce
<1>2. QED
  BY Invariance, <1>1, PTL
-----------------------------------------------------------------------------
(* The pool implements the barrier.                                        *)

\* When the last worker's report is found, every station has run.
LEMMA DoneMeansRun ==
  ASSUME IInv, ~stop, gen > 0, done = NThreads, NEW k \in Stations
  PROVE  ran[k] = Blocks
<1>1. PICK w \in Workers : k \in Lo(w) .. Hi(w) - 1
  BY SlicesPartition
<1>2. seen[w] = gen /\ at[w] # "work"
  BY AllReported DEF IInv
<1>3. QED
  BY <1>1, <1>2 DEF IInv, Progress, Blocks

LEMMA BarrierInit == Init => Barrier!Init
  BY DEF Init, Barrier!Init, Serial, Blocks

\* A step that touches neither the blocks nor the side of the barrier the
\* real-time loop is on is a stuttering step of the barrier.
LEMMA BarrierStutters ==
  ASSUME UNCHANGED <<gen, stop, ran>>, Serial' <=> Serial
  PROVE  UNCHANGED Barrier!vars
  BY DEF Barrier!vars, Blocks

\* m_work(k) of worker w is the barrier's processing of station k.
LEMMA WorkIsProcess ==
  ASSUME IInv, NEW w \in Workers, Work(w)
  PROVE  \E k \in Stations : Barrier!Process(k)
<1> DEFINE n == next[w]
<1>0. /\ ~Serial
      /\ at[w] = "work" /\ seen[w] = gen /\ n < Hi(w) /\ n \in Lo(w) .. Hi(w)
      /\ ~stop /\ gen \in Nat
  BY SerialMeansDone DEF IInv, TypeOK, Work, Generations
<1>1. /\ n \in Lo(w) .. Hi(w) - 1 /\ n \in Stations
      /\ ~stop /\ ~Serial /\ Blocks = gen /\ gen \in Nat
  BY <1>0, SliceBounds DEF Blocks, Stations
<1>2. ran[n] = Blocks - 1
  BY <1>0, <1>1 DEF IInv, Progress
<1>3. /\ ran' = [ran EXCEPT ![n] = ran[n] + 1] /\ ran \in [Stations -> Nat]
      /\ Blocks' = Blocks /\ Serial' = Serial
  BY DEF IInv, TypeOK, Work, Blocks, Serial
<1>4. {k \in Stations : ran'[k] # Blocks'} = {k \in Stations : ran[k] # Blocks} \ {n}
  BY <1>1, <1>2, <1>3
<1>5. Barrier!Process(n)
  BY <1>1, <1>2, <1>3, <1>4 DEF Barrier!Process
<1> HIDE DEF n
<1>6. \E k \in Stations : k = n
  BY <1>1
<1>7. QED
  BY <1>5, <1>6 DEF Barrier!Process

LEMMA BarrierStep == IInv /\ IInv' /\ [Next]_vars => [Barrier!Next]_Barrier!vars
<1> SUFFICES ASSUME IInv, IInv', [Next]_vars PROVE [Barrier!Next]_Barrier!vars
  OBVIOUS
<1>0. /\ gen \in Nat /\ stop \in BOOLEAN
      /\ stop <=> main \in {"closing", "join", "closed"}
  BY DEF IInv, TypeOK, Counted
<1>1. CASE Post
  <2>1. /\ main = "serial" /\ ~stop /\ ~stop' /\ Serial /\ ~Serial'
        /\ Blocks = gen /\ Blocks' = gen + 1 /\ gen < MaxBlocks /\ ran' = ran
    BY <1>0, <1>1 DEF Post, Serial, Blocks
  <2>2. \A k \in Stations : ran[k] = gen
    BY <2>1, SerialMeansRun
  <2>3. {k \in Stations : ran[k] # Blocks} = {} /\ {k \in Stations : ran'[k] # Blocks'} = Stations
    BY <1>0, <2>1, <2>2
  <2>4. Barrier!Start
    BY <2>1, <2>3 DEF Barrier!Start
  <2>5. QED
    BY <2>4 DEF Barrier!Next
<1>2. CASE Destroy
  <2>1. /\ main = "serial" /\ ~stop /\ stop' /\ Serial /\ Serial'
        /\ Blocks' = Blocks /\ ran' = ran
    BY <1>0, <1>2 DEF Destroy, Serial, Blocks
  <2>2. Barrier!Close
    BY <2>1 DEF Barrier!Close
  <2>3. QED
    BY <2>2 DEF Barrier!Next
<1>3. CASE CheckDone
  <2>1. CASE done = NThreads
    <3>1. /\ ~stop /\ ~stop' /\ ~Serial /\ Serial' /\ Blocks' = Blocks /\ ran' = ran
      BY <1>0, <1>3, <2>1 DEF CheckDone, Serial, Blocks
    <3>2. \A k \in Stations : ran'[k] = Blocks'
      BY <1>3, <2>1, <3>1, DoneMeansRun DEF CheckDone, IInv, Counted
    <3>3. Barrier!Finish
      BY <3>1, <3>2 DEF Barrier!Finish
    <3>4. QED
      BY <3>3 DEF Barrier!Next
  <2>2. CASE done # NThreads
    BY <1>3, <2>2, BarrierStutters DEF CheckDone, Serial
  <2>3. QED
    BY <2>1, <2>2
<1>4. CASE NotifyAll \/ NotifyStop \/ Join
  BY <1>4, BarrierStutters DEF NotifyAll, NotifyStop, Join, Serial
<1>5. CASE Spurious
  BY <1>5, BarrierStutters DEF Spurious, Serial
<1>6. ASSUME NEW w \in Workers, Worker(w)
      PROVE  [Barrier!Next]_Barrier!vars
  <2>1. CASE Work(w)
    BY <2>1, WorkIsProcess DEF Barrier!Next
  <2>2. CASE StartWork(w) \/ Leave(w) \/ Sleep(w) \/ Report(w)
    BY <2>2, BarrierStutters DEF StartWork, Leave, Sleep, Report, Serial
  <2>3. CASE Signal(w)
    BY <2>3, BarrierStutters DEF Signal, Serial
  <2>4. QED
    BY <1>6, <2>1, <2>2, <2>3 DEF Worker
<1>7. CASE UNCHANGED vars
  BY <1>7, BarrierStutters DEF vars, Serial
<1>8. QED
  BY <1>1, <1>2, <1>3, <1>4, <1>5, <1>6, <1>7 DEF Next, Main, Closed

\* Every behaviour of the pool is one of the barrier: the stations are
\* processed once each, between a start and a finish, whatever the interleaving
\* of the workers, the notifications and the spurious wake-ups.  (That a block
\* which was started is finished is a liveness property, checked by TLC.)
THEOREM PoolIsBarrier == Spec => Barrier!Init /\ [][Barrier!Next]_Barrier!vars
<1>1. QED
  BY BarrierInit, BarrierStep, Invariance, PTL DEF Spec

-----------------------------------------------------------------------------
(* No wake-up is lost.                                                     *)

\* A worker sleeps through a new generation or the end of the pool only until
\* the notification that is on its way; the real-time thread sleeps through the
\* last report only while the worker that made it has yet to signal.
NoLostWakeUp ==
  /\ main \notin {"notify", "closing"} =>
       \A w \in Workers : at[w] = "asleep" => seen[w] = gen /\ ~stop
  /\ main = "asleep" /\ done = NThreads => \E w \in Workers : at[w] = "signal"
  /\ \A w \in Workers : at[w] = "exit" => stop

LEMMA WakeUpsKept == IInv /\ NoLostWakeUp /\ [Next]_vars => NoLostWakeUp'
<1> SUFFICES ASSUME IInv, NoLostWakeUp, [Next]_vars PROVE NoLostWakeUp'
  OBVIOUS
<1>0. /\ at \in [Workers -> {"test", "asleep", "work", "signal", "exit"}]
      /\ stop \in BOOLEAN /\ (stop <=> main \in {"closing", "join", "closed"})
  BY DEF IInv, TypeOK, Counted
<1>1. CASE Main
  <2>1. CASE Post \/ Destroy
    BY <1>0, <2>1 DEF Post, Destroy, NoLostWakeUp
  <2>2. CASE NotifyAll \/ NotifyStop
    <3>1. \A w \in Workers : /\ at'[w] # "asleep"
                             /\ at'[w] = "exit" => at[w] = "exit"
      BY <1>0, <2>2 DEF NotifyAll, NotifyStop, AllAwake
    <3>2. QED
      BY <2>2, <3>1 DEF NotifyAll, NotifyStop, NoLostWakeUp
  <2>3. CASE CheckDone \/ Join
    BY <1>0, <2>3 DEF CheckDone, Join, NoLostWakeUp
  <2>4. QED
    BY <1>1, <2>1, <2>2, <2>3 DEF Main
<1>2. ASSUME NEW v \in Workers, Worker(v)
      PROVE  NoLostWakeUp'
  <2>1. CASE Report(v)
    BY <1>0, <2>1 DEF Report, Goto, NoLostWakeUp
  <2>2. CASE Signal(v)
    BY <1>0, <2>2 DEF Signal, Goto, NoLostWakeUp
  <2>3. CASE StartWork(v) \/ Leave(v) \/ Sleep(v) \/ Work(v)
    <3>1. /\ UNCHANGED <<gen, done, stop, main>>
          /\ \A w \in Workers : w # v => at'[w] = at[w] /\ seen'[w] = seen[w]
          /\ at[v] # "signal"
          /\ at'[v] = "asleep" => seen'[v] = gen /\ ~stop
          /\ at'[v] = "exit" => stop
      BY <1>0, <2>3 DEF StartWork, Leave, Sleep, Work, Goto, NoLostWakeUp, IInv, TypeOK
    <3>2. QED
      BY <3>1 DEF NoLostWakeUp
  <2>4. QED
    BY <1>2, <2>1, <2>2, <2>3 DEF Worker
<1>3. CASE Spurious
  BY <1>0, <1>3 DEF Spurious, Goto, NoLostWakeUp
<1>4. CASE UNCHANGED vars
  BY <1>4 DEF vars, NoLostWakeUp
<1>5. QED
  BY <1>1, <1>2, <1>3, <1>4 DEF Next, Closed

\* No notification is missed, however the test of a wait's predicate, the wait
\* and the notifications fall.
THEOREM NobodyOversleeps == Spec => []NoLostWakeUp
<1>1. Init => NoLostWakeUp
  BY DEF Init, NoLostWakeUp
<1>2. QED
  BY <1>1, Invariance, WakeUpsKept, PTL DEF Spec

\* The guards of the fair steps of the real-time thread and of a worker.
MainGuards ==
  \/ main \in {"notify", "check", "closing"}
  \/ main = "join" /\ \A w \in Workers : at[w] = "exit"

WorkerGuards(w) ==
  \/ at[w] = "test" /\ (stop \/ (~stop /\ gen # seen[w]) \/ (~stop /\ gen = seen[w]))
  \/ at[w] = "work" /\ (next[w] < Hi(w) \/ next[w] >= Hi(w))
  \/ at[w] = "signal"

\* Inside run_block() and inside the destructor somebody always has a step to
\* take that is not a spurious wake-up: the pool's threads never all wait for
\* one another.
NeverStuck ==
  main \notin {"serial", "closed"} => MainGuards \/ \E w \in Workers : WorkerGuards(w)

LEMMA SomebodyActs == IInv /\ NoLostWakeUp => NeverStuck
<1> SUFFICES ASSUME IInv, NoLostWakeUp, main \in {"asleep", "join"}, ~MainGuards
             PROVE  \E w \in Workers : WorkerGuards(w)
  BY DEF NeverStuck, MainGuards, IInv, TypeOK
<1>0. /\ at \in [Workers -> {"test", "asleep", "work", "signal", "exit"}]
      /\ stop \in BOOLEAN /\ (stop <=> main \in {"closing", "join", "closed"})
      /\ gen \in Nat /\ seen \in [Workers -> Nat] /\ next \in [Workers -> 0 .. NStations]
  BY DEF IInv, TypeOK, Counted
<1>1. ASSUME NEW w \in Workers, at[w] \in {"test", "work", "signal"}
      PROVE  WorkerGuards(w)
  <2>1. next[w] \in Int /\ Hi(w) \in Int
    BY <1>0, SliceBounds
  <2>2. next[w] < Hi(w) \/ next[w] >= Hi(w)
    BY <2>1
  <2>3. QED
    BY <1>0, <1>1, <2>2 DEF WorkerGuards
<1>2. CASE main = "join"
  <2>1. PICK w \in Workers : at[w] # "exit"
    BY <1>2 DEF MainGuards
  <2>2. at[w] # "asleep"
    BY <1>0, <1>2 DEF NoLostWakeUp
  <2>3. QED
    BY <1>0, <1>1, <2>1, <2>2
<1>3. CASE main = "asleep" /\ done = NThreads
  BY <1>1, <1>3 DEF NoLostWakeUp
<1>4. CASE main = "asleep" /\ done # NThreads
  <2>1. ~stop /\ gen > 0 /\ Cardinality(Reported) # Cardinality(Workers)
    BY <1>0, <1>4, WorkersFinite DEF IInv, Counted
  <2>2. PICK w \in Workers : seen[w] # gen \/ at[w] = "work"
    BY <2>1 DEF Reported
  <2>3. at[w] # "asleep" /\ at[w] # "exit"
    BY <1>4, <2>1, <2>2 DEF NoLostWakeUp
  <2>4. QED
    BY <1>0, <1>1, <2>2, <2>3
<1>5. QED
  BY <1>2, <1>3, <1>4

\* run_block() and the destructor never deadlock, for any number of threads.
THEOREM PoolNeverDeadlocks == Spec => []NeverStuck
  BY Invariance, NobodyOversleeps, SomebodyActs, PTL

\* A worker is enabled where the guard of one of its actions holds, and the
\* real-time thread likewise.  (Hypotheses of what follows: the provers do not
\* look inside ENABLED.)
WorkerCanStep(w) == WorkerGuards(w) => ENABLED <<Worker(w)>>_vars
MainCanStep == MainGuards => ENABLED <<NotifyAll \/ CheckDone \/ NotifyStop \/ Join>>_vars

\* What a step can do to a worker once the pool is to be destroyed: it is woken by
\* the notification or by nothing, and goes from a signal to the test and out.
LEMMA LeavingSteps ==
  ASSUME IInv, NoLostWakeUp, stop, NEW w \in Workers, [Next]_vars
  PROVE  /\ stop'
         /\ at[w] = "asleep" =>
              \/ at'[w] = "test"
              \/ at'[w] = "asleep" /\ main' = "closing" /\ main = "closing"
         /\ at[w] = "signal" => at'[w] \in {"signal", "test"}
         /\ at[w] = "test" => at'[w] \in {"test", "exit"}
<1>0. /\ at \in [Workers -> {"test", "asleep", "work", "signal", "exit"}]
      /\ main \in {"closing", "join", "closed"}
      /\ at[w] = "asleep" => main = "closing"
  BY DEF IInv, TypeOK, Counted, NoLostWakeUp
<1>1. CASE Main
  BY <1>0, <1>1 DEF Main, Post, NotifyAll, CheckDone, Destroy, NotifyStop, Join, AllAwake
<1>2. ASSUME NEW v \in Workers, Worker(v)
      PROVE  /\ stop' /\ main' = main
             /\ v # w => at'[w] = at[w]
             /\ at[v] # "asleep"
             /\ at[v] = "signal" => at'[v] = "test"
             /\ at[v] = "test" => at'[v] = "exit"
  <2>1. CASE StartWork(v) \/ Leave(v) \/ Sleep(v)
    BY <1>0, <2>1 DEF StartWork, Leave, Sleep, Goto
  <2>2. CASE Work(v) \/ Report(v)
    BY <1>0, <2>2 DEF Work, Report, Goto
  <2>3. CASE Signal(v)
    BY <1>0, <2>3 DEF Signal, Goto
  <2>4. QED
    BY <1>2, <2>1, <2>2, <2>3 DEF Worker
<1>3. CASE Spurious
  BY <1>0, <1>3 DEF Spurious, Goto
<1>4. CASE UNCHANGED vars
  BY <1>0, <1>4 DEF vars
<1>5. CASE \E v \in Workers : Worker(v)
  BY <1>0, <1>2, <1>5
<1>6. QED
  BY <1>1, <1>3, <1>4, <1>5 DEF Next, Closed

\* Once the pool is to be destroyed, each of its threads leaves: from a wait it
\* is woken, from a signal it returns to the wait, and it starts no more work.
\* Only the real-time thread and that worker need be fair.  (That the destructor
\* then returns takes all the threads at once, an induction over their set: TLC
\* checks it.)
THEOREM EveryWorkerLeaves ==
  ASSUME NEW w \in Workers
  PROVE  /\ Init /\ [][Next]_vars
         /\ WF_vars(NotifyAll \/ CheckDone \/ NotifyStop \/ Join) /\ WF_vars(Worker(w))
         /\ []MainCanStep /\ []WorkerCanStep(w)
         => (stop ~> at[w] = "exit")
<1> DEFINE Live == IInv /\ NoLostWakeUp
           Closing == stop /\ main = "closing" /\ at[w] = "asleep"
           Leaving(p) == stop /\ at[w] = p
<1>1. Init => Live
  BY InitOK DEF Init, NoLostWakeUp
<1>2. Live /\ [Next]_vars => Live'
  BY MainPreserves, WorkerPreserves, WakeUpsKept DEF Next, Closed
<1>3. Live /\ stop => Closing \/ Leaving("test") \/ Leaving("signal") \/ Leaving("exit")
  BY SerialMeansDone DEF IInv, TypeOK, Counted, NoLostWakeUp, Serial
<1>4. /\ Closing => MainGuards
      /\ Live /\ Closing /\ [Next]_vars => Closing' \/ Leaving("test")'
      /\ Live /\ Closing /\ <<NotifyAll \/ CheckDone \/ NotifyStop \/ Join>>_vars =>
           Leaving("test")'
  <2>1. ASSUME Closing, NotifyAll \/ CheckDone \/ NotifyStop \/ Join
        PROVE  Leaving("test")'
    BY <2>1 DEF NotifyAll, CheckDone, NotifyStop, Join, AllAwake
  <2>2. QED
    BY <2>1, LeavingSteps DEF MainGuards
<1>5. /\ Leaving("signal") => WorkerGuards(w)
      /\ Live /\ Leaving("signal") /\ [Next]_vars => Leaving("signal")' \/ Leaving("test")'
      /\ Live /\ Leaving("signal") /\ <<Worker(w)>>_vars => Leaving("test")'
  <2>1. ASSUME IInv, Leaving("signal"), Worker(w)
        PROVE  Leaving("test")'
    BY <2>1 DEF Worker, StartWork, Leave, Sleep, Work, Report, Signal, Goto, IInv, TypeOK
  <2>2. QED
    BY <2>1, LeavingSteps DEF WorkerGuards
<1>6. /\ Leaving("test") => WorkerGuards(w)
      /\ Live /\ Leaving("test") /\ [Next]_vars => Leaving("test")' \/ Leaving("exit")'
      /\ Live /\ Leaving("test") /\ <<Worker(w)>>_vars => Leaving("exit")'
  <2>1. ASSUME IInv, Leaving("test"), Worker(w)
        PROVE  Leaving("exit")'
    BY <2>1 DEF Worker, StartWork, Leave, Sleep, Work, Report, Signal, Goto, IInv, TypeOK
  <2>2. QED
    BY <2>1, LeavingSteps DEF WorkerGuards
<1>7. Leaving("exit") => at[w] = "exit"
  OBVIOUS
<1> HIDE DEF Live, Closing, Leaving
<1>8. QED
  BY <1>1, <1>2, <1>3, <1>4, <1>5, <1>6, <1>7, PTL DEF MainCanStep, WorkerCanStep
=============================================================================

----------------------------- MODULE StationPool -----------------------------
(***************************************************************************)
(* rx/src/station_pool.hpp: the fixed worker pool that runs the per-block  *)
(* chain of every station.  Each worker owns a contiguous slice of the     *)
(* stations and sleeps on a condition variable between blocks; run_block() *)
(* starts a generation and sleeps until every worker has reported.         *)
(*                                                                         *)
(* A critical section of m_mtx is one action.  Evaluating a wait predicate *)
(* and going to sleep is one as well, for the wait releases the mutex as   *)
(* it blocks; a notification after the section is a separate step, and a   *)
(* sleeper may wake for no reason.                                         *)
(***************************************************************************)
EXTENDS Integers, FiniteSets

CONSTANTS
  NStations,     \* n
  WantThreads,   \* want_threads, or hardware_concurrency() when that is 0
  MaxBlocks      \* bound on the run_block() calls

ASSUME StationPoolAssumption ==
  /\ NStations \in Nat
  /\ WantThreads \in Nat \ {0}
  /\ MaxBlocks \in Nat

\* The constructor's clamp: at most one thread per station, at least one thread.
NThreads == IF WantThreads <= NStations THEN WantThreads
            ELSE IF NStations < 1 THEN 1 ELSE NStations

Stations == 0 .. NStations - 1
Workers == 0 .. NThreads - 1

\* Worker t's slice is Lo(t) .. Hi(t) - 1.
Lo(t) == (t * NStations) \div NThreads
Hi(t) == ((t + 1) * NStations) \div NThreads

VARIABLES
  gen,     \* m_gen
  done,    \* m_done
  stop,    \* m_stop
  main,    \* where the real-time thread is in run_block() or ~StationPool()
  at,      \* where each worker is in worker()
  seen,    \* each worker's seen
  next,    \* each worker's k
  ran      \* history: how often m_work(k) ran

vars == <<gen, done, stop, main, at, seen, next, ran>>

Init ==
  /\ gen = 0 /\ done = 0 /\ stop = FALSE
  /\ main = "serial"
  /\ at = [w \in Workers |-> "test"]
  /\ seen = [w \in Workers |-> 0]
  /\ next = [w \in Workers |-> 0]
  /\ ran = [k \in Stations |-> 0]

-----------------------------------------------------------------------------
(* The real-time thread.                                                   *)

\* Mutant: m_done keeps the last block's count.
PostKeepsDone ==
  /\ main = "serial" /\ gen < MaxBlocks
  /\ gen' = gen + 1
  /\ main' = "notify"
  /\ UNCHANGED <<done, stop, at, seen, next, ran>>

\* run_block() posts a new generation ...
Post ==
  /\ main = "serial" /\ gen < MaxBlocks
  /\ done' = 0
  /\ gen' = gen + 1
  /\ main' = "notify"
  /\ UNCHANGED <<stop, at, seen, next, ran>>

AllAwake == [w \in Workers |-> IF at[w] = "asleep" THEN "test" ELSE at[w]]

\* ... wakes the workers that sleep ...
NotifyAll ==
  /\ main = "notify"
  /\ at' = AllAwake
  /\ main' = "check"
  /\ UNCHANGED <<gen, done, stop, seen, next, ran>>

\* ... and returns once all have reported, else sleeps on m_done_cv.
CheckDone ==
  /\ main = "check"
  /\ main' = IF done = NThreads THEN "serial" ELSE "asleep"
  /\ UNCHANGED <<gen, done, stop, at, seen, next, ran>>

\* ~StationPool(): raise m_stop ...
Destroy ==
  /\ main = "serial"
  /\ stop' = TRUE
  /\ gen' = gen + 1
  /\ main' = "closing"
  /\ UNCHANGED <<done, at, seen, next, ran>>

\* Mutant: the sleeping workers are not told.
NotifyStopForgotten ==
  /\ main = "closing"
  /\ main' = "join"
  /\ UNCHANGED <<gen, done, stop, at, seen, next, ran>>

\* ... wake the workers ...
NotifyStop ==
  /\ main = "closing"
  /\ at' = AllAwake
  /\ main' = "join"
  /\ UNCHANGED <<gen, done, stop, seen, next, ran>>

\* ... and join them.
Join ==
  /\ main = "join"
  /\ \A w \in Workers : at[w] = "exit"
  /\ main' = "closed"
  /\ UNCHANGED <<gen, done, stop, at, seen, next, ran>>

Main == Post \/ NotifyAll \/ CheckDone \/ Destroy \/ NotifyStop \/ Join

-----------------------------------------------------------------------------
(* Worker w.                                                               *)

Goto(w, from, to) == at[w] = from /\ at' = [at EXCEPT ![w] = to]

\* The wait predicate holds: leave if the pool is closing, else join this block.
StartWork(w) ==
  /\ ~stop /\ gen # seen[w]
  /\ Goto(w, "test", "work")
  /\ seen' = [seen EXCEPT ![w] = gen]
  /\ next' = [next EXCEPT ![w] = Lo(w)]
  /\ UNCHANGED <<gen, done, stop, main, ran>>

Leave(w) ==
  /\ stop
  /\ Goto(w, "test", "exit")
  /\ UNCHANGED <<gen, done, stop, main, seen, next, ran>>

\* It does not: sleep on m_cv.
Sleep(w) ==
  /\ ~stop /\ gen = seen[w]
  /\ Goto(w, "test", "asleep")
  /\ UNCHANGED <<gen, done, stop, main, seen, next, ran>>

\* m_work(k).
Work(w) ==
  /\ at[w] = "work" /\ next[w] < Hi(w)
  /\ ran' = [ran EXCEPT ![next[w]] = @ + 1]
  /\ next' = [next EXCEPT ![w] = @ + 1]
  /\ UNCHANGED <<gen, done, stop, main, at, seen>>

\* The slice is finished: count this worker as done ...
Report(w) ==
  /\ next[w] >= Hi(w)
  /\ Goto(w, "work", "signal")
  /\ done' = done + 1
  /\ UNCHANGED <<gen, stop, main, seen, next, ran>>

\* ... and wake run_block(), if it sleeps.
Signal(w) ==
  /\ Goto(w, "signal", "test")
  /\ main' = IF main = "asleep" THEN "check" ELSE main
  /\ UNCHANGED <<gen, done, stop, seen, next, ran>>

Worker(w) == StartWork(w) \/ Leave(w) \/ Sleep(w) \/ Work(w) \/ Report(w) \/ Signal(w)

\* Mutant: run_block() does not test its predicate again after it was woken.
SpuriousTrusted ==
  \/ main = "asleep" /\ main' = "serial" /\ UNCHANGED <<gen, done, stop, at, seen, next, ran>>
  \/ \E w \in Workers :
       Goto(w, "asleep", "test") /\ UNCHANGED <<gen, done, stop, main, seen, next, ran>>

\* A condition variable may wake its waiters at any time.
Spurious ==
  \/ main = "asleep" /\ main' = "check" /\ UNCHANGED <<gen, done, stop, at, seen, next, ran>>
  \/ \E w \in Workers :
       Goto(w, "asleep", "test") /\ UNCHANGED <<gen, done, stop, main, seen, next, ran>>

\* The pool is gone and its threads with it.
Closed == main = "closed" /\ UNCHANGED vars

Next == Main \/ (\E w \in Workers : Worker(w)) \/ Spurious \/ Closed

\* Threads that can run do run.  The loop need not call run_block() again.
Fairness ==
  /\ WF_vars(NotifyAll \/ CheckDone \/ NotifyStop \/ Join)
  /\ \A w \in Workers : WF_vars(Worker(w))

Spec == Init /\ [][Next]_vars /\ Fairness

-----------------------------------------------------------------------------
(* Properties.                                                             *)

\* Every variable holds a value of its kind; m_done never exceeds the workers.
TypeOK ==
  /\ gen \in Nat /\ done \in 0 .. NThreads /\ stop \in BOOLEAN
  /\ main \in {"serial", "notify", "check", "asleep", "closing", "join", "closed"}
  /\ at \in [Workers -> {"test", "asleep", "work", "signal", "exit"}]
  /\ seen \in [Workers -> Nat]
  /\ next \in [Workers -> 0 .. NStations]
  /\ ran \in [Stations -> Nat]

Serial == main \in {"serial", "closing", "join", "closed"}

Blocks == IF stop THEN gen - 1 ELSE gen

\* While the real-time loop is outside run_block(), rewriting the live set and
\* the channelizer's output, no worker is inside a station's chain.
NoWorkInSerial == Serial => \A w \in Workers : at[w] # "work"

\* When run_block() has returned, every station has been processed once for
\* every block so far: none skipped, none twice, whatever the slices.
EachStationOnce == Serial => \A k \in Stations : ran[k] = Blocks

\* The destructor's joins return.
PoolCloses == stop ~> main = "closed"

\* The pool implements the barrier.
Barrier == INSTANCE BlockBarrier WITH
  phase <- IF Serial THEN IF stop THEN "closed" ELSE "serial" ELSE "parallel",
  round <- Blocks,
  todo  <- {k \in Stations : ran[k] # Blocks}

ImplementsBarrier == Barrier!Spec
=============================================================================

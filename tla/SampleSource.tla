---------------------------- MODULE SampleSource ----------------------------
(***************************************************************************)
(* rx/src/pluto_source.hpp: the SDR reader thread, the real-time loop that *)
(* consumes its blocks, and the pool of buffers they pass between them.    *)
(*                                                                         *)
(* The reader moves a buffer out of the pool (or, when the consumer is     *)
(* behind, recycles the oldest queued block and counts an overrun), fills  *)
(* it outside the lock and queues it.  When a refill fails it drops the    *)
(* link and feeds silence at the real-time rate until the device reopens.  *)
(* The consumer returns its previous block and takes the oldest queued     *)
(* one.  Every step between two lock operations is an action of its own.   *)
(***************************************************************************)
EXTENDS Naturals, Sequences

CONSTANTS
  Buffers,    \* the buffers of the pool (kPoolDepth of them)
  NoBuffer,   \* nothing held: a moved-from vector
  MaxBlocks   \* bound: the reader starts no block after this many, unless stopping

ASSUME SampleSourceAssumption ==
  /\ NoBuffer \notin Buffers
  /\ \E b, c \in Buffers : b # c
  /\ MaxBlocks \in Nat

VARIABLES
  free,       \* m_free: recycled buffers (which of them is taken is immaterial)
  ready,      \* m_ready: queued blocks, oldest first
  current,    \* m_current: the block the consumer holds
  filling,    \* the reader's local buf
  content,    \* what each buffer holds: the block's number, and if it is live
  overruns,   \* m_overruns
  linkUp,     \* m_link_up
  stop,       \* m_stop
  reader,     \* where the reader thread is
  dsp,        \* where the real-time loop is
  produced,   \* history: blocks the reader has queued
  delivered   \* history: blocks next_block() has returned

pool == <<free, ready, current, filling, content>>
counts == <<overruns, produced, delivered>>
vars == <<pool, counts, linkUp, stop, reader, dsp>>

NoBlock == [n |-> 0, live |-> FALSE]

Init ==
  /\ free = Buffers
  /\ ready = <<>>
  /\ current = NoBuffer
  /\ filling = NoBuffer
  /\ content = [b \in Buffers |-> NoBlock]
  /\ overruns = 0
  /\ linkUp = TRUE          \* the constructor returns only once the device is open
  /\ stop = FALSE
  /\ reader = "head"
  /\ dsp = "call"
  /\ produced = 0
  /\ delivered = 0

-----------------------------------------------------------------------------
(* The reader thread.  It is inside reconnect() exactly while linkUp is     *)
(* FALSE, so both loops share the actions below.                            *)

\* Mutant: reconnect() feeds no silence.
ReaderHeadStarves ==
  /\ reader = "head" /\ (stop \/ produced < MaxBlocks)
  /\ reader' = IF stop THEN "done" ELSE IF linkUp THEN "refill" ELSE "pause"
  /\ UNCHANGED <<pool, counts, linkUp, stop, dsp>>

\* Mutant: reconnect() does not look at m_stop.
ReaderHeadDeaf ==
  /\ reader = "head" /\ (stop \/ produced < MaxBlocks)
  /\ reader' = IF ~linkUp THEN IF stop THEN "pause" ELSE "take"
                ELSE IF stop THEN "done" ELSE "refill"
  /\ UNCHANGED <<pool, counts, linkUp, stop, dsp>>

\* The test of m_stop at the head of reader_loop() and of reconnect().
ReaderHead ==
  /\ reader = "head"
  /\ stop \/ produced < MaxBlocks
  /\ reader' = IF stop THEN "done" ELSE IF linkUp THEN "refill" ELSE "take"
  /\ UNCHANGED <<pool, counts, linkUp, stop, dsp>>

\* iio_buffer_refill() returned samples.
RefillOk ==
  /\ reader = "refill"
  /\ reader' = "take"
  /\ UNCHANGED <<pool, counts, linkUp, stop, dsp>>

\* iio_buffer_refill() failed: the link is lost, reconnect() starts.
RefillFail ==
  /\ reader = "refill"
  /\ linkUp' = FALSE
  /\ reader' = "head"
  /\ UNCHANGED <<pool, counts, stop, dsp>>

\* take_buffer() finds a recycled buffer ...
TakeFree ==
  /\ \E b \in free : filling' = b /\ free' = free \ {b}
  /\ UNCHANGED <<ready, overruns>>

\* Mutant: the overrun is not counted.
DropOldestUncounted ==
  /\ free = {}
  /\ ready # <<>>
  /\ filling' = Head(ready)
  /\ ready' = Tail(ready)
  /\ UNCHANGED <<free, overruns>>

\* ... or, the consumer being behind, gives up the oldest queued block.  The
\* code's last resort, a fresh vector, needs both lists to be empty:
\* PoolNeverExhausted says that this does not happen.
DropOldest ==
  /\ free = {}
  /\ ready # <<>>
  /\ filling' = Head(ready)
  /\ ready' = Tail(ready)
  /\ overruns' = overruns + 1
  /\ UNCHANGED free

TakeBuffer ==
  /\ reader = "take"
  /\ TakeFree \/ DropOldest
  /\ reader' = "fill"
  /\ UNCHANGED <<current, content, produced, delivered, linkUp, stop, dsp>>

\* The samples, or the zeros of a silence block, are written without the lock.
Fill ==
  /\ reader = "fill"
  /\ content' = [content EXCEPT ![filling] = [n |-> produced + 1, live |-> linkUp]]
  /\ reader' = "push"
  /\ UNCHANGED <<free, ready, current, filling, counts, linkUp, stop, dsp>>

\* The block is queued and the consumer notified, under the lock.
Push ==
  /\ reader = "push"
  /\ ready' = Append(ready, filling)
  /\ filling' = NoBuffer
  /\ produced' = produced + 1
  /\ reader' = IF linkUp THEN "head" ELSE "pause"
  /\ UNCHANGED <<free, current, content, overruns, delivered, linkUp, stop, dsp>>

\* reconnect() after its one-block sleep: not yet time to try, or open_device() failed.
StillAway ==
  /\ reader = "pause"
  /\ reader' = "head"
  /\ UNCHANGED <<pool, counts, linkUp, stop, dsp>>

\* open_device() succeeded.
Reopened ==
  /\ reader = "pause"
  /\ linkUp' = TRUE
  /\ reader' = "head"
  /\ UNCHANGED <<pool, counts, stop, dsp>>

Reader ==
  \/ ReaderHead \/ RefillOk \/ RefillFail \/ TakeBuffer \/ Fill \/ Push
  \/ StillAway \/ Reopened

-----------------------------------------------------------------------------
(* The real-time loop of run_live().                                       *)

\* m_have_current: what the consumer has to give back.
Held == {current} \ {NoBuffer}

\* Mutant: the newest block is taken.
TakeNewest(nextDsp) ==
  /\ ready # <<>>
  /\ current' = ready[Len(ready)]
  /\ ready' = SubSeq(ready, 1, Len(ready) - 1)
  /\ delivered' = delivered + 1
  /\ dsp' = nextDsp

\* The oldest queued block becomes the consumer's.
TakeReady(nextDsp) ==
  /\ ready # <<>>
  /\ current' = Head(ready)
  /\ ready' = Tail(ready)
  /\ delivered' = delivered + 1
  /\ dsp' = nextDsp

\* Mutant: the block is given back as soon as it is returned.
NextBlockRecyclesEarly ==
  /\ dsp = "call"
  /\ \/ TakeReady("work") /\ free' = free \cup Held \cup {Head(ready)}
     \/ ready = <<>> /\ current' = NoBuffer /\ dsp' = "wait"
        /\ free' = free \cup Held /\ UNCHANGED <<ready, delivered>>
  /\ UNCHANGED <<filling, content, overruns, produced, linkUp, stop, reader>>

\* Mutant: the previous block is not given back.
NextBlockLeaks ==
  /\ dsp = "call"
  /\ \/ TakeReady("work")
     \/ ready = <<>> /\ current' = NoBuffer /\ dsp' = "wait" /\ UNCHANGED <<ready, delivered>>
  /\ UNCHANGED <<free, filling, content, overruns, produced, linkUp, stop, reader>>

\* next_block(): give the previous block back, then take one if there is one.
NextBlock ==
  /\ dsp = "call"
  /\ free' = free \cup Held
  /\ \/ TakeReady("work")
     \/ ready = <<>> /\ current' = NoBuffer /\ dsp' = "wait" /\ UNCHANGED <<ready, delivered>>
  /\ UNCHANGED <<filling, content, overruns, produced, linkUp, stop, reader>>

\* The wait in next_block() ends: a block is queued.
Wake ==
  /\ dsp = "wait"
  /\ TakeReady("work")
  /\ UNCHANGED <<free, filling, content, overruns, produced, linkUp, stop, reader>>

\* The loop processes the block.
Process ==
  /\ dsp = "work"
  /\ dsp' = "call"
  /\ UNCHANGED <<pool, counts, linkUp, stop, reader>>

\* A signal ended the loop; the destructor stops the reader and joins it.
Shutdown ==
  /\ dsp = "call"
  /\ dsp' = "joining"
  /\ stop' = TRUE
  /\ UNCHANGED <<pool, counts, linkUp, reader>>

Joined ==
  /\ dsp = "joining"
  /\ reader = "done"
  /\ dsp' = "done"
  /\ UNCHANGED <<pool, counts, linkUp, stop, reader>>

Consumer == NextBlock \/ Wake \/ Process \/ Shutdown \/ Joined

Next == Reader \/ Consumer

\* iio gives up on a refill or an open after a timeout, and the reader never
\* waits for the consumer, so both threads keep taking steps.  Nothing makes
\* the device come back (Reopened) and nothing makes the operator stop us.
Fairness ==
  /\ WF_vars(Reader)
  /\ WF_vars(NextBlock \/ Wake \/ Process \/ Joined)

Spec == Init /\ [][Next]_vars /\ Fairness

-----------------------------------------------------------------------------
(* Properties.                                                             *)

\* Every variable holds a value of its kind.
TypeOK ==
  /\ free \subseteq Buffers
  /\ ready \in Seq(Buffers)
  /\ current \in Buffers \cup {NoBuffer}
  /\ filling \in Buffers \cup {NoBuffer}
  /\ content \in [Buffers -> [n : Nat, live : BOOLEAN]]
  /\ overruns \in Nat /\ produced \in Nat /\ delivered \in Nat
  /\ linkUp \in BOOLEAN /\ stop \in BOOLEAN
  /\ reader \in {"head", "refill", "take", "fill", "push", "pause", "done"}
  /\ dsp \in {"call", "wait", "work", "joining", "done"}

Queued == {ready[i] : i \in 1..Len(ready)}

\* The pool is conserved: every buffer is in exactly one of the four places
\* (free list, queue, consumer, reader), so none leaks and no block is being
\* written while it is queued or being processed.
PoolPartition ==
  /\ Buffers = free \cup Queued \cup Held \cup ({filling} \ {NoBuffer})
  /\ free \cap Queued = {} /\ current \notin free \cup Queued
  /\ filling \notin free \cup Queued
  /\ current = filling => current = NoBuffer
  /\ \A i, j \in 1..Len(ready) : ready[i] = ready[j] => i = j

\* take_buffer() never falls through to allocating a fresh block on the
\* reader's path: when it is called there is a free buffer or a queued one.
PoolNeverExhausted ==
  reader = "take" => free # {} \/ ready # <<>>

\* The overrun counter the status page shows is exact: every block the reader
\* produced was delivered, was counted as an overrun, or is still queued, and
\* the queue holds the latest blocks in order with none missing.
BlocksAccounted ==
  /\ produced = delivered + overruns + Len(ready)
  /\ \A i \in 1..Len(ready) : content[ready[i]].n = delivered + overruns + i

\* A block is given up only when the consumer is the whole pool behind: every
\* buffer but the one it is processing is queued.
DropOnlyWhenBehind ==
  [][overruns' # overruns => Buffers = Queued \cup Held]_vars

\* The pointer next_block() returned stays valid until the next call: the
\* reader never writes into the block that is being processed.
BlockStable ==
  [][current # NoBuffer /\ current' = current => content'[current] = content[current]]_vars

\* Blocks reach the consumer in the order they were captured, each at most
\* once, and the only blocks skipped are the ones counted as overruns.
OrderedDelivery ==
  [][delivered' # delivered =>
       /\ delivered' = delivered + 1
       /\ content[current'].n = delivered' + overruns]_vars

\* The real-time loop never stalls for good while the device is away:
\* next_block() returns, with live samples or with silence.
NoStall == dsp = "wait" ~> dsp # "wait" \/ produced = MaxBlocks

\* Destroying the source ends: the join of the reader thread returns whatever
\* the reader was doing, reconnecting included.
ShutdownEnds == dsp = "joining" ~> dsp = "done"
=============================================================================

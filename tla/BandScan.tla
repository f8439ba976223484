------------------------------- MODULE BandScan -------------------------------
(***************************************************************************)
(* The passive band scan of rx/src/main.cpp: GET /api/scan, run by the     *)
(* HTTP workers, and the real-time loop, which accumulates a periodogram   *)
(* (rx/src/spectrum.hpp) while a scan is asked for and publishes it.       *)
(*                                                                         *)
(* A handler raises scan_req and polls scan_done.  The loop starts over    *)
(* whenever scan_req has moved, so requests that overlap are answered by   *)
(* one scan, that of the last of them, and each one delays the others.     *)
(*                                                                         *)
(* Time is a Tick, the length of a block.  The loop processes one block in *)
(* a tick, or none when the source stalls (open_device() can block for its *)
(* ten second timeout).  A handler polls once in a tick.                   *)
(***************************************************************************)
EXTENDS Naturals

CONSTANTS
  Workers,    \* the HTTP workers: every scan under way occupies one
  FeedBlocks, \* scan_feed_blocks
  Timeout,    \* scan_timeout_ms, in ticks
  MaxReq      \* bound: no request after this many

ASSUME BandScanAssumption ==
  /\ FeedBlocks \in Nat \ {0} /\ Timeout \in Nat /\ MaxReq \in Nat

VARIABLES
  req,        \* scan_req
  done,       \* scan_done
  seen,       \* scan_req_seen
  feedLeft,   \* scan_feed_left
  fed,        \* the periodogram: how many blocks were written since reset()
  psd,        \* scan_psd: the request its accumulation answers, and the blocks in it
  rt,         \* the real-time loop: waiting, or at one of its steps of a block
  handler,    \* where the handler run by each worker is
  want,       \* its want
  waited,     \* its waited
  copy,       \* its psd
  stalled     \* history: the handlers that have waited through a tick without a block

loop == <<done, seen, feedLeft, fed, psd, rt>>
http == <<req, handler, want, waited, copy, stalled>>
vars == <<loop, http>>

NoPsd == [of |-> 0, blocks |-> 0]

Init ==
  /\ req = 0 /\ done = 0 /\ seen = 0
  /\ feedLeft = 0 /\ fed = 0 /\ psd = NoPsd
  /\ rt = "block"
  /\ handler = [w \in Workers |-> "idle"]
  /\ want = [w \in Workers |-> 0] /\ waited = [w \in Workers |-> 0]
  /\ copy = [w \in Workers |-> NoPsd]
  /\ stalled = {}

-----------------------------------------------------------------------------
(* The handler of GET /api/scan.                                           *)

Step(w, from, to) == handler[w] = from /\ handler' = [handler EXCEPT ![w] = to]

\* fetch_add.
Request(w) ==
  /\ req < MaxReq
  /\ Step(w, "idle", "check")
  /\ req' = req + 1
  /\ want' = [want EXCEPT ![w] = req + 1]
  /\ UNCHANGED <<loop, waited, copy, stalled>>

\* The poll of scan_done, and the test after the loop: the scan is complete ...
Complete(w) ==
  /\ done >= want[w]
  /\ Step(w, "check", "copy")
  /\ UNCHANGED <<loop, req, want, waited, copy, stalled>>

\* ... or it is worth another sleep ...
Sleep(w) ==
  /\ done < want[w] /\ waited[w] < Timeout
  /\ Step(w, "check", "sleep")
  /\ UNCHANGED <<loop, req, want, waited, copy, stalled>>

\* ... or the answer is 503.
GiveUp(w) ==
  /\ done < want[w] /\ waited[w] >= Timeout
  /\ Step(w, "check", "503")
  /\ UNCHANGED <<loop, req, want, waited, copy, stalled>>

\* The published PSD is copied under scan_mtx.
Copy(w) ==
  /\ Step(w, "copy", "200")
  /\ copy' = [copy EXCEPT ![w] = psd]
  /\ UNCHANGED <<loop, req, want, waited, stalled>>

\* The response is sent, the handler's locals are gone, the worker is free.
Reply(w) ==
  /\ Step(w, "200", "idle") \/ Step(w, "503", "idle")
  /\ want' = [want EXCEPT ![w] = 0] /\ waited' = [waited EXCEPT ![w] = 0]
  /\ copy' = [copy EXCEPT ![w] = NoPsd]
  /\ stalled' = stalled \ {w}
  /\ UNCHANGED <<loop, req>>

-----------------------------------------------------------------------------
(* The real-time loop.                                                     *)

\* reset() when a scan starts, write() and the countdown while one runs.
Accumulate(start, left) ==
  LET have == IF start THEN 0 ELSE fed
  IN  /\ IF start THEN seen' = req ELSE UNCHANGED seen
      /\ IF left > 0
         THEN fed' = have + 1 /\ feedLeft' = left - 1 /\ rt' = IF left = 1 THEN "publish" ELSE "wait"
         ELSE fed' = have /\ feedLeft' = left /\ rt' = "wait"

\* Mutant: the accumulation starts over for as long as a request is unanswered.
BlockRestarts ==
  /\ rt = "block"
  /\ IF req # done THEN Accumulate(TRUE, FeedBlocks) ELSE Accumulate(FALSE, feedLeft)
  /\ UNCHANGED <<done, psd, http>>

\* The loop's part of one block: a new request starts the accumulation over.
Block ==
  /\ rt = "block"
  /\ IF req # seen THEN Accumulate(TRUE, FeedBlocks) ELSE Accumulate(FALSE, feedLeft)
  /\ UNCHANGED <<done, psd, http>>

\* The PSD is swapped in, under scan_mtx ...
Publish ==
  /\ rt = "publish"
  /\ psd' = [of |-> seen, blocks |-> fed]
  /\ rt' = "done"
  /\ UNCHANGED <<done, seen, feedLeft, fed, http>>

\* Mutant: every request made so far is reported as complete.
DoneClaimsAll ==
  /\ rt = "done"
  /\ done' = req
  /\ rt' = "wait"
  /\ UNCHANGED <<seen, feedLeft, fed, psd, http>>

\* ... and the scan reported as complete.
Done ==
  /\ rt = "done"
  /\ done' = seen
  /\ rt' = "wait"
  /\ UNCHANGED <<seen, feedLeft, fed, psd, http>>

-----------------------------------------------------------------------------
Asleep == {w \in Workers : handler[w] = "sleep"}

\* Mutant: the polls are not counted.
WakeUncounted == UNCHANGED waited

\* sleep_for() has returned: waited grows by one poll.
WakeAll == waited' = [w \in Workers |-> waited[w] + (IF w \in Asleep THEN 1 ELSE 0)]

\* The tick ends: the handlers poll again, and the next block is there or not.
\* (A worker slow to send its response is one that is idle and not called on.)
Tick ==
  /\ rt = "wait"
  /\ \A w \in Workers : handler[w] \in {"idle", "sleep"}
  /\ handler' = [w \in Workers |-> IF w \in Asleep THEN "check" ELSE handler[w]]
  /\ WakeAll
  /\ \/ rt' = "block" /\ UNCHANGED stalled
     \/ rt' = "wait" /\ stalled' = stalled \cup Asleep
  /\ UNCHANGED <<done, seen, feedLeft, fed, psd, req, want, copy>>

Handler(w) == Complete(w) \/ Sleep(w) \/ GiveUp(w) \/ Copy(w)

Loop == Block \/ Publish \/ Done

Next == (\E w \in Workers : Request(w) \/ Handler(w) \/ Reply(w)) \/ Loop \/ Tick

\* Neither thread waits for anything but the clock.  Nobody has to ask for a scan.
Spec == Init /\ [][Next]_vars /\ WF_vars(Loop) /\ WF_vars(Tick)
             /\ \A w \in Workers : WF_vars(Handler(w)) /\ WF_vars(Reply(w))

-----------------------------------------------------------------------------
(* Properties.                                                             *)

PsdType == [of : Nat, blocks : Nat]

\* Every variable holds a value of its kind.
TypeOK ==
  /\ req \in Nat /\ done \in Nat /\ seen \in Nat /\ fed \in Nat
  /\ feedLeft \in 0 .. FeedBlocks
  /\ psd \in PsdType
  /\ rt \in {"wait", "block", "publish", "done"}
  /\ handler \in [Workers -> {"idle", "check", "sleep", "copy", "200", "503"}]
  /\ want \in [Workers -> Nat] /\ waited \in [Workers -> 0 .. Timeout]
  /\ copy \in [Workers -> PsdType]
  /\ stalled \subseteq Workers

\* A scan that is answered is a whole one, and all of it was accumulated after it
\* was asked for, however many requests ran into one another: no handler is
\* ever given the PSD of an earlier scan or a partial accumulation.  (A block may
\* have been received, and queued, before.)
AnswerIsFresh ==
  \A w \in Workers : handler[w] = "200" =>
    copy[w].of >= want[w] /\ copy[w].blocks = FeedBlocks

\* 503 "SDR link down or receiver stalled" is said only to a handler that
\* waited through a stall.  When each worker asks for a scan just before the
\* last one would have been complete, the first of them waits through almost
\* FeedBlocks blocks once per worker: the timeout has to cover that.
RefusalIsHonest ==
  \A w \in Workers : handler[w] = "503" => w \in stalled

\* Every scan request is answered, even if the source has stalled for good.
EveryScanEnds ==
  \A w \in Workers : handler[w] = "check" ~> handler[w] \in {"200", "503"}
=============================================================================

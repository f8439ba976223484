------------------------------ MODULE GainControl ------------------------------
(***************************************************************************)
(* The front-end gain under sdr.gain_mode auto_sw: the software AGC of the *)
(* real-time loop (rx/src/main.cpp), PlutoSource's set_hardware_gain(),    *)
(* attribute reads and reconnect (rx/src/pluto_source.hpp), and the chip.  *)
(*                                                                         *)
(* Three kinds of thread meet at m_phy_mtx: the reader, which retires and  *)
(* publishes m_rx_phy around a reconnect; the real-time loop, which writes *)
(* the gain; and the HTTP workers, which read the gain for the status      *)
(* page.  The last two only try the lock, and do nothing when it is taken. *)
(***************************************************************************)
EXTENDS Integers

CONSTANTS
  Pollers,    \* the HTTP workers that read an attribute
  NoOne,      \* m_phy_mtx is not held
  MinGain,    \* sdr.agc.min_gain_db
  Ceiling,    \* sdr.gain_db
  GainStep,   \* sdr.agc.step_db
  Interval,   \* sdr.agc.interval_ms, in blocks
  Warmup      \* the settling time of the EMA before the first move, in blocks

ASSUME GainControlAssumption ==
  /\ MinGain \in Nat /\ Ceiling \in Nat /\ MinGain < Ceiling
  /\ GainStep \in Nat \ {0} /\ Interval \in Nat \ {0} /\ Warmup \in Nat
  /\ NoOne \notin Pollers \cup {"loop"}
  /\ "loop" \notin Pollers

Gains == MinGain .. Ceiling

VARIABLES
  reader,     \* where the reader thread is
  linkUp,     \* m_link_up
  context,    \* m_ctx is open: the memory m_rx_phy points into is there
  rxPhy,      \* m_rx_phy is not null
  holder,     \* who holds m_phy_mtx across a step
  gainCmd,    \* m_gain_cmd
  chip,       \* the gain the chip is set to
  loop,       \* where the real-time loop is
  level,      \* what the EMAs say: "clip", "hot", "ok" or "low"
  agcGain,    \* agc_gain
  since,      \* blocks since agc_last_step, up to Interval
  warmup,     \* agc_warmup_left
  polling     \* the pollers inside an attribute read

source == <<reader, linkUp, context>>
law == <<level, agcGain, since, warmup>>
vars == <<source, rxPhy, holder, gainCmd, chip, loop, law, polling>>

Init ==
  /\ reader = "stream" /\ linkUp = TRUE /\ context = TRUE /\ rxPhy = TRUE
  /\ holder = NoOne
  /\ gainCmd = Ceiling /\ chip = Ceiling     \* the constructor opened the device
  /\ loop = "block" /\ level = "ok"
  /\ agcGain = Ceiling /\ since = 0 /\ warmup = Warmup
  /\ polling = {}

-----------------------------------------------------------------------------
(* The reader thread.                                                      *)

Goto(from, to) == reader = from /\ reader' = to

\* A refill failed.
LoseLink ==
  /\ Goto("stream", "retire")
  /\ linkUp' = FALSE
  /\ UNCHANGED <<context, rxPhy, holder, gainCmd, chip, loop, law, polling>>

\* Mutant: the pointer is cleared without the lock.
RetireUnlocked ==
  /\ Goto("retire", "destroy")
  /\ rxPhy' = FALSE
  /\ UNCHANGED <<linkUp, context, holder, gainCmd, chip, loop, law, polling>>

\* cleanup(): m_rx_phy is cleared, under the lock ...
Retire ==
  /\ Goto("retire", "destroy")
  /\ holder = NoOne
  /\ rxPhy' = FALSE
  /\ UNCHANGED <<linkUp, context, holder, gainCmd, chip, loop, law, polling>>

\* ... and the context it pointed into is destroyed.
Destroy ==
  /\ Goto("destroy", "away")
  /\ context' = FALSE
  /\ UNCHANGED <<linkUp, rxPhy, holder, gainCmd, chip, loop, law, polling>>

\* open_device() has a context.  The chip may have been power cycled.
Open ==
  /\ Goto("away", "seed")
  /\ context' = TRUE
  /\ chip' \in Gains
  /\ UNCHANGED <<linkUp, rxPhy, holder, gainCmd, loop, law, polling>>

\* The chip is seeded with the last commanded gain.
Seed ==
  /\ Goto("seed", "publish")
  /\ chip' = gainCmd
  /\ UNCHANGED <<linkUp, context, rxPhy, holder, gainCmd, loop, law, polling>>

\* A step of open_device() failed: fail() cleans up.
OpenFails ==
  /\ Goto("seed", "retire") \/ Goto("publish", "retire")
  /\ UNCHANGED <<linkUp, context, rxPhy, holder, gainCmd, chip, loop, law, polling>>

\* The device is up: m_rx_phy is published under the lock ...
Publish ==
  /\ Goto("publish", "up")
  /\ holder = NoOne
  /\ rxPhy' = TRUE
  /\ UNCHANGED <<linkUp, context, holder, gainCmd, chip, loop, law, polling>>

\* ... and the link announced.
LinkUp ==
  /\ Goto("up", "stream")
  /\ linkUp' = TRUE
  /\ UNCHANGED <<context, rxPhy, holder, gainCmd, chip, loop, law, polling>>

Reader ==
  LoseLink \/ Retire \/ Destroy \/ Open \/ Seed \/ OpenFails \/ Publish \/ LinkUp

-----------------------------------------------------------------------------
(* The real-time loop.                                                     *)

\* std::clamp to the floor and the ceiling of the configuration.
Clamp(g) == IF g < MinGain THEN MinGain ELSE IF g > Ceiling THEN Ceiling ELSE g

\* The control law: a hard clip does not wait for the interval.
NextGain ==
  CASE level = "clip"                      -> Clamp(agcGain - GainStep)
    [] level = "hot" /\ since = Interval   -> Clamp(agcGain - GainStep)
    [] level = "low" /\ since = Interval   -> Clamp(agcGain + GainStep)
    [] OTHER                               -> Clamp(agcGain)

Later == IF since < Interval THEN since + 1 ELSE Interval

\* A block has come.  While the link is down nothing is measured.
BlockDown ==
  /\ loop = "block" /\ ~linkUp
  /\ since' = Later
  /\ loop' = "rest"
  /\ UNCHANGED <<source, rxPhy, holder, gainCmd, chip, level, agcGain, warmup, polling>>

\* While it is up the EMAs move, wherever the signal takes them.
BlockUp ==
  /\ loop = "block" /\ linkUp
  /\ since' = Later
  /\ level' \in {"clip", "hot", "ok", "low"}
  /\ loop' = "law"
  /\ UNCHANGED <<source, rxPhy, holder, gainCmd, chip, agcGain, warmup, polling>>

\* No move before the EMAs have settled.
WarmUp ==
  /\ loop = "law" /\ warmup > 0
  /\ warmup' = warmup - 1
  /\ loop' = "rest"
  /\ UNCHANGED <<source, rxPhy, holder, gainCmd, chip, level, agcGain, since, polling>>

\* The law moves the gain, or leaves it.
Law ==
  /\ loop = "law" /\ warmup = 0
  /\ agcGain' = NextGain
  /\ IF agcGain' # agcGain THEN since' = 0 /\ loop' = "try"
     ELSE UNCHANGED since /\ loop' = "rest"
  /\ UNCHANGED <<source, rxPhy, holder, gainCmd, chip, level, warmup, polling>>

\* set_hardware_gain(): m_phy_mtx is free and the channel is there.
TryOk ==
  /\ loop = "try" /\ holder = NoOne /\ rxPhy
  /\ holder' = "loop" /\ loop' = "write"
  /\ UNCHANGED <<source, rxPhy, gainCmd, chip, law, polling>>

\* Mutant: the lock is waited for.
TryDropWaits ==
  /\ loop = "try" /\ holder = NoOne /\ ~rxPhy
  /\ loop' = "rest"
  /\ UNCHANGED <<source, rxPhy, holder, gainCmd, chip, law, polling>>

\* It is contended, or there is no channel: the write is dropped.
TryDrop ==
  /\ loop = "try" /\ (holder # NoOne \/ ~rxPhy)
  /\ loop' = "rest"
  /\ UNCHANGED <<source, rxPhy, holder, gainCmd, chip, law, polling>>

\* Mutant: the lock is released before the gain is recorded.
WriteUnlocks ==
  /\ loop = "write"
  /\ chip' = agcGain /\ loop' = "store" /\ holder' = NoOne
  /\ UNCHANGED <<source, rxPhy, gainCmd, law, polling>>

\* The attribute write succeeds ...
Write ==
  /\ loop = "write"
  /\ chip' = agcGain /\ loop' = "store"
  /\ UNCHANGED <<source, rxPhy, holder, gainCmd, law, polling>>

\* ... or fails, and nothing is recorded.
WriteFails ==
  /\ loop = "write"
  /\ loop' = "rest" /\ holder' = NoOne
  /\ UNCHANGED <<source, rxPhy, gainCmd, chip, law, polling>>

\* The gain is recorded for the next reconnect, and the lock released.
Store ==
  /\ loop = "store"
  /\ gainCmd' = agcGain /\ loop' = "rest" /\ holder' = NoOne
  /\ UNCHANGED <<source, rxPhy, chip, law, polling>>

\* The rest of the iteration (decoding) touches none of this.
Rest ==
  /\ loop = "rest"
  /\ loop' = "block"
  /\ UNCHANGED <<source, rxPhy, holder, gainCmd, chip, law, polling>>

SetGain == TryOk \/ TryDrop \/ Write \/ WriteFails \/ Store

-----------------------------------------------------------------------------
(* read_phy_attr().  A read that finds the lock taken or no channel returns *)
(* NaN and changes nothing.                                                *)

ReadStart(p) ==
  /\ p \notin polling /\ holder = NoOne /\ rxPhy
  /\ polling' = polling \cup {p} /\ holder' = p
  /\ UNCHANGED <<source, rxPhy, gainCmd, chip, loop, law>>

ReadEnd(p) ==
  /\ p \in polling
  /\ polling' = polling \ {p} /\ holder' = NoOne
  /\ UNCHANGED <<source, rxPhy, gainCmd, chip, loop, law>>

Iterate == BlockDown \/ BlockUp \/ WarmUp \/ Law \/ Rest

Next ==
  \/ Reader \/ Iterate \/ SetGain
  \/ \E p \in Pollers : ReadStart(p) \/ ReadEnd(p)

\* The real-time loop keeps running and its own attribute writes return.
\* Nothing is assumed of the reader or of the pollers: an attribute read may
\* take as long as the network does.
Spec == Init /\ [][Next]_vars /\ WF_vars(Iterate) /\ WF_vars(SetGain)

-----------------------------------------------------------------------------
(* Properties.                                                             *)

\* Every variable holds a value of its kind; no gain leaves the configured range.
TypeOK ==
  /\ reader \in {"stream", "retire", "destroy", "away", "seed", "publish", "up"}
  /\ linkUp \in BOOLEAN /\ context \in BOOLEAN /\ rxPhy \in BOOLEAN
  /\ holder \in Pollers \cup {NoOne, "loop"}
  /\ gainCmd \in Gains /\ chip \in Gains /\ agcGain \in Gains
  /\ loop \in {"block", "law", "try", "write", "store", "rest"}
  /\ level \in {"clip", "hot", "ok", "low"}
  /\ since \in 0 .. Interval /\ warmup \in 0 .. Warmup
  /\ polling \subseteq Pollers

\* No attribute is read or written through a channel whose context has been
\* destroyed, however a reconnect falls among the status reads and gain writes.
NoUseAfterFree ==
  (polling # {} \/ loop \in {"write", "store"}) => context /\ rxPhy

\* While the device is published, the chip has the gain that was recorded as
\* commanded: a reconnect never seeds a gain older than the last write that
\* succeeded, even one that raced it.
ChipHasCommandedGain ==
  rxPhy /\ loop # "store" => chip = gainCmd

\* The real-time loop never waits for a status read or a reconnect, however
\* long it holds the phy channel.
LoopNeverBlocks == loop = "try" ~> loop = "rest"

=============================================================================

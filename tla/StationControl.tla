---------------------------- MODULE StationControl ----------------------------
(***************************************************************************)
(* The control of one station's chain: MonoStation::process()              *)
(* (rx/src/mono_station.hpp) and the lock and blend of StereoDecoder       *)
(* (rx/src/stereo_decoder.hpp), block by block.  What decides is kept (the *)
(* squelch, the mute ramp, the AFC, the warm-up, the high-cut, the         *)
(* multipath figure, pilot lock, stereo blend, AGC); what is computed on   *)
(* samples is the block's Signal, as the code measures it.  A one-pole     *)
(* average is Toward(): a fraction of the way, and there in the end.       *)
(*                                                                         *)
(* The RT loop calls process() for a station somebody listens to, and      *)
(* mark_idle() for the others.                                             *)
(***************************************************************************)
EXTENDS Integers, FiniteSetsExt

CONSTANTS
  Plans,        \* StationPlans: [squelch, afc, agc, mode, blend, usePll]
  Signals,      \* what a block may measure
  Noise,        \* the error a block without a carrier reads as, in AFC units
  BlockLen,     \* n: samples in a block
  AudioDecim,   \* channel samples for one audio frame
  Warmup,       \* 0.75 s, in samples
  Hang,         \* m_sq_hang_samp
  OpenDb,       \* m_sq_open_snr_db
  kAfcRange,    \* the clamp of the correction
  HiCutLo, HiCutHi, HiCutMin, HiCutMax,      \* kHiCut*, m_hc_max_hz
  BlendLo, BlendHi, MpLo, MpHi,              \* the stereo blend's windows
  PilotThr, LockCoh, UnlockCoh,              \* the pilot's thresholds
  Full,         \* one: of the mute gain, of the blend, of the ripple
  AgcTarget, AgcMax

Hysteresis == 3        \* dB, of the squelch and of the pilot

ASSUME StationControlAssumption ==
  /\ BlockLen \in Nat \ {0} /\ AudioDecim \in Nat \ {0}
  /\ Hang \in Nat /\ Warmup \in Nat /\ OpenDb \in Int
  /\ \A s \in Signals : s.proxy \in Int
  /\ \A p \in Plans : p.squelch \in BOOLEAN /\ p.afc \in BOOLEAN

VARIABLES
  plan,         \* the station's plan
  signal,       \* what the last block measured
  idle,         \* m_idle
  sqOpen, hangLeft,                          \* m_sq_open, m_sq_hang_left
  snrDb,        \* m_snr_db, the smoothed figure; 0: nothing measured yet
  warmupLeft,   \* m_warmup_samp
  afcHz,        \* m_afc_hz, in the mixer and on the status port
  multipath,    \* m_mp_ema
  locked, frac, \* the StereoDecoder's m_locked, m_frac
  phase,        \* samples the decimators hold over
  agcGain,      \* m_agc_gain, dB
  corner,       \* m_hc_corner
  muteGain,     \* m_mute_gain
  dead,         \* history: dead samples since the last block that opens
  pulled        \* history: those of them the AFC has followed

squelch == <<sqOpen, hangLeft>>
stereo == <<locked, frac>>
audio == <<phase, agcGain, corner, muteGain>>
chain == <<squelch, snrDb, warmupLeft, afcHz, multipath, stereo, audio, dead, pulled>>
vars == <<plan, signal, idle, chain>>

-----------------------------------------------------------------------------
Least(a, b) == IF a < b THEN a ELSE b
Clamp(x, lo, hi) == IF x < lo THEN lo ELSE IF x > hi THEN hi ELSE x

\* A smoothed value, one step on: half way, and never past.
Toward(x, target) ==
  IF x < target THEN x + (target - x + 1) \div 2 ELSE x - (x - target + 1) \div 2

\* Where x is in the window lo .. hi, as a share of `whole`.
Share(x, lo, hi, whole) == (Clamp(x - lo, 0, hi - lo) * whole) \div (hi - lo)

Opens(s) == s.proxy >= OpenDb
IsDead(s) == s.proxy < OpenDb - Hysteresis

\* The error the discriminator's mean shows: the carrier's distance from the
\* mixer, or noise.
Errors(s) == IF s.carrier THEN {s.offset - afcHz} ELSE Noise

-----------------------------------------------------------------------------
(* One block: update_metrics(), update_afc(), update_multipath(), and the  *)
(* stereo or mono tail, each reading what those before it have just set.   *)

Metrics(s) ==
  /\ snrDb' = IF snrDb = 0 THEN s.snr ELSE Toward(snrDb, s.snr)

\* Mutant: a block that opens the squelch does not renew the hang.
SquelchNoRenewal(s) ==
  IF ~plan.squelch THEN UNCHANGED squelch ELSE
  CASE Opens(s)                 -> sqOpen' = TRUE /\ UNCHANGED hangLeft
    [] IsDead(s) /\ hangLeft > 0 -> hangLeft' = hangLeft - BlockLen /\ UNCHANGED sqOpen
    [] IsDead(s) /\ hangLeft <= 0 -> sqOpen' = FALSE /\ UNCHANGED hangLeft
    [] OTHER                    -> UNCHANGED squelch

\* Mutant: the hang is over only when it has come to exactly zero.
SquelchExactZero(s) ==
  IF ~plan.squelch THEN UNCHANGED squelch ELSE
  CASE Opens(s)                 -> sqOpen' = TRUE /\ hangLeft' = Hang
    [] IsDead(s) /\ hangLeft > 0 -> hangLeft' = hangLeft - BlockLen /\ UNCHANGED sqOpen
    [] IsDead(s) /\ hangLeft = 0 -> sqOpen' = FALSE /\ UNCHANGED hangLeft
    [] OTHER                    -> UNCHANGED squelch

\* The squelch, if the plan has one: between the two thresholds nothing changes.
Squelch(s) ==
  IF ~plan.squelch THEN UNCHANGED squelch ELSE
  CASE Opens(s)                 -> sqOpen' = TRUE /\ hangLeft' = Hang
    [] IsDead(s) /\ hangLeft > 0 -> hangLeft' = hangLeft - BlockLen /\ UNCHANGED sqOpen
    [] IsDead(s) /\ hangLeft <= 0 -> sqOpen' = FALSE /\ UNCHANGED hangLeft
    [] OTHER                    -> UNCHANGED squelch

\* Mutant: the freeze looks at the squelch as it was before this block.
AfcFollowsLate == plan.afc /\ warmupLeft <= 0 /\ sqOpen

\* The AFC follows this block.
AfcFollows == plan.afc /\ warmupLeft <= 0 /\ sqOpen'

\* The warm-up is counted here, and here only.
Afc(s) ==
  /\ warmupLeft' = IF plan.afc /\ warmupLeft > 0 THEN warmupLeft - BlockLen ELSE warmupLeft
  /\ IF AfcFollows
     THEN \E e \in Errors(s) :
            afcHz' = Clamp(Toward(afcHz, afcHz + e), -kAfcRange, kAfcRange)
     ELSE UNCHANGED afcHz

Multipath(s) ==
  IF plan.squelch /\ ~sqOpen' THEN UNCHANGED multipath
  ELSE multipath' = Toward(multipath, s.ripple)

\* In square mode the pilot has no coherence estimate, and counts as coherent.
Coherence(s) == IF plan.usePll THEN s.coherence ELSE LockCoh + 1

\* The pilot gates the blend; `auto` takes the worse of the two windows.
Depth(lock, snr, mp) ==
  IF ~lock THEN 0
  ELSE IF ~plan.blend THEN Full
  ELSE Least(Share(snr, BlendLo, BlendHi, Full), Full - Share(mp, MpLo, MpHi, Full))

Stereo(s) ==
  IF plan.mode = "mono" THEN UNCHANGED stereo
  ELSE
    /\ locked' = IF s.pilot > PilotThr /\ Coherence(s) > LockCoh THEN TRUE
                 ELSE IF s.pilot < PilotThr - Hysteresis \/ Coherence(s) < UnlockCoh THEN FALSE
                 ELSE locked
    /\ frac' = Toward(frac, Depth(locked', snrDb', multipath'))

\* The gain that brings the level to the target, in dB.
Wanted(level) == Least(AgcTarget - level, AgcMax)

HighCutTarget(warm, snr) ==
  IF warm > 0 THEN HiCutMax
  ELSE HiCutMin + Share(snr, HiCutLo, HiCutHi, HiCutMax - HiCutMin)

MuteTarget(open) == IF plan.squelch /\ ~open THEN 0 ELSE Full

\* mute_step() for each frame of the block.
Ramped(gain, frames, target) ==
  FoldSet(LAMBDA i, g : Toward(g, target), gain, 1 .. frames)

\* The audio: a block that fills no frame stops before any of this.
Emit(s) ==
  LET frames == (phase + BlockLen) \div AudioDecim
  IN /\ phase' = (phase + BlockLen) % AudioDecim
     /\ IF frames = 0 THEN UNCHANGED <<agcGain, corner, muteGain>>
        ELSE /\ agcGain' = IF plan.agc THEN Toward(agcGain, Wanted(s.level)) ELSE agcGain
             /\ corner' = Toward(corner, HighCutTarget(warmupLeft', snrDb'))
             /\ muteGain' = Ramped(muteGain, frames, MuteTarget(sqOpen'))

\* History, for the properties, and its bound.
Cap == Hang + BlockLen

Account(s) ==
  /\ dead' = CASE Opens(s)  -> 0
               [] IsDead(s) -> Least(dead + BlockLen, Cap)
               [] OTHER     -> dead
  /\ pulled' = CASE Opens(s)                 -> 0
                 [] IsDead(s) /\ AfcFollows -> Least(pulled + BlockLen, Cap)
                 [] OTHER                    -> pulled

Process(s) ==
  /\ idle' = FALSE
  /\ signal' = s
  /\ Metrics(s) /\ Squelch(s) /\ Afc(s) /\ Multipath(s) /\ Stereo(s) /\ Emit(s)
  /\ Account(s)
  /\ UNCHANGED plan

\* Nobody listens: no DSP, and every figure stays as it was.
MarkIdle ==
  /\ idle' = TRUE
  /\ UNCHANGED <<plan, signal, chain>>

Init ==
  /\ plan \in Plans
  /\ signal \in Signals
  /\ idle = FALSE
  /\ sqOpen = TRUE /\ hangLeft = Hang
  /\ snrDb = 0 /\ warmupLeft = Warmup
  /\ afcHz = 0 /\ multipath = 0
  /\ locked = FALSE /\ frac = 0
  /\ phase = 0 /\ agcGain = 0
  /\ corner = HiCutMax /\ muteGain = 0
  /\ dead = 0 /\ pulled = 0

Block == MarkIdle \/ \E s \in Signals : Process(s)

Next == Block

\* The RT loop never stops.
Spec == Init /\ [][Next]_vars /\ WF_vars(Next)

-----------------------------------------------------------------------------
(* Properties.                                                             *)

TypeOK ==
  /\ plan \in Plans /\ signal \in Signals /\ idle \in BOOLEAN
  /\ sqOpen \in BOOLEAN /\ hangLeft \in (1 - BlockLen) .. Hang
  /\ dead \in 0 .. Cap /\ pulled \in 0 .. Cap

\* README, "hang_ms holds it open after the metric drops so speech pauses don't
\* chop": the squelch closes only after a whole hang of dead samples since the
\* last block that opened it, whatever came in between, idle blocks included.
HangIsHonoured == [][sqOpen /\ ~sqOpen' => dead >= Hang]_vars

\* The AFC is frozen while squelched, "the mean is only noise": between one
\* block with a carrier and the next, the mixer follows noise for less than the
\* hang and one block, however long the carrier is away.
NoiseNeverTunes == plan.squelch => pulled < Cap

\* What the chain comes to when every block measures s.
Settled(s) ==
  /\ snrDb = s.snr
  /\ plan.squelch => (Opens(s) => sqOpen) /\ (IsDead(s) => ~sqOpen)
  /\ muteGain = MuteTarget(sqOpen)
  /\ plan.afc => corner = HighCutTarget(0, s.snr)
  /\ plan.afc /\ s.carrier /\ sqOpen => afcHz = Clamp(s.offset, -kAfcRange, kAfcRange)
  /\ sqOpen => multipath = s.ripple
  /\ plan.mode = "stereo" =>
       /\ s.pilot > PilotThr /\ Coherence(s) > LockCoh => locked
       /\ s.pilot < PilotThr - Hysteresis \/ Coherence(s) < UnlockCoh => ~locked
       /\ frac = Depth(locked, s.snr, multipath)
  /\ plan.agc => agcGain = Wanted(s.level)

Held(s) == signal = s /\ ~idle

\* However the signal has come and gone, once it stays what it is and somebody
\* listens, the chain settles on what that signal calls for: a dead channel is
\* muted, a live one is heard at full gain, on tune, and as bright and as wide
\* as its SNR and its multipath allow.
Settles == \A s \in Signals : <>[]Held(s) => <>[]Settled(s)

=============================================================================

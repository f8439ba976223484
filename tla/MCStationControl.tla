-------------------------- MODULE MCStationControl --------------------------
(* Plans and signals for TLC. *)
EXTENDS StationControl

Decoders == {
  [mode |-> "mono",   blend |-> FALSE, usePll |-> FALSE],
  [mode |-> "stereo", blend |-> FALSE, usePll |-> FALSE],
  [mode |-> "stereo", blend |-> TRUE,  usePll |-> TRUE]}

MCPlans == {[squelch |-> sq, afc |-> afc, agc |-> d.mode = "mono",
             mode |-> d.mode, blend |-> d.blend, usePll |-> d.usePll] :
              sq \in BOOLEAN, afc \in BOOLEAN, d \in Decoders}

Strong == [proxy |-> 12, carrier |-> TRUE, offset |-> 1, snr |-> 5, ripple |-> 0,
           pilot |-> 6, coherence |-> 9, level |-> 1]
MCSignals == {
  Strong,
  \* a multipath fade: clean but for the ripple, the pilot's phase torn
  [Strong EXCEPT !.ripple = 3, !.coherence = 5, !.offset = -4],
  \* between the squelch's thresholds, and the pilot's
  [Strong EXCEPT !.proxy = 8, !.snr = 3, !.ripple = 1, !.pilot = 4, !.coherence = 7, !.level = 0],
  \* nothing but noise
  [Strong EXCEPT !.proxy = 2, !.carrier = FALSE, !.snr = 1, !.ripple = 2,
                 !.pilot = 0, !.coherence = 1, !.level = 3]}
MCNoise == {-2, 2}
=============================================================================

-------------------------- MODULE MCPlanResolution --------------------------
(* Files and edits for TLC: the configurations of rx/tests and deploy/, and *)
(* values on both sides of every limit.                                     *)
EXTENDS PlanResolution

Tests == [
  sdr |-> [ip |-> "10.0.0.10", gain_db |-> 23],
  radio |-> [center_freq |-> 100306000, samp_rate |-> 16384000],
  channelizer |-> [num_channels |-> 64, oversample |-> 2, atten_db |-> 60,
                   proto_semilen_m |-> 8, block_size |-> 131072],
  fm |-> [deviation |-> 75000, tau |-> 50, intermediate_rate |-> 64000,
          predemod_transition |-> 20000],
  audio |-> [rate |-> 32000, bandwidth |-> 15000, stop_bandwidth |-> 19000],
  udp |-> [host |-> "0.0.0.0", mtu |-> 1316]]

Scalar(v) == [scalar |-> v]
Deployed ==
  [k \in DOMAIN Tests \cup {"rds", "stereo", "squelch", "decode", "status", "listener"} |->
     CASE k = "radio"    -> [center_freq |-> 98010000, samp_rate |-> 20480000]
       [] k = "rds"      -> Scalar(TRUE)
       [] k = "stereo"   -> [mode |-> "auto", blend_snr_lo_db |-> 44, blend_snr_hi_db |-> 51]
       [] k = "squelch"  -> [enabled |-> FALSE, open_snr_db |-> 15]
       [] k = "decode"   -> [listener_gated |-> TRUE]
       [] k = "status"   -> [port |-> 8082, public |-> [signal |-> FALSE]]
       [] k = "listener" -> [codec |-> "aac"]
       [] OTHER          -> Tests[k]]

Station(label, freq, port) == [label |-> label, freq |-> freq, port |-> port]
A == Station("A", 94200000, 7355)
B == Station("B", 97500000, 7356)
Off == [label |-> "Off", freq |-> 93300000, port |-> 7363, enabled |-> FALSE]
Own2 == [label |-> "Own", freq |-> 91500000, port |-> 7360, stereo |-> "auto",
         agc |-> [target |-> 40, max_gain_db |-> 60], squelch |-> Scalar(TRUE)]

(* One channel, the whole span: a station above the centre, which is tuned, *)
(* and others that may be moved to it and below it.                         *)
Single == [Tests EXCEPT !.radio = [center_freq |-> 94344000, samp_rate |-> 256000],
                        !.channelizer = [@ EXCEPT !.num_channels = 1, !.oversample = 1]]
Above == Station("Above", 94350000, 7355)

MCFiles == {[config |-> Tests, stations |-> <<A, B, Off>>],
            [config |-> Deployed, stations |-> <<Own2, B>>],
            [config |-> Single, stations |-> <<Above>>]}

E(at, key, values) == {[at |-> at, key |-> key, value |-> v] : v \in values}
MCConfigEdits ==
  E("sdr", "gain_db", {0, 73, 74}) \cup E("sdr", "gain_mode", {"auto_sw"})
  \cup E("sdr", "gain_mode", {"fast", "hybrid"})
  \cup {[at |-> "sdr", key |-> "agc", value |-> v] :
          v \in {[min_gain_db |-> 23], [min_gain_db |-> 22], [max_dbfs |-> 0],
                 [target_dbfs |-> -3], [typo |-> 1]}}
  \cup E("radio", "center_freq", {94200000, 102392000, 102300000})
  \cup E("radio", "samp_rate", {8192000, 32000000, 16384001})
  \cup E("channelizer", "num_channels", {32, 48, 128})
  \cup E("channelizer", "oversample", {1, 3, 4})
  \cup E("channelizer", "block_size", {131073, 65536})
  \cup E("fm", "deviation", {50000, 66999, 67000, 200000})
  \cup E("fm", "intermediate_rate", {32000, 64001, 102400, 170666, 640000})
  \cup E("fm", "predemod_transition", {0, 40000})
  \cup E("fm", "demod", {"pll"}) \cup E("fm", "pll_bw_hz", {60000, 90000})
  \cup E("fm", "declick_sigma", {10, 11}) \cup E("fm", "tau", {Absent})
  \cup E("audio", "rate", {16000, 30000, 48000, 64000, 85333}) \cup E("audio", "bandwidth", {16000, 20000})
  \cup E("udp", "mtu", {1, 3, 1473, 65507, 65508})
  \cup E("agc", "target", {0, 100}) \cup E("squelch", "open_snr_db", {30})
  \cup E("", "agc", {Scalar(FALSE)}) \cup E("", "rds", {Scalar(TRUE), Absent})
  \cup E("", "listener", {Scalar(TRUE), [codec |-> "mp3"]})
  \cup E("scan", "nfft", {300, 65536}) \cup E("stereo", "blend_snr_lo_db", {50, 55})
  \cup E("snr", "calibrated", {FALSE}) \cup E("", "typo", {Scalar(TRUE)})
  \cup E("", "status", {Scalar(1024), Scalar(0)}) \cup E("status", "public", {[secret |-> TRUE]})

S(key, values) == {[key |-> key, value |-> v] : v \in values}
MCStationEdits ==
  S("freq", {49999999, 94326000, 94344000, 94400000, 97506000, 108369999, 108498000, 108500000, 92114000})
  \cup S("port", {7356, 7363, 1024, 65536, Absent})
  \cup S("enabled", {FALSE, Absent})
  \cup S("stereo", {"on", "off"})
  \cup S("rds", {Scalar(TRUE), Scalar(FALSE)}) \cup S("typo", {1})
  \cup S("agc", {Scalar(FALSE), [target |-> 0], [response_ms |-> 400]})
  \cup S("squelch", {[hang_ms |-> 1500], [hang_ms |-> -1]})

MCNewcomers == {Station("C", 97550000, 7357), Station("D", 97400000, 7356),
                Station("E", 110000000, 7364)}
=============================================================================

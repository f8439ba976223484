--------------------------- MODULE PlanResolution ---------------------------
(***************************************************************************)
(* resolve_text() (src/rx/src/resolve.hpp): config.yml and stations.yml    *)
(* become the plan the receiver runs, a list of findings, or a refusal.    *)
(* The files are edited one value, or one station, at a time.              *)
(*                                                                         *)
(* A mapping is a function from its keys; a key that is absent and one     *)
(* that is null read the same.  A bare scalar where a mapping may stand is *)
(* the mapping [scalar |-> v].  Frequencies and rates are in Hz, levels in *)
(* whole dB, agc.target in hundredths and fm.declick_sigma in tenths.      *)
(*                                                                         *)
(* GainControl and this have no name in common, so that one module can     *)
(* extend both.                                                            *)
(***************************************************************************)
EXTENDS Integers, Sequences, FiniteSets, SequencesExt

CONSTANTS
  Files,        \* pairs [config, stations] the editing starts from
  ConfigEdits,  \* edits [at, key, value] of config.yml
  StationEdits, \* edits [key, value] of a station
  Newcomers,    \* stations that may be added
  Absent,       \* the value of an edit that removes its key
  MaxEdits      \* bound: edits made

VARIABLES config, stations, edits
planVars == <<config, stations, edits>>

Empty == [k \in {} |-> Absent]
has(m, k) == k \in DOMAIN m
get(m, k) == IF has(m, k) THEN m[k] ELSE Empty
Or(m, k, default) == IF has(m, k) THEN m[k] ELSE default

(* check_keys() and the at() of each required key. *)
Keys(m, required, optional) == /\ required \subseteq DOMAIN m
                               /\ DOMAIN m \subseteq required \cup optional

PowerOfTwo(n) == \E e \in 0..16 : n = 2^e       \* 2^16: bound of num_channels
Larger(a, b) == IF a > b THEN a ELSE b
Abs(n) == IF n < 0 THEN -n ELSE n
---------------------------------------------------------------------------
(* The optional blocks: defaults of AgcCfg, SqCfg, ..., and what a bare    *)
(* scalar in the block's place sets.                                       *)
Defaults == [
  agc      |-> [enabled |-> TRUE, target |-> 50, max_gain_db |-> 40, response_ms |-> 200],
  squelch  |-> [enabled |-> FALSE, open_snr_db |-> 20, hang_ms |-> 800],
  stereo   |-> [mode |-> "off", pilot_threshold_db |-> -30, blend_snr_lo_db |-> 41,
                blend_snr_hi_db |-> 55, pilot_pll |-> TRUE],
  snr      |-> [k_noise |-> 0, calibrated |-> TRUE],
  listener |-> [codec |-> "pcm", aac_bitrate_mono |-> 96000, aac_bitrate_stereo |-> 128000],
  scan     |-> [enabled |-> TRUE, nfft |-> 4096, average_ms |-> 700, threshold_db |-> 8],
  decode   |-> [listener_gated |-> FALSE],
  rds      |-> [enabled |-> FALSE]]

Switch == [agc |-> "enabled", squelch |-> "enabled", stereo |-> "mode",
           scan |-> "enabled", decode |-> "listener_gated", rds |-> "enabled"]

Over(base, m) == [k \in DOMAIN base |-> Or(m, k, base[k])]

\* Mutant: an override starts from the built-in defaults.
ReadAfresh(block, m, base) ==
  IF m = Empty THEN base
  ELSE IF has(m, "scalar") THEN [Defaults[block] EXCEPT ![Switch[block]] = m.scalar]
  ELSE Over(Defaults[block], m)

(* read_agc(), read_sq(), ...: `m` over `base`. *)
Read(block, m, base) ==
  IF ~has(m, "scalar") THEN Over(base, m)
  ELSE IF has(Switch, block) THEN [base EXCEPT ![Switch[block]] = m.scalar]
  ELSE base

InRange(block, b) ==
  CASE block = "agc"      -> b.target \in 1..100 /\ b.max_gain_db >= 0 /\ b.response_ms > 0
    [] block = "squelch"  -> b.hang_ms >= 0
    [] block = "stereo"   -> b.blend_snr_hi_db > b.blend_snr_lo_db
    [] block = "listener" -> /\ b.codec \in {"pcm", "aac"}
                             /\ b.aac_bitrate_mono \in 32000..256000
                             /\ b.aac_bitrate_stereo \in 32000..256000
    [] block = "scan"     -> /\ PowerOfTwo(b.nfft) /\ b.nfft \in 256..65536
                             /\ b.average_ms \in 100..15000
                             /\ b.threshold_db \in 1..60
    [] OTHER              -> TRUE

Readable(block, m, base) ==
  IF has(m, "scalar") THEN block # "listener"
  ELSE Keys(m, {}, DOMAIN base) /\ InRange(block, Read(block, m, base))

parse_stereo_mode(v) == CASE v = "auto" -> "Auto" [] v = "on" -> "Stereo" [] OTHER -> "Mono"
---------------------------------------------------------------------------
(* resolve_config(): config.yml. *)
GainModes == {"manual", "slow_attack", "fast_attack", "hybrid", "auto_sw"}
SdrAgc == [target_dbfs |-> -9, max_dbfs |-> -3, min_gain_db |-> 0, step_db |-> 1,
           interval_ms |-> 2000, hysteresis_db |-> 3, clip_ppm_trip |-> 5]

SdrOk(sdr) ==
  LET agc == Over(SdrAgc, get(sdr, "agc"))
  IN  /\ Keys(sdr, {"ip", "gain_db"}, {"gain_mode", "agc"})
      /\ sdr.gain_db \in 0..73
      /\ Or(sdr, "gain_mode", "manual") \in GainModes
      /\ Or(sdr, "gain_mode", "manual") = "auto_sw" =>
           /\ Keys(get(sdr, "agc"), {}, DOMAIN SdrAgc)
           /\ agc.max_dbfs < 0 /\ agc.target_dbfs < agc.max_dbfs
           /\ agc.min_gain_db >= 0 /\ agc.min_gain_db < sdr.gain_db
           /\ agc.step_db > 0 /\ agc.interval_ms > 0
           /\ agc.hysteresis_db >= 0 /\ agc.clip_ppm_trip > 0

(* as_int() and a lower bound of 1. *)
Positive == Nat \ {0}

RadioOk(radio) == /\ Keys(radio, {"center_freq", "samp_rate"}, {})
                  /\ radio.center_freq \in Positive /\ radio.samp_rate \in Positive

bin_width(c) == c.radio.samp_rate \div c.channelizer.num_channels
decim_p(c) == c.channelizer.num_channels \div c.channelizer.oversample
channel_rate(c) ==
  (c.radio.samp_rate * c.channelizer.oversample) \div c.channelizer.num_channels

ChannelizerOk(c) ==
  LET ch == c.channelizer
  IN  /\ Keys(ch, {"num_channels", "oversample", "atten_db", "proto_semilen_m",
                   "block_size"}, {})
      /\ ch.num_channels \in Positive /\ PowerOfTwo(ch.num_channels)
      /\ ch.oversample \in Positive /\ ch.num_channels % ch.oversample = 0
      /\ {ch.atten_db, ch.proto_semilen_m, ch.block_size} \subseteq Positive
      /\ ch.block_size % decim_p(c) = 0
      /\ c.radio.samp_rate % ch.num_channels = 0

(* 2 pi bw / rate <= 0.8, as bw <= 0.1273 rate. *)
PllFits(fm, rate) ==
  (Or(fm, "demod", "discriminator") = "pll" /\ Or(fm, "pll_bw_hz", 0) > 0)
    => 10000 * fm.pll_bw_hz <= 1273 * rate

FmOk(fm, rate) ==
  /\ Keys(fm, {"deviation", "tau", "intermediate_rate", "predemod_transition"},
          {"demod", "declick", "declick_sigma", "pll_bw_hz", "afc", "limiter"})
  /\ {fm.deviation, fm.intermediate_rate, fm.predemod_transition} \subseteq Positive
  /\ fm.tau > 0
  /\ Or(fm, "demod", "discriminator") \in {"discriminator", "pll"}
  /\ Or(fm, "declick_sigma", 50) > 10
  /\ Or(fm, "pll_bw_hz", 0) >= 0
  /\ PllFits(fm, rate)

AudioOk(audio) == /\ Keys(audio, {"rate", "bandwidth", "stop_bandwidth"}, {})
                  /\ {audio.rate, audio.bandwidth, audio.stop_bandwidth} \subseteq Positive
                  /\ audio.bandwidth < audio.rate \div 2

LargestDatagram == 65507
Ports == 1025..65535
PlausibleFreqs == 50000000..1500000000

UdpOk(udp) == Keys(udp, {"host", "mtu"}, {}) /\ udp.mtu \in 1..LargestDatagram

status_port(st) == IF has(st, "scalar") THEN st.scalar ELSE Or(st, "port", 0)
StatusOk(st) ==
  /\ ~has(st, "scalar") =>
       /\ Keys(st, {}, {"port", "host", "public"})
       /\ Keys(get(st, "public"), {}, {"signal", "stereo", "pilot", "rds_text",
                                       "rds_diag", "sdr_health"})
       /\ Or(st, "host", "127.0.0.1") # ""
  /\ status_port(st) \in {0} \cup Ports

usable_bw(c) == bin_width(c) * c.channelizer.oversample
required_bw(c) == 2 * (c.fm.deviation + c.audio.bandwidth) + 2 * c.fm.predemod_transition
BandwidthOk(c) == usable_bw(c) >= required_bw(c)

(* The 12 kHz in which the noise is measured: clear of RDS and the 67 kHz  *)
(* subcarrier below, and below 0.45 of the channel rate.                   *)
GuardBandOk(c) ==
  LET gb_hi == c.fm.deviation + c.audio.bandwidth - 2000
  IN  gb_hi - 12000 >= 68000 /\ 100 * gb_hi < 45 * channel_rate(c)

fm_decim(c) == Larger(1, channel_rate(c) \div c.fm.intermediate_rate)
fm_intermediate(c) == channel_rate(c) \div fm_decim(c)

\* Mutant: any nearby rate will do, and the remainder goes unheard.
RatesNearly(c) == fm_intermediate(c) >= 2 * c.audio.bandwidth

RatesOk(c) == /\ fm_intermediate(c) = c.fm.intermediate_rate
              /\ fm_intermediate(c) >= 2 * c.audio.bandwidth
              /\ fm_intermediate(c) % c.audio.rate = 0

audio_decim(c) == fm_intermediate(c) \div c.audio.rate

Sections == {"sdr", "radio", "channelizer", "fm", "audio", "udp"}
Global(c, block) == Read(block, get(c, block), Defaults[block])

ConfigOk(c) ==
  /\ Keys(c, Sections, DOMAIN Defaults \cup {"status"})
  /\ SdrOk(c.sdr) /\ RadioOk(c.radio) /\ ChannelizerOk(c)
  /\ FmOk(c.fm, channel_rate(c)) /\ AudioOk(c.audio) /\ UdpOk(c.udp)
  /\ \A block \in DOMAIN Defaults : Readable(block, get(c, block), Defaults[block])
  /\ StatusOk(get(c, "status"))
  /\ BandwidthOk(c) /\ GuardBandOk(c) /\ RatesOk(c)
---------------------------------------------------------------------------
(* resolve_stations(): stations.yml, a sequence of mappings. *)
IsList(s) == s \in Seq(ToSet(s))
Distinct(s) == \A i, j \in DOMAIN s : i # j => s[i].port # s[j].port

(* The loop that copies some of a list, those at the positions `at`, in     *)
(* order.  (SelectSeq by another definition: one that can be proved about.) *)
Rank(at, i) == Cardinality({j \in at : j <= i})
Nth(at, k) == CHOOSE i \in at : Rank(at, i) = k
Kept(s, at) == [k \in 1..Cardinality(at) |-> s[Nth(at, k)]]

IsEnabled(r) == Or(r, "enabled", TRUE)
Enabled(s) == Kept(s, {i \in DOMAIN s : IsEnabled(s[i])})

\* Mutant: a port need only differ from those of the stations in use.
ListOkEnabled(s) ==
  /\ \A i \in DOMAIN s :
       /\ Keys(s[i], {"label", "freq", "port"}, {"stereo", "agc", "squelch", "enabled", "rds"})
       /\ s[i].port \in Ports /\ s[i].freq \in PlausibleFreqs
  /\ Distinct(Enabled(s))

(* The parse of every station, before any is left out. *)
ListOk(s) ==
  /\ \A i \in DOMAIN s :
       /\ Keys(s[i], {"label", "freq", "port"}, {"stereo", "agc", "squelch", "enabled", "rds"})
       /\ s[i].port \in Ports /\ s[i].freq \in PlausibleFreqs
  /\ Distinct(s)

freq_min(c) == c.radio.center_freq - c.radio.samp_rate \div 2
freq_max(c) == c.radio.center_freq + c.radio.samp_rate \div 2
InSpan(c, r) == r.freq \in freq_min(c)..freq_max(c)
InBand(c, s) == LET e == Enabled(s) IN Kept(e, {i \in DOMAIN e : InSpan(c, e[i])})

\* Mutant: the bin below, not the nearer one.
bin_below(rel, width, n) ==
  LET k == rel \div width
      kw == IF k < n \div 2 THEN k ELSE k - n
  IN  [k_wrap |-> kw, bin |-> kw % n]

(* Both neighbours of the frequency, wrapped at the Nyquist bin; the lower *)
(* one wins a tie.                                                         *)
nearest_wrapped_bin(rel, width, n) ==
  LET lo == rel \div width
      hi == -((-rel) \div width)
      Wrap(k) == IF k < n \div 2 THEN k ELSE k - n
      Dist(k) == Abs(rel - Wrap(k) * width)
      k == IF Dist(hi) < Dist(lo) THEN hi ELSE lo
  IN  [k_wrap |-> Wrap(k), bin |-> Wrap(k) % n]

Bin(c, r) == nearest_wrapped_bin(r.freq - c.radio.center_freq, bin_width(c),
                                 c.channelizer.num_channels)
fine_hz(c, r) == r.freq - (c.radio.center_freq + Bin(c, r).k_wrap * bin_width(c))

Mode(c, r) == parse_stereo_mode(Or(r, "stereo", Global(c, "stereo").mode))
Own(c, r, block) == Read(block, get(r, block), Global(c, block))

(* Carson on the highest frequency the station modulates. *)
carson_half(c, r) ==
  LET stereo == IF Mode(c, r) # "Mono" THEN 53000 ELSE 0
      rds    == IF Own(c, r, "rds").enabled THEN 59400 ELSE 0
  IN  c.fm.deviation + Larger(c.audio.bandwidth, Larger(stereo, rds))

reach(c, r) == Abs(fine_hz(c, r)) + carson_half(c, r)

StationOk(c, r) ==
  /\ \A block \in {"agc", "squelch", "rds"} : Readable(block, get(r, block), Global(c, block))
  /\ 2 * reach(c, r) <= channel_rate(c)
  /\ Mode(c, r) # "Mono" => channel_rate(c) >= 120000

(* fm.demod: pll is for mono stations without RDS. *)
demod(c, r) ==
  IF Mode(c, r) # "Mono" \/ Own(c, r, "rds").enabled THEN "discriminator"
  ELSE Or(c.fm, "demod", "discriminator")

StationPlan(c, r) ==
  [label |-> r.label, freq |-> r.freq, port |-> r.port, mode |-> Mode(c, r),
   bin |-> Bin(c, r).bin, fine_hz |-> fine_hz(c, r), demod |-> demod(c, r),
   rf_occupied_bw |-> 2 * carson_half(c, r),
   agc |-> Own(c, r, "agc"), squelch |-> Own(c, r, "squelch"), rds |-> Own(c, r, "rds")]

Resolves(c, s) ==
  /\ ConfigOk(c) /\ ListOk(s)
  /\ \A i \in DOMAIN InBand(c, s) : StationOk(c, InBand(c, s)[i])

Planned(c, s) == [i \in DOMAIN InBand(c, s) |-> StationPlan(c, InBand(c, s)[i])]
all_stations(s) == [i \in DOMAIN s |-> [label |-> s[i].label, freq |-> s[i].freq]]
---------------------------------------------------------------------------
(* The findings, as [kind, of]: `of` the ports they name. *)
Note(kind, of) == [kind |-> kind, of |-> of]

\* Mutant: a station outside the span is left out without a word.
OutsideSilent(c, s) == {}
Outside(c, s) ==
  {Note("outside", {r.port}) : r \in {r \in ToSet(Enabled(s)) : ~InSpan(c, r)}}

None(c, s) == IF Len(s) = 0 \/ Len(Enabled(s)) = 0 \/ Len(InBand(c, s)) = 0
              THEN {Note("none", {})} ELSE {}

Roll(c, s) ==
  {Note("rolloff", {r.port}) : r \in {r \in ToSet(InBand(c, s)) :
     2 * (reach(c, r) + c.fm.predemod_transition) > channel_rate(c)}}

(* Each station is compared with the first of those before it in its bin. *)
Shared(c, s) ==
  LET p == InBand(c, s)
      Before(i) == {j \in 1..(i - 1) : Bin(c, p[j]) = Bin(c, p[i])}
      Pair(i) == LET j  == Min(Before(i))
                     df == Abs(p[i].freq - p[j].freq)
                     ch == carson_half(c, p[i])
                 IN  Note(IF df < ch THEN "co-channel"
                          ELSE IF df < ch + c.fm.deviation THEN "skirt" ELSE "shared",
                          {p[i].port, p[j].port})
  IN  {Pair(i) : i \in {i \in DOMAIN p : Before(i) # {}}}

Forced(c, s) ==
  {Note("pll", {r.port}) : r \in {r \in ToSet(InBand(c, s)) :
     Or(c.fm, "demod", "discriminator") = "pll" /\ demod(c, r) # "pll"}}

General(c) ==
  {Note(kind, {}) : kind \in
     (IF Or(c.fm, "demod", "discriminator") = "pll" THEN {"pll"} ELSE {})
       \cup (IF c.udp.mtu > 1472 THEN {"mtu"} ELSE {})
       \cup (IF DOMAIN get(c, "snr") \cap {"scalar", "calibrated"} # {} THEN {"snr"} ELSE {})
       \cup (IF 10 * usable_bw(c) < 12 * required_bw(c) THEN {"tight"} ELSE {})}

findings(c, s) == General(c) \cup None(c, s) \cup Outside(c, s) \cup Roll(c, s)
                    \cup Shared(c, s) \cup Forced(c, s)
---------------------------------------------------------------------------
(* What the demodulators and the sinks make of the rates of a plan. *)

(* RdsDecoder's constructor: the front-end decimation, its rate, and the   *)
(* second decimation, to about 20 kHz.                                     *)
Round(a, b) == (2 * a + b) \div (2 * b)
RdsFront(rate) ==
  LET fd == Larger(1, Round(rate, 160000))
  IN  IF fd > 1 /\ rate >= 140000 * fd THEN fd ELSE 1
RdsDecim(rate) == Larger(1, Round(rate, 20000 * RdsFront(rate)))
(* Samples per bit at 1187.5 bit/s, and the history they are taken from. *)
sym_len(rate) == Larger(4, Round(2 * rate, 2375 * RdsFront(rate) * RdsDecim(rate)))
kHist == 64

(* UdpSink: the bytes of a datagram are whole frames. *)
FrameBytes(p) == IF p.mode = "Mono" THEN 2 ELSE 4

m_step(c, p) == Larger(1, c.udp.mtu \div FrameBytes(p)) * FrameBytes(p)
---------------------------------------------------------------------------
Put(m, k, v) == IF v = Absent THEN [x \in DOMAIN m \ {k} |-> m[x]]
                ELSE [x \in DOMAIN m \cup {k} |-> IF x = k THEN v ELSE m[x]]

Edit == edits < MaxEdits /\ edits' = edits + 1

EditConfig ==
  /\ Edit
  /\ \E e \in ConfigEdits :
       config' = IF e.at = "" THEN Put(config, e.key, e.value)
                 ELSE Put(config, e.at, Put(get(config, e.at), e.key, e.value))
  /\ UNCHANGED stations
EditStation ==
  /\ Edit
  /\ \E i \in DOMAIN stations, e \in StationEdits :
       stations' = [stations EXCEPT ![i] = Put(@, e.key, e.value)]
  /\ UNCHANGED config
AddStation == /\ Edit
              /\ \E r \in Newcomers : stations' = Append(stations, r)
              /\ UNCHANGED config
RemoveStation == /\ Edit
                 /\ \E i \in DOMAIN stations : stations' = RemoveAt(stations, i)
                 /\ UNCHANGED config

ASSUME PlanResolutionAssumption == /\ Absent \notin BOOLEAN
                                   /\ \A f \in Files : IsList(f.stations)

PlanInit == /\ \E f \in Files : config = f.config /\ stations = f.stations
            /\ edits = 0
PlanNext == EditConfig \/ EditStation \/ AddStation \/ RemoveStation
PlanSpec == PlanInit /\ [][PlanNext]_planVars
---------------------------------------------------------------------------
(* Every station of a plan is tuned through the bin whose centre is nearest *)
(* to it of all the bins, its whole signal (audio, stereo subcarrier, RDS)  *)
(* lies inside that channel, and no two stations send to one port.          *)
Bins(c) == LET n == c.channelizer.num_channels IN -(n \div 2)..(n - (n \div 2) - 1)
Top(c, p) == IF p.rds.enabled THEN 59400
             ELSE IF p.mode # "Mono" THEN 53000 ELSE c.audio.bandwidth
Tuned(c, p) ==
  LET n == c.channelizer.num_channels
      Off(k) == p.freq - c.radio.center_freq - k * bin_width(c)
  IN  /\ \E k \in Bins(c) : p.fine_hz = Off(k) /\ p.bin = k % n
      /\ \A k \in Bins(c) : Abs(p.fine_hz) <= Abs(Off(k))
      /\ 2 * (Abs(p.fine_hz) + c.fm.deviation + Top(c, p)) <= channel_rate(c)
PlanIsSound ==
  Resolves(config, stations) =>
    LET plan == Planned(config, stations)
    IN  (\A i \in DOMAIN plan : Tuned(config, plan[i])) /\ Distinct(plan)

(* No station is lost without a word: one that is enabled is in the plan,   *)
(* in the order of the file, or named as outside the span; and a disabled   *)
(* one is in neither, but still known to the band scan.                     *)
NothingVanishes ==
  Resolves(config, stations) =>
    LET plan == Planned(config, stations)
        Said(r) == Note("outside", {r.port}) \in findings(config, stations)
    IN  /\ \A i \in DOMAIN stations :
             LET r == stations[i]
                 in == \E k \in DOMAIN plan : plan[k].port = r.port
             IN  IF IsEnabled(r) THEN in # Said(r) ELSE ~in /\ ~Said(r)
        /\ \A k, l \in DOMAIN plan : k < l =>
             \E i, j \in DOMAIN stations :
               i < j /\ stations[i].port = plan[k].port /\ stations[j].port = plan[l].port
        /\ \A r \in ToSet(stations) :
             \E i \in DOMAIN all_stations(stations) : all_stations(stations)[i].freq = r.freq

(* Each level and switch of a station is its own, else config.yml's, else   *)
(* the built-in one, key by key; a bare switch leaves the rest alone.       *)
OverridesWin ==
  Resolves(config, stations) =>
    \A i \in DOMAIN InBand(config, stations), block \in {"agc", "squelch", "rds"} :
      LET r    == InBand(config, stations)[i]
          mine == get(r, block)
          all  == get(config, block)
          Said(m, k) == IF has(m, "scalar") THEN k = "enabled" ELSE has(m, k)
          Value(m, k) == IF has(m, "scalar") THEN m.scalar ELSE m[k]
      IN  \A k \in DOMAIN Defaults[block] :
            Planned(config, stations)[i][block][k] =
              CASE Said(mine, k) -> Value(mine, k)
                [] ~Said(mine, k) /\ Said(all, k) -> Value(all, k)
                [] OTHER -> Defaults[block][k]

(* What the chain of a resolved plan relies on without looking: blocks that *)
(* slice into the channelizer, channels fast enough for stereo, RDS and the *)
(* noise measurement, stages that do not alias what the next one wants,     *)
(* a bit of RDS well within the history kept, and datagrams of whole frames.*)
ChainFits ==
  Resolves(config, stations) =>
    LET c == config
        rate == channel_rate(c)
        rds  == rate \div RdsFront(rate)
    IN  /\ c.channelizer.block_size % decim_p(c) = 0
        /\ rate * decim_p(c) = c.radio.samp_rate
        /\ rate >= 120000
        /\ 2 * (c.fm.deviation + c.audio.bandwidth + c.fm.predemod_transition) <= rate
        /\ rate \in fm_decim(c) * fm_intermediate(c)..(fm_decim(c) * (fm_intermediate(c) + 1) - 1)
        /\ audio_decim(c) * c.audio.rate = fm_intermediate(c)
        /\ 2 * c.audio.bandwidth < c.audio.rate
        /\ rds \div 2 - 3000 > 60000
        /\ sym_len(rate) \in 12..24 /\ 2 * sym_len(rate) < kHist
        /\ \A p \in ToSet(Planned(c, stations)) :
             m_step(c, p) > 0 /\ m_step(c, p) % FrameBytes(p) = 0 /\ m_step(c, p) <= LargestDatagram

(* Stations are independent: to disable one, or to take it out, removes it  *)
(* from a plan and changes nothing else; and one that is enabled again is   *)
(* refused for its own sake only, never for a port taken meanwhile.         *)
Disabled(i) == [stations EXCEPT ![i] = Put(@, "enabled", FALSE)]
Others(plan, port) == Kept(plan, {k \in DOMAIN plan : plan[k].port # port})
Reenabled(i) == [stations EXCEPT ![i] = Put(@, "enabled", Absent)]
StationsIndependent ==
  [][(config' = config /\ Resolves(config, stations)) =>
       \A i \in DOMAIN stations :
         LET port == stations[i].port
         IN  /\ stations' \in {Disabled(i), RemoveAt(stations, i)} =>
                  /\ Resolves(config, stations')
                  /\ Planned(config, stations') =
                       Others(Planned(config, stations), port)
             /\ (stations' = Reenabled(i) /\ ~Resolves(config, stations')) =>
                  ~StationOk(config, stations[i])]_planVars

=============================================================================

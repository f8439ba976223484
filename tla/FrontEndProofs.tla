--------------------------- MODULE FrontEndProofs ---------------------------
(***************************************************************************)
(* Theorems about what sets the front end up and keeps its gain.           *)
(*                                                                         *)
(* PlanResolution, for every pair of files and every edit of them: what    *)
(* resolves is a sound plan, in which every station is where its own file  *)
(* entry, and nothing else, puts it.                                       *)
(*                                                                         *)
(* GainControl, for every number of pollers and every configuration of the *)
(* control law: the radio is never used after it is gone, and keeps the    *)
(* gain it was given; the real-time loop waits for nobody to set it.       *)
(***************************************************************************)
EXTENDS GainControl, PlanResolution, FiniteSetTheorems, TLAPS

-----------------------------------------------------------------------------
(* PlanResolution. What a plan says of a station, whatever the files say. *)

\* A block read over another, key by key.
LEMMA ReadOver ==
  ASSUME NEW block \in {"agc", "squelch", "rds"}, NEW m, NEW base,
         DOMAIN base = DOMAIN Defaults[block]
  PROVE  /\ DOMAIN Read(block, m, base) = DOMAIN Defaults[block]
         /\ \A k \in DOMAIN Defaults[block] :
              Read(block, m, base)[k] =
                IF has(m, "scalar") THEN IF k = "enabled" THEN m.scalar ELSE base[k]
                ELSE IF has(m, k) THEN m[k] ELSE base[k]
<1>1. Switch[block] = "enabled" /\ has(Switch, block)
  BY DEF Switch, has
<1>2. CASE has(m, "scalar")
  <2>1. Read(block, m, base) = [base EXCEPT !["enabled"] = m.scalar]
    BY <1>1, <1>2 DEF Read
  <2>2. QED
    BY <1>2, <2>1
<1>3. CASE ~has(m, "scalar")
  <2>1. Read(block, m, base) = [k \in DOMAIN base |-> IF has(m, k) THEN m[k] ELSE base[k]]
    BY <1>3 DEF Read, Over, Or
  <2>2. QED
    BY <1>3, <2>1
<1>4. QED
  BY <1>2, <1>3

\* The key of a station's block: its own, config.yml's, or the built-in one.
LEMMA OwnValue ==
  ASSUME NEW c, NEW r, NEW block \in {"agc", "squelch", "rds"}, NEW k \in DOMAIN Defaults[block]
  PROVE  LET mine == get(r, block)
             all  == get(c, block)
             Said(m) == IF has(m, "scalar") THEN k = "enabled" ELSE has(m, k)
             Value(m) == IF has(m, "scalar") THEN m.scalar ELSE m[k]
         IN  Own(c, r, block)[k] = IF Said(mine) THEN Value(mine)
                                   ELSE IF Said(all) THEN Value(all) ELSE Defaults[block][k]
<1> DEFINE mine == get(r, block)
           all  == get(c, block)
           base == Read(block, all, Defaults[block])
<1>1. /\ DOMAIN base = DOMAIN Defaults[block]
      /\ base[k] = IF has(all, "scalar")
                   THEN IF k = "enabled" THEN all.scalar ELSE Defaults[block][k]
                   ELSE IF has(all, k) THEN all[k] ELSE Defaults[block][k]
  BY ReadOver
<1>2. Own(c, r, block) = Read(block, mine, base)
  BY DEF Own, Global
<1> HIDE DEF base, mine, all
<1>3. Own(c, r, block)[k] =
        IF has(mine, "scalar") THEN IF k = "enabled" THEN mine.scalar ELSE base[k]
        ELSE IF has(mine, k) THEN mine[k] ELSE base[k]
  BY <1>1, <1>2, ReadOver
<1>4. QED
  BY <1>1, <1>3 DEF mine, all

\* Every level and switch of a planned station is its own where it has one, else
\* config.yml's, else the built-in one, whatever else the files say.
THEOREM OverridesAlwaysWin == PlanSpec => []OverridesWin
<1>1. OverridesWin
  <2> SUFFICES ASSUME NEW i \in DOMAIN InBand(config, stations),
                      NEW block \in {"agc", "squelch", "rds"},
                      NEW k \in DOMAIN Defaults[block]
               PROVE  LET r    == InBand(config, stations)[i]
                          mine == get(r, block)
                          all  == get(config, block)
                          Said(m) == IF has(m, "scalar") THEN k = "enabled" ELSE has(m, k)
                          Value(m) == IF has(m, "scalar") THEN m.scalar ELSE m[k]
                      IN  Planned(config, stations)[i][block][k] =
                            CASE Said(mine) -> Value(mine)
                              [] ~Said(mine) /\ Said(all) -> Value(all)
                              [] OTHER -> Defaults[block][k]
    BY Zenon DEF OverridesWin
  <2> DEFINE r == InBand(config, stations)[i]
  <2>1. Planned(config, stations)[i] = StationPlan(config, r)
    BY DEF Planned
  <2>2. StationPlan(config, r)[block] = Own(config, r, block)
    BY DEF StationPlan
  <2>3. Planned(config, stations)[i][block] = Own(config, r, block)
    BY <2>1, <2>2
  <2> HIDE DEF r
  <2>4. QED
    BY <2>3, OwnValue DEF r
<1>2. QED
  BY <1>1, PTL

-----------------------------------------------------------------------------
(* PlanResolution. What the chain of a plan relies on. *)

\* Dividing by b: what is left over, and the one way to do it.
LEMMA Division ==
  ASSUME NEW b \in Nat \ {0}, NEW x \in Int
  PROVE  \E q \in Int, r \in 0 .. b - 1 : q = x \div b /\ r = x % b /\ x = q * b + r
  OBVIOUS

LEMMA Quotient ==
  ASSUME NEW b \in Nat \ {0}, NEW q \in Int, NEW s \in 0 .. b - 1, NEW x \in Int, x = q * b + s
  PROVE  x % b = s /\ x \div b = q
  OBVIOUS

\* A channel takes `oversample` bins, and the decimation loses nothing.
LEMMA ChannelRate ==
  ASSUME NEW samp \in Positive, NEW n \in Positive, NEW os \in Positive, n % os = 0, samp % n = 0
  PROVE  /\ n \div os \in Positive /\ samp \div n \in Positive
         /\ n = (n \div os) * os /\ samp = (samp \div n) * n
         /\ (samp * os) \div n = (samp \div n) * os
         /\ ((samp \div n) * os) * (n \div os) = samp
<1> USE DEF Positive
<1>1. PICK p \in Int, t \in 0 .. os - 1 : p = n \div os /\ t = n % os /\ n = p * os + t
  BY Division
<1>2. PICK w \in Int, u \in 0 .. n - 1 : w = samp \div n /\ u = samp % n /\ samp = w * n + u
  BY Division
<1>3. n = p * os /\ samp = w * n
  BY <1>1, <1>2
<1>4. p > 0
  <2>1. p <= 0 => p * os <= 0
    OBVIOUS
  <2>2. QED
    BY <1>3, <2>1
<1>5. w > 0
  <2>1. w <= 0 => w * n <= 0
    OBVIOUS
  <2>2. QED
    BY <1>3, <2>1
<1>6. samp * os = (w * os) * n + 0
  BY <1>3
<1>7. (samp * os) \div n = w * os
  <2>1. w * os \in Int /\ 0 \in 0 .. n - 1 /\ samp * os \in Int
    OBVIOUS
  <2>2. QED
    BY <1>6, <2>1, Quotient
<1>8. (w * os) * p = samp
  BY <1>3
<1>9. n \div os = p /\ samp \div n = w
  BY <1>1, <1>2
<1>10. p \in Nat \ {0} /\ w \in Nat \ {0}
  BY <1>4, <1>5
<1>11. QED
  BY <1>3, <1>7, <1>8, <1>9, <1>10, Zenon

\* Rounding to the nearest.
LEMMA Rounded ==
  ASSUME NEW a \in Nat, NEW b \in Positive
  PROVE  /\ Round(a, b) \in Nat
         /\ Round(a, b) * (2 * b) <= 2 * a + b
         /\ 2 * a + b < Round(a, b) * (2 * b) + 2 * b
<1> USE DEF Positive
<1>1. 2 * b \in Nat \ {0} /\ 2 * a + b \in Int
  OBVIOUS
<1>2. PICK q \in Int, r \in 0 .. 2 * b - 1 :
        q = (2 * a + b) \div (2 * b) /\ r = (2 * a + b) % (2 * b) /\ 2 * a + b = q * (2 * b) + r
  BY <1>1, Division
<1>3. q < 0 => q * (2 * b) <= 0 - 2 * b
  OBVIOUS
<1>4. q \in Nat
  BY <1>2, <1>3
<1>5. QED
  BY <1>2, <1>4 DEF Round

\* The RDS front end of a channel fast enough for the noise measurement: it keeps the
\* subcarrier, and takes about 17 samples to a bit.
LEMMA RdsTiming ==
  ASSUME NEW rate \in Nat, rate > 177777
  PROVE  /\ RdsFront(rate) \in Positive
         /\ (rate \div RdsFront(rate)) \div 2 - 3000 > 60000
         /\ sym_len(rate) \in 12 .. 24
<1> USE DEF Positive
<1> DEFINE F == RdsFront(rate)
<1>1. F \in Nat \ {0} /\ (F = 1 \/ rate >= 140000 * F)
  <2>1. Round(rate, 160000) \in Nat
    BY Rounded
  <2>2. QED
    BY <2>1 DEF RdsFront, Larger
<1> HIDE DEF F
<1>2. (rate \div F) \div 2 - 3000 > 60000
  <2>1. PICK q \in Int, r \in 0 .. F - 1 : q = rate \div F /\ r = rate % F /\ rate = q * F + r
    BY <1>1, Division
  <2>2. q >= 140000
    <3>1. CASE F = 1
      BY <2>1, <3>1
    <3>2. CASE rate >= 140000 * F
      <4>1. q <= 139999 => q * F <= 139999 * F
        BY <1>1
      <4>2. QED
        BY <1>1, <2>1, <3>2, <4>1
    <3>3. QED
      BY <1>1, <3>1, <3>2
  <2>3. QED
    BY <2>1, <2>2
<1> DEFINE D == Larger(1, Round(rate, 20000 * F))
           X == F * D
<1>3. D \in Nat /\ D >= 7 /\ D * (40000 * F) <= 2 * rate + 20000 * F
      /\ 2 * rate + 20000 * F < D * (40000 * F) + 40000 * F
  <2> DEFINE B == 20000 * F
             R == Round(rate, B)
  <2>1. B \in Nat \ {0}
    BY <1>1
  <2> HIDE DEF B
  <2>2. R \in Nat /\ R * (2 * B) <= 2 * rate + B /\ 2 * rate + B < R * (2 * B) + 2 * B
    BY <2>1, Rounded
  <2>6. D = Larger(1, R)
    BY DEF B
  <2> HIDE DEF R
  <2>3. /\ R * (40000 * F) <= 2 * rate + 20000 * F
        /\ 2 * rate + 20000 * F < R * (40000 * F) + 40000 * F
    BY <1>1, <2>2 DEF B
  <2>4. R >= 7
    <3>1. R <= 6 => R * (40000 * F) <= 6 * (40000 * F)
      BY <1>1, <2>2
    <3>2. 2 * rate >= 280000 * F
      BY <1>1
    <3>3. QED
      BY <1>1, <2>2, <2>3, <3>1, <3>2
  <2>5. D = R
    BY <2>2, <2>4, <2>6 DEF Larger
  <2>7. QED
    BY <2>2, <2>3, <2>4, <2>5
<1>4. RdsDecim(rate) = D
  BY DEF RdsDecim, F
<1> HIDE DEF D
<1>5. /\ X \in Nat \ {0} /\ X >= 7 * F
      /\ 40000 * X <= 2 * rate + 20000 * F /\ 2 * rate + 20000 * F < 40000 * X + 40000 * F
  <2>1. D * (40000 * F) = 40000 * X
    BY <1>1, <1>3
  <2>2. F * D >= F * 7
    BY <1>1, <1>3
  <2>3. X \in Nat
    BY <1>1, <1>3
  <2> HIDE DEF X
  <2>4. X >= 7 * F
    BY <1>1, <1>3, <2>2 DEF X
  <2>5. QED
    BY <1>1, <1>3, <2>1, <2>3, <2>4
<1> HIDE DEF X
<1> DEFINE A == 2 * rate
           B == 2375 * X
           S == Round(A, B)
<1>6. sym_len(rate) = Larger(4, S)
  <2>1. 2375 * RdsFront(rate) * RdsDecim(rate) = B
    BY <1>1, <1>3, <1>4 DEF F, X
  <2>2. QED
    BY <2>1 DEF sym_len
<1>7. /\ S \in Nat /\ S * (4750 * X) <= 4 * rate + 2375 * X
      /\ 4 * rate + 2375 * X < S * (4750 * X) + 4750 * X
  <2>1. A \in Nat /\ B \in Nat \ {0}
    BY <1>5
  <2> HIDE DEF A, B
  <2>2. S \in Nat /\ S * (2 * B) <= 2 * A + B /\ 2 * A + B < S * (2 * B) + 2 * B
    BY <2>1, Rounded
  <2> HIDE DEF S
  <2>3. 2 * B = 4750 * X /\ 2 * A = 4 * rate /\ B = 2375 * X
    BY <1>5 DEF A, B
  <2>4. QED
    BY <2>2, <2>3
<1> HIDE DEF S
<1>8. S <= 24
  <2>1. S >= 25 => S * (4750 * X) >= 25 * (4750 * X)
    BY <1>5, <1>7
  <2>2. QED
    BY <1>1, <1>5, <1>7, <2>1
<1>9. S >= 12
  <2>1. S <= 11 => S * (4750 * X) <= 11 * (4750 * X)
    BY <1>5, <1>7
  <2>2. QED
    BY <1>1, <1>5, <1>7, <2>1
<1>10. sym_len(rate) \in 12 .. 24
  BY <1>6, <1>7, <1>8, <1>9 DEF Larger
<1>11. QED
  BY <1>1, <1>2, <1>10 DEF F

\* What a range says.
LEMMA UpTo ==
  ASSUME NEW n \in Int, NEW x \in 1 .. n
  PROVE  x \in Nat /\ 1 <= x /\ x <= n
  OBVIOUS

\* What a configuration that resolves has, in numbers.
LEMMA ConfigNumbers ==
  ASSUME NEW c, ConfigOk(c)
  PROVE  /\ c.radio.center_freq \in Positive /\ c.radio.samp_rate \in Positive
         /\ c.channelizer.num_channels \in Positive /\ PowerOfTwo(c.channelizer.num_channels)
         /\ c.channelizer.oversample \in Positive /\ c.channelizer.block_size \in Positive
         /\ c.channelizer.num_channels % c.channelizer.oversample = 0
         /\ c.radio.samp_rate % c.channelizer.num_channels = 0
         /\ c.channelizer.block_size % decim_p(c) = 0
         /\ c.fm.deviation \in Positive /\ c.fm.intermediate_rate \in Positive
         /\ c.fm.predemod_transition \in Positive
         /\ c.audio.rate \in Positive /\ c.audio.bandwidth \in Positive
         /\ c.audio.bandwidth < c.audio.rate \div 2
         /\ c.udp.mtu \in Nat /\ 1 <= c.udp.mtu /\ c.udp.mtu <= LargestDatagram
         /\ BandwidthOk(c) /\ GuardBandOk(c) /\ RatesOk(c)
<1>1. /\ RadioOk(c.radio) /\ ChannelizerOk(c) /\ FmOk(c.fm, channel_rate(c))
      /\ AudioOk(c.audio) /\ UdpOk(c.udp)
  BY Zenon DEF ConfigOk
<1>2. BandwidthOk(c) /\ GuardBandOk(c) /\ RatesOk(c)
  BY Zenon DEF ConfigOk
<1>3. c.radio.center_freq \in Positive /\ c.radio.samp_rate \in Positive
  BY <1>1 DEF RadioOk
<1>4. /\ c.channelizer.num_channels \in Positive /\ PowerOfTwo(c.channelizer.num_channels)
      /\ c.channelizer.oversample \in Positive /\ c.channelizer.block_size \in Positive
      /\ c.channelizer.num_channels % c.channelizer.oversample = 0
      /\ c.radio.samp_rate % c.channelizer.num_channels = 0
      /\ c.channelizer.block_size % decim_p(c) = 0
  BY <1>1, Zenon DEF ChannelizerOk
<1>5. /\ c.fm.deviation \in Positive /\ c.fm.intermediate_rate \in Positive
      /\ c.fm.predemod_transition \in Positive
  BY <1>1, Zenon DEF FmOk
<1>6. /\ c.audio.rate \in Positive /\ c.audio.bandwidth \in Positive
      /\ c.audio.bandwidth < c.audio.rate \div 2
  BY <1>1, Zenon DEF AudioOk
<1>7. c.udp.mtu \in Nat /\ 1 <= c.udp.mtu /\ c.udp.mtu <= LargestDatagram
  <2>1. c.udp.mtu \in 1 .. LargestDatagram
    BY <1>1 DEF UdpOk
  <2>2. LargestDatagram \in Int
    BY DEF LargestDatagram
  <2>3. QED
    BY <2>1, <2>2, UpTo
<1>8. QED
  BY <1>2, <1>3, <1>4, <1>5, <1>6, <1>7

\* The noise is measured high enough to need a fast channel.
LEMMA GuardBand ==
  ASSUME NEW c, GuardBandOk(c), c.fm.deviation \in Nat, c.audio.bandwidth \in Nat,
         channel_rate(c) \in Nat
  PROVE  channel_rate(c) > 177777
  BY DEF GuardBandOk

\* The rates of its channels.
LEMMA Channels ==
  ASSUME NEW c, ConfigOk(c)
  PROVE  /\ bin_width(c) \in Positive /\ decim_p(c) \in Positive
         /\ c.radio.samp_rate = bin_width(c) * c.channelizer.num_channels
         /\ channel_rate(c) = bin_width(c) * c.channelizer.oversample
         /\ channel_rate(c) * decim_p(c) = c.radio.samp_rate
         /\ channel_rate(c) \in Nat /\ channel_rate(c) > 177777
         /\ 2 * (c.fm.deviation + c.audio.bandwidth + c.fm.predemod_transition) <= channel_rate(c)
<1> DEFINE samp == c.radio.samp_rate
           n    == c.channelizer.num_channels
           os   == c.channelizer.oversample
           dev  == c.fm.deviation
           bw   == c.audio.bandwidth
           tr   == c.fm.predemod_transition
<1>1. /\ samp \in Positive /\ n \in Positive /\ os \in Positive /\ n % os = 0 /\ samp % n = 0
      /\ dev \in Positive /\ bw \in Positive /\ tr \in Positive /\ BandwidthOk(c) /\ GuardBandOk(c)
  BY ConfigNumbers
<1>2. /\ bin_width(c) = samp \div n /\ decim_p(c) = n \div os
      /\ channel_rate(c) = (samp * os) \div n
  BY DEF bin_width, decim_p, channel_rate
<1>3. BandwidthOk(c) => bin_width(c) * os >= 2 * (dev + bw) + 2 * tr
  BY DEF BandwidthOk, usable_bw, required_bw
<1> HIDE DEF samp, n, os, dev, bw, tr
<1>5. /\ n \div os \in Positive /\ samp \div n \in Positive /\ samp = (samp \div n) * n
      /\ (samp * os) \div n = (samp \div n) * os /\ ((samp \div n) * os) * (n \div os) = samp
  BY <1>1, ChannelRate
<1>6. /\ bin_width(c) \in Positive /\ decim_p(c) \in Positive
      /\ samp = bin_width(c) * n /\ channel_rate(c) = bin_width(c) * os
      /\ channel_rate(c) * decim_p(c) = samp
  BY <1>2, <1>5, Zenon
<1>7. channel_rate(c) \in Nat
  BY <1>1, <1>6 DEF Positive
<1>8. channel_rate(c) > 177777
  BY <1>1, <1>7, GuardBand DEF Positive, dev, bw
<1>9. 2 * (dev + bw + tr) <= channel_rate(c)
  BY <1>1, <1>3, <1>6, <1>7 DEF Positive
<1>10. QED
  BY <1>6, <1>7, <1>8, <1>9 DEF samp, n, os, dev, bw, tr

\* Demodulated, and down to the audio rate.
LEMMA FactorIsOne ==
  ASSUME NEW rate \in Nat, NEW want \in Nat \ {0}
  PROVE  Larger(1, rate \div want) \in Nat \ {0}
<1>1. PICK q \in Int, r \in 0 .. want - 1 :
        q = rate \div want /\ r = rate % want /\ rate = q * want + r
  BY Division
<1>2. Larger(1, rate \div want) = IF 1 > q THEN 1 ELSE q
  BY <1>1 DEF Larger
<1>3. QED
  BY <1>2

LEMMA Decimated ==
  ASSUME NEW rate \in Nat, NEW fd \in Nat \ {0}
  PROVE  rate \in fd * (rate \div fd) .. (fd * (rate \div fd + 1) - 1)
<1>1. PICK q \in Int, r \in 0 .. fd - 1 : q = rate \div fd /\ r = rate % fd /\ rate = q * fd + r
  BY Division
<1>2. fd * (q + 1) = q * fd + fd /\ fd * q = q * fd /\ q * fd \in Int
  OBVIOUS
<1>3. rate \in fd * q .. (fd * (q + 1) - 1)
  <2> DEFINE x == q * fd
  <2>1. x \in Int /\ rate = x + r
    BY <1>1
  <2> HIDE DEF x
  <2>2. rate \in x .. (x + fd - 1)
    BY <2>1
  <2>3. QED
    BY <1>2, <2>2 DEF x
<1>4. QED
  BY <1>1, <1>3

LEMMA WholeRatio ==
  ASSUME NEW fi \in Nat, NEW ar \in Nat \ {0}, fi % ar = 0
  PROVE  (fi \div ar) * ar = fi
<1>1. PICK q \in Int, r \in 0 .. ar - 1 : q = fi \div ar /\ r = fi % ar /\ fi = q * ar + r
  BY Division
<1>2. QED
  BY <1>1

LEMMA AudioRates ==
  ASSUME NEW c, ConfigOk(c)
  PROVE  /\ channel_rate(c) \in fm_decim(c) * fm_intermediate(c)
                                  .. (fm_decim(c) * (fm_intermediate(c) + 1) - 1)
         /\ audio_decim(c) * c.audio.rate = fm_intermediate(c)
         /\ 2 * c.audio.bandwidth < c.audio.rate
<1>1. /\ channel_rate(c) \in Nat /\ c.fm.intermediate_rate \in Nat \ {0}
      /\ c.audio.rate \in Nat \ {0} /\ c.audio.bandwidth \in Nat \ {0}
      /\ c.audio.bandwidth < c.audio.rate \div 2
  BY Channels, ConfigNumbers DEF Positive
<1>2. /\ fm_intermediate(c) \in Nat /\ fm_intermediate(c) % c.audio.rate = 0
  BY <1>1, ConfigNumbers DEF RatesOk
<1>3. /\ fm_decim(c) = Larger(1, channel_rate(c) \div c.fm.intermediate_rate)
      /\ fm_intermediate(c) = channel_rate(c) \div fm_decim(c)
  BY Zenon DEF fm_decim, fm_intermediate
<1>4. audio_decim(c) = fm_intermediate(c) \div c.audio.rate
  BY Zenon DEF audio_decim
<1>5. /\ channel_rate(c) \in fm_decim(c) * fm_intermediate(c)
                               .. (fm_decim(c) * (fm_intermediate(c) + 1) - 1)
      /\ (fm_intermediate(c) \div c.audio.rate) * c.audio.rate = fm_intermediate(c)
  <2>1. fm_decim(c) \in Nat \ {0}
    BY <1>1, <1>3, FactorIsOne
  <2>2. \A fd \in Nat \ {0} :
          channel_rate(c) \in fd * (channel_rate(c) \div fd)
                               .. (fd * (channel_rate(c) \div fd + 1) - 1)
    BY <1>1, Decimated
  <2>3. channel_rate(c) \in fm_decim(c) * fm_intermediate(c)
                               .. (fm_decim(c) * (fm_intermediate(c) + 1) - 1)
    BY <1>3, <2>1, <2>2, Zenon
  <2>4. (fm_intermediate(c) \div c.audio.rate) * c.audio.rate = fm_intermediate(c)
    BY <1>1, <1>2, WholeRatio
  <2>5. QED
    BY <2>3, <2>4
<1>6. 2 * c.audio.bandwidth < c.audio.rate
  <2>1. \A a, b \in Nat \ {0} : b < a \div 2 => 2 * b < a
    OBVIOUS
  <2>2. QED
    BY <1>1, <2>1
<1>7. QED
  BY <1>4, <1>5, <1>6, Zenon

\* A datagram is whole frames, and fits.
LEMMA WholeFrames ==
  ASSUME NEW c, c.udp.mtu \in Nat, 1 <= c.udp.mtu, c.udp.mtu <= LargestDatagram, NEW p
  PROVE  m_step(c, p) > 0 /\ m_step(c, p) % FrameBytes(p) = 0 /\ m_step(c, p) <= LargestDatagram
<1> DEFINE fb == FrameBytes(p)
           mtu == c.udp.mtu
           k == Larger(1, mtu \div fb)
<1>1. fb \in {2, 4}
  BY DEF FrameBytes
<1>2. m_step(c, p) = k * fb
  BY DEF m_step
<1> HIDE DEF fb, mtu
<1>3. mtu \in Nat /\ 1 <= mtu /\ mtu <= LargestDatagram
  BY DEF mtu
<1>4. k \in Nat \ {0} /\ k * fb <= LargestDatagram /\ k * fb > 0
  BY <1>1, <1>3 DEF Larger, LargestDatagram
<1> HIDE DEF k
<1>5. (k * fb) % fb = 0
  <2>1. k * fb \in Int /\ k \in Int /\ 0 \in 0 .. fb - 1 /\ k * fb = k * fb + 0 /\ fb \in Nat \ {0}
    BY <1>1, <1>4
  <2>2. QED
    BY <2>1, Quotient
<1>6. QED
  BY <1>2, <1>4, <1>5 DEF fb

\* What the chain of a plan relies on, the plan gives, whatever the files are.
THEOREM ChainAlwaysFits == PlanSpec => []ChainFits
<1>1. ASSUME ConfigOk(config)
      PROVE  /\ (channel_rate(config) \div RdsFront(channel_rate(config))) \div 2 - 3000 > 60000
             /\ sym_len(channel_rate(config)) \in 12 .. 24
             /\ 2 * sym_len(channel_rate(config)) < kHist
             /\ channel_rate(config) >= 120000
  <2> DEFINE rate == channel_rate(config)
  <2>1. rate \in Nat /\ rate > 177777
    BY <1>1, Channels
  <2> HIDE DEF rate
  <2>2. (rate \div RdsFront(rate)) \div 2 - 3000 > 60000 /\ sym_len(rate) \in 12 .. 24
    BY <2>1, RdsTiming
  <2>3. 2 * sym_len(rate) < kHist /\ rate >= 120000
    BY <2>1, <2>2 DEF kHist
  <2>4. QED
    BY <2>2, <2>3 DEF rate
<1>2. ASSUME ConfigOk(config), NEW p
      PROVE  /\ m_step(config, p) > 0 /\ m_step(config, p) % FrameBytes(p) = 0
             /\ m_step(config, p) <= LargestDatagram
  BY <1>2, ConfigNumbers, WholeFrames
<1>3. ChainFits
  <2> SUFFICES ASSUME Resolves(config, stations) PROVE ChainFits
    BY DEF ChainFits
  <2>1. ConfigOk(config)
    BY Zenon DEF Resolves
  <2>2. config.channelizer.block_size % decim_p(config) = 0
    BY <2>1, ConfigNumbers
  <2>3. /\ channel_rate(config) * decim_p(config) = config.radio.samp_rate
        /\ 2 * (config.fm.deviation + config.audio.bandwidth + config.fm.predemod_transition)
             <= channel_rate(config)
    BY <2>1, Channels
  <2>4. /\ channel_rate(config) \in fm_decim(config) * fm_intermediate(config)
                                      .. (fm_decim(config) * (fm_intermediate(config) + 1) - 1)
        /\ audio_decim(config) * config.audio.rate = fm_intermediate(config)
        /\ 2 * config.audio.bandwidth < config.audio.rate
    BY <2>1, AudioRates
  <2>5. \A p : m_step(config, p) > 0 /\ m_step(config, p) % FrameBytes(p) = 0
               /\ m_step(config, p) <= LargestDatagram
    BY <1>2, <2>1
  <2>6. QED
    BY <1>1, <2>1, <2>2, <2>3, <2>4, <2>5 DEF ChainFits
<1>4. QED
  BY <1>3, PTL

-----------------------------------------------------------------------------
(* PlanResolution. Some of a list, in order: the stations that are enabled and in the span. *)

\* The members of a set of positions, counted from the lowest.
LEMMA Ranks ==
  ASSUME NEW at, \A i \in at : i \in Int, IsFiniteSet(at)
  PROVE  /\ Cardinality(at) \in Nat
         /\ \A i \in at : Rank(at, i) \in 1 .. Cardinality(at)
         /\ \A i, j \in at : i < j => Rank(at, i) < Rank(at, j)
<1>1. Cardinality(at) \in Nat
  BY FS_CardinalityType
<1>2. ASSUME NEW i \in at
      PROVE  /\ IsFiniteSet({j \in at : j <= i}) /\ Rank(at, i) \in Nat
             /\ Rank(at, i) \in 1 .. Cardinality(at)
  <2> DEFINE S == {j \in at : j <= i}
  <2>1. S \in SUBSET at /\ i \in S
    OBVIOUS
  <2> HIDE DEF S
  <2>2. IsFiniteSet(S) /\ Cardinality(S) <= Cardinality(at)
    BY <2>1, FS_Subset
  <2>3. Cardinality(S) \in Nat
    BY <2>2, FS_CardinalityType
  <2>4. Cardinality(S) # 0
    BY <2>1, <2>2, FS_EmptySet
  <2>5. Rank(at, i) = Cardinality(S)
    BY DEF Rank, S
  <2>6. QED
    BY <1>1, <2>2, <2>3, <2>4, <2>5 DEF S
<1>3. ASSUME NEW i \in at, NEW j \in at, i < j
      PROVE  Rank(at, i) < Rank(at, j)
  <2> DEFINE S == {l \in at : l <= i}
             T == {l \in at : l <= j}
  <2>1. IsFiniteSet(S) /\ IsFiniteSet(T) /\ Rank(at, i) \in Nat /\ Rank(at, j) \in Nat
    BY <1>2
  <2>2. S \in SUBSET T
    BY <1>3
  <2>3. j \in T /\ j \notin S
    BY <1>3
  <2>4. Rank(at, i) = Cardinality(S) /\ Rank(at, j) = Cardinality(T)
    BY DEF Rank
  <2> HIDE DEF S, T
  <2>5. Cardinality(S) <= Cardinality(T) /\ (Cardinality(T) = Cardinality(S) => T = S)
    BY <2>1, <2>2, FS_Subset
  <2>6. QED
    BY <2>1, <2>3, <2>4, <2>5
<1>4. QED
  BY <1>1, <1>2, <1>3

LEMMA EveryRank ==
  ASSUME NEW at, \A i \in at : i \in Int, IsFiniteSet(at), NEW k \in 1 .. Cardinality(at)
  PROVE  \E i \in at : Rank(at, i) = k
<1> SUFFICES ASSUME \A i \in at : Rank(at, i) # k
             PROVE  FALSE
  OBVIOUS
<1> DEFINE N == Cardinality(at)
           T == (1 .. N) \ {k}
           f == [i \in at |-> Rank(at, i)]
<1>1. N \in Nat /\ k \in 1 .. N
  BY Ranks
<1>2. IsFiniteSet(1 .. N) /\ Cardinality(1 .. N) = N
  BY <1>1, FS_Interval
<1>3. f \in [at -> T]
  BY Ranks
<1>4. IsFiniteSet(T) /\ Cardinality(T) = N - 1
  BY <1>1, <1>2, FS_RemoveElement
<1>5. \A i, j \in at : i # j => f[i] # f[j]
  <2> SUFFICES ASSUME NEW i \in at, NEW j \in at, i # j
               PROVE  f[i] # f[j]
    OBVIOUS
  <2>1. Rank(at, i) \in Int /\ Rank(at, j) \in Int /\ i \in Int /\ j \in Int
    BY Ranks
  <2>2. (i < j => Rank(at, i) < Rank(at, j)) /\ (j < i => Rank(at, j) < Rank(at, i))
    BY Ranks
  <2>3. Rank(at, i) # Rank(at, j)
    BY <2>1, <2>2
  <2>4. QED
    BY <2>3
<1> HIDE DEF T, f, N
<1>6. Cardinality(T) < Cardinality(at)
  BY <1>1, <1>4 DEF N
<1>7. \E i, j \in at : i # j /\ f[i] = f[j]
  BY <1>3, <1>4, <1>6, FS_PigeonHole
<1>8. QED
  BY <1>5, <1>7

\* The k-th position: they come in order, and each is one of them.
LEMMA Nths ==
  ASSUME NEW at, \A i \in at : i \in Int, IsFiniteSet(at)
  PROVE  /\ \A k \in 1 .. Cardinality(at) : Nth(at, k) \in at /\ Rank(at, Nth(at, k)) = k
         /\ \A k, l \in 1 .. Cardinality(at) : k < l => Nth(at, k) < Nth(at, l)
         /\ \A i \in at : Rank(at, i) \in 1 .. Cardinality(at) /\ Nth(at, Rank(at, i)) = i
<1>1. ASSUME NEW k \in 1 .. Cardinality(at)
      PROVE  Nth(at, k) \in at /\ Rank(at, Nth(at, k)) = k
  BY EveryRank DEF Nth
<1>2. ASSUME NEW k \in 1 .. Cardinality(at), NEW l \in 1 .. Cardinality(at), k < l
      PROVE  Nth(at, k) < Nth(at, l)
  <2>1. Nth(at, k) \in at /\ Nth(at, l) \in at
        /\ Rank(at, Nth(at, k)) = k /\ Rank(at, Nth(at, l)) = l
    BY <1>1
  <2>2. Nth(at, k) \in Int /\ Nth(at, l) \in Int /\ k \in Int /\ l \in Int
    BY <2>1, Ranks
  <2>3. Nth(at, l) < Nth(at, k) => l < k
    BY <2>1, Ranks
  <2>4. Nth(at, l) = Nth(at, k) => l = k
    BY <2>1
  <2>5. QED
    BY <1>2, <2>2, <2>3, <2>4
<1>3. ASSUME NEW i \in at
      PROVE  Rank(at, i) \in 1 .. Cardinality(at) /\ Nth(at, Rank(at, i)) = i
  <2> DEFINE k == Rank(at, i)
             j == Nth(at, k)
  <2>1. k \in 1 .. Cardinality(at)
    BY Ranks
  <2>2. j \in at /\ Rank(at, j) = Rank(at, i)
    BY <1>1, <2>1
  <2>3. i \in Int /\ j \in Int /\ Rank(at, i) \in Int
    BY <2>2, Ranks
  <2> HIDE DEF j
  <2>4. (i < j => Rank(at, i) < Rank(at, j)) /\ (j < i => Rank(at, j) < Rank(at, i))
    BY <2>2, Ranks
  <2>5. j = i
    BY <2>2, <2>3, <2>4
  <2>6. QED
    BY <2>1, <2>5 DEF j
<1>4. QED
  BY <1>1, <1>2, <1>3

\* A list in order that has just these positions is that of the Nth ones.
LEMMA InOrder ==
  ASSUME NEW at, \A i \in at : i \in Int, NEW m \in Nat, NEW f, \A k \in 1 .. m : f[k] \in at,
         \A k, l \in 1 .. m : k < l => f[k] < f[l],
         \A i \in at : \E k \in 1 .. m : f[k] = i
  PROVE  IsFiniteSet(at) /\ Cardinality(at) = m /\ \A k \in 1 .. m : f[k] = Nth(at, k)
<1>1. \A k, l \in 1 .. m : f[k] = f[l] => k = l
  <2> SUFFICES ASSUME NEW k \in 1 .. m, NEW l \in 1 .. m, k # l
               PROVE  f[k] # f[l]
    OBVIOUS
  <2>1. f[k] \in Int /\ f[l] \in Int /\ k \in Int /\ l \in Int
    OBVIOUS
  <2>2. k < l \/ l < k
    BY <2>1
  <2>3. QED
    BY <2>1, <2>2
<1>2. [k \in 1 .. m |-> f[k]] \in Bijection(1 .. m, at)
  BY <1>1 DEF Bijection, Injection, Surjection, IsInjective
<1>3. ExistsBijection(1 .. m, at)
  BY <1>2 DEF ExistsBijection
<1>4. IsFiniteSet(1 .. m) /\ Cardinality(1 .. m) = m
  BY FS_Interval
<1>5. IsFiniteSet(at) /\ Cardinality(at) = m
  BY <1>3, <1>4, FS_Bijection
<1>6. ASSUME NEW k \in 1 .. m
      PROVE  f[k] = Nth(at, k)
  <2> DEFINE S == {j \in at : j <= f[k]}
             g == [l \in 1 .. k |-> f[l]]
  <2>1. \A l \in 1 .. k : l \in 1 .. m /\ f[l] \in S
    <3> SUFFICES ASSUME NEW l \in 1 .. k
                 PROVE  l \in 1 .. m /\ f[l] \in S
      OBVIOUS
    <3>1. l \in 1 .. m /\ f[l] \in Int /\ f[k] \in Int /\ f[l] \in at
      OBVIOUS
    <3>2. l = k \/ l < k
      OBVIOUS
    <3>3. QED
      BY <3>1, <3>2
  <2>2. \A i \in S : \E l \in 1 .. k : f[l] = i
    <3> SUFFICES ASSUME NEW i \in S
                 PROVE  \E l \in 1 .. k : f[l] = i
      OBVIOUS
    <3>1. PICK l \in 1 .. m : f[l] = i
      OBVIOUS
    <3>2. k < l => f[k] < f[l]
      OBVIOUS
    <3>3. f[l] \in Int /\ f[k] \in Int /\ f[l] <= f[k]
      BY <3>1
    <3>4. l <= k
      BY <3>2, <3>3
    <3>5. QED
      BY <3>1, <3>4
  <2>3. g \in [1 .. k -> S] /\ \A l \in 1 .. k : g[l] = f[l]
    BY <2>1
  <2> HIDE DEF g, S
  <2>4. \A l, j \in 1 .. k : g[l] = g[j] => l = j
    BY <1>1, <2>1, <2>3
  <2>5. g \in Bijection(1 .. k, S)
    BY <2>2, <2>3, <2>4 DEF Bijection, Injection, Surjection, IsInjective
  <2>6. ExistsBijection(1 .. k, S)
    BY <2>5 DEF ExistsBijection
  <2>7. IsFiniteSet(1 .. k) /\ Cardinality(1 .. k) = k
    BY FS_Interval
  <2>8. Cardinality(S) = k
    BY <2>6, <2>7, FS_Bijection
  <2>9. Rank(at, f[k]) = k
    BY <2>8 DEF Rank, S
  <2>10. f[k] \in at
    OBVIOUS
  <2>11. QED
    BY <1>5, <2>9, <2>10, Nths
<1>7. QED
  BY <1>5, <1>6

\* Some of some of a list are some of it.
LEMMA KeptOfKept ==
  ASSUME NEW s, NEW P, \A i \in P : i \in Int, IsFiniteSet(P),
         NEW Q \in SUBSET (1 .. Cardinality(P)),
         NEW R, \A i : i \in R <=> i \in P /\ Rank(P, i) \in Q
  PROVE  /\ IsFiniteSet(Q) /\ IsFiniteSet(R) /\ Cardinality(R) = Cardinality(Q)
         /\ Kept(Kept(s, P), Q) = Kept(s, R)
<1> DEFINE n == Cardinality(P)
           m == Cardinality(Q)
           f == [k \in 1 .. m |-> Nth(P, Nth(Q, k))]
<1>1. n \in Nat /\ IsFiniteSet(1 .. n)
  BY Ranks, FS_Interval
<1>2. Q \in SUBSET (1 .. n) /\ IsFiniteSet(Q)
  BY <1>1, FS_Subset
<1>3. \A k \in Q : k \in Int /\ k \in 1 .. n
  BY <1>1, <1>2
<1>4. m \in Nat
  BY <1>2, FS_CardinalityType
<1>5. /\ \A k \in 1 .. m : Nth(Q, k) \in Q
      /\ \A k, l \in 1 .. m : k < l => Nth(Q, k) < Nth(Q, l)
      /\ \A k \in Q : Rank(Q, k) \in 1 .. m /\ Nth(Q, Rank(Q, k)) = k
  BY <1>2, <1>3, Nths
<1>6. /\ \A k \in 1 .. n : Nth(P, k) \in P /\ Rank(P, Nth(P, k)) = k
      /\ \A k, l \in 1 .. n : k < l => Nth(P, k) < Nth(P, l)
      /\ \A i \in P : Rank(P, i) \in 1 .. n /\ Nth(P, Rank(P, i)) = i
  BY Nths
<1> HIDE DEF n, m
<1>7. \A k \in 1 .. m : Nth(P, Nth(Q, k)) \in R
  BY <1>3, <1>5, <1>6
<1>8. f \in [1 .. m -> R] /\ \A k \in 1 .. m : f[k] = Nth(P, Nth(Q, k))
  BY <1>7
<1> HIDE DEF f
<1>9. \A k, l \in 1 .. m : k < l => f[k] < f[l]
  <2> SUFFICES ASSUME NEW k \in 1 .. m, NEW l \in 1 .. m, k < l
               PROVE  f[k] < f[l]
    OBVIOUS
  <2>1. Nth(Q, k) \in 1 .. n /\ Nth(Q, l) \in 1 .. n
    BY <1>3, <1>5
  <2>2. Nth(Q, k) < Nth(Q, l)
    BY <1>5
  <2>3. Nth(P, Nth(Q, k)) < Nth(P, Nth(Q, l))
    BY <1>6, <2>1, <2>2
  <2>4. QED
    BY <1>8, <2>3
<1>10. \A i \in R : \E k \in 1 .. m : f[k] = i
  <2> SUFFICES ASSUME NEW i \in R
               PROVE  \E k \in 1 .. m : f[k] = i
    OBVIOUS
  <2>1. i \in P /\ Rank(P, i) \in Q
    OBVIOUS
  <2>2. Nth(Q, Rank(Q, Rank(P, i))) = Rank(P, i) /\ Rank(Q, Rank(P, i)) \in 1 .. m
    BY <1>5, <2>1
  <2>3. f[Rank(Q, Rank(P, i))] = Nth(P, Rank(P, i))
    BY <1>8, <2>2
  <2>4. QED
    BY <1>6, <2>1, <2>2, <2>3
<1>11. \A i \in R : i \in Int
  OBVIOUS
<1>12. IsFiniteSet(R) /\ Cardinality(R) = m /\ \A k \in 1 .. m : f[k] = Nth(R, k)
  <2>1. \A k \in 1 .. m : f[k] \in R
    BY <1>7, <1>8
  <2>2. QED
    BY <1>4, <1>9, <1>10, <1>11, <2>1, InOrder
<1>13. Kept(Kept(s, P), Q) = [k \in 1 .. m |-> Kept(s, P)[Nth(Q, k)]]
  BY DEF Kept, m
<1>14. Kept(s, R) = [k \in 1 .. m |-> s[Nth(R, k)]]
  BY <1>12 DEF Kept
<1>15. ASSUME NEW k \in 1 .. m
       PROVE  Kept(s, P)[Nth(Q, k)] = s[Nth(R, k)]
  <2>1. Nth(Q, k) \in 1 .. n
    BY <1>3, <1>5
  <2>2. Kept(s, P)[Nth(Q, k)] = s[Nth(P, Nth(Q, k))]
    BY <2>1 DEF Kept, n
  <2>3. QED
    BY <1>8, <1>12, <2>2
<1>16. Kept(Kept(s, P), Q) = Kept(s, R)
  BY <1>13, <1>14, <1>15
<1>17. QED
  BY <1>2, <1>12, <1>16 DEF m

LEMMA Lists ==
  ASSUME NEW s, IsList(s)
  PROVE  /\ Len(s) \in Nat /\ DOMAIN s = 1 .. Len(s)
         /\ IsFiniteSet(DOMAIN s) /\ \A i \in DOMAIN s : i \in Int
<1>1. Len(s) \in Nat /\ DOMAIN s = 1 .. Len(s)
  BY DEF IsList
<1>2. IsFiniteSet(1 .. Len(s))
  BY <1>1, FS_Interval
<1>3. QED
  BY <1>1, <1>2

\* Where the stations of a plan stand in the file.
EnabledAt(s) == {i \in DOMAIN s : IsEnabled(s[i])}
BandAt(c, s) == {i \in DOMAIN s : IsEnabled(s[i]) /\ InSpan(c, s[i])}

LEMMA EnabledKept ==
  ASSUME NEW s, IsList(s)
  PROVE  /\ IsFiniteSet(EnabledAt(s)) /\ \A i \in EnabledAt(s) : i \in Int
         /\ Enabled(s) = Kept(s, EnabledAt(s))
         /\ DOMAIN Enabled(s) = 1 .. Cardinality(EnabledAt(s))
         /\ \A k \in 1 .. Cardinality(EnabledAt(s)) : Enabled(s)[k] = s[Nth(EnabledAt(s), k)]
         /\ \A i \in EnabledAt(s) : Enabled(s)[Rank(EnabledAt(s), i)] = s[i]
<1>1. EnabledAt(s) \in SUBSET DOMAIN s
  BY DEF EnabledAt
<1>2. IsFiniteSet(EnabledAt(s)) /\ \A i \in EnabledAt(s) : i \in Int
  BY <1>1, Lists, FS_Subset
<1>3. Enabled(s) = Kept(s, EnabledAt(s))
  BY DEF Enabled, EnabledAt
<1>4. /\ DOMAIN Enabled(s) = 1 .. Cardinality(EnabledAt(s))
      /\ \A k \in 1 .. Cardinality(EnabledAt(s)) : Enabled(s)[k] = s[Nth(EnabledAt(s), k)]
  BY <1>3 DEF Kept
<1>5. \A i \in EnabledAt(s) : Enabled(s)[Rank(EnabledAt(s), i)] = s[i]
  BY <1>2, <1>4, Nths
<1>6. QED
  BY <1>2, <1>3, <1>4, <1>5

LEMMA InBandKept ==
  ASSUME NEW c, NEW s, IsList(s)
  PROVE  /\ IsFiniteSet(BandAt(c, s)) /\ \A i \in BandAt(c, s) : i \in Int
         /\ InBand(c, s) = Kept(s, BandAt(c, s))
         /\ DOMAIN InBand(c, s) = 1 .. Cardinality(BandAt(c, s))
         /\ \A k \in 1 .. Cardinality(BandAt(c, s)) : InBand(c, s)[k] = s[Nth(BandAt(c, s), k)]
         /\ \A i \in BandAt(c, s) : InBand(c, s)[Rank(BandAt(c, s), i)] = s[i]
<1> DEFINE P == EnabledAt(s)
           e == Enabled(s)
           Q == {k \in DOMAIN e : InSpan(c, e[k])}
           R == BandAt(c, s)
<1>1. R \in SUBSET DOMAIN s
  BY DEF BandAt
<1>2. IsFiniteSet(R) /\ \A i \in R : i \in Int
  BY <1>1, Lists, FS_Subset
<1>3. /\ IsFiniteSet(P) /\ (\A i \in P : i \in Int) /\ e = Kept(s, P)
      /\ DOMAIN e = 1 .. Cardinality(P)
      /\ \A i \in P : e[Rank(P, i)] = s[i]
  BY EnabledKept
<1>4. \A i \in P : Rank(P, i) \in 1 .. Cardinality(P)
  BY <1>3, Ranks
<1>5. \A i : i \in R <=> i \in P /\ InSpan(c, s[i])
  BY DEF BandAt, EnabledAt
<1>6. InBand(c, s) = Kept(e, Q)
  BY DEF InBand
<1> HIDE DEF P, e, R
<1>7. \A i : i \in R <=> i \in P /\ Rank(P, i) \in Q
  BY <1>3, <1>4, <1>5
<1>8. Q \in SUBSET (1 .. Cardinality(P))
  BY <1>3
<1> HIDE DEF Q
<1>9. InBand(c, s) = Kept(s, R)
  BY <1>3, <1>6, <1>7, <1>8, KeptOfKept
<1>10. /\ DOMAIN InBand(c, s) = 1 .. Cardinality(R)
       /\ \A k \in 1 .. Cardinality(R) : InBand(c, s)[k] = s[Nth(R, k)]
  BY <1>9 DEF Kept
<1>11. \A i \in R : InBand(c, s)[Rank(R, i)] = s[i]
  BY <1>2, <1>10, Nths
<1>12. QED
  BY <1>2, <1>9, <1>10, <1>11 DEF R

-----------------------------------------------------------------------------
(* PlanResolution. The bin nearest to a station. *)

\* A power of two is one, or a whole number of twos.
LEMMA Halved ==
  ASSUME NEW n, PowerOfTwo(n)
  PROVE  n = 1 \/ \E h \in Nat \ {0} : n = 2 * h
<1>1. PICK e \in 0 .. 16 : n = 2^e
  BY DEF PowerOfTwo
<1>2. \/ e = 0 \/ e = 1 \/ e = 2 \/ e = 3 \/ e = 4 \/ e = 5 \/ e = 6 \/ e = 7 \/ e = 8
      \/ e = 9 \/ e = 10 \/ e = 11 \/ e = 12 \/ e = 13 \/ e = 14 \/ e = 15 \/ e = 16
  OBVIOUS
<1>3. /\ 2^0 = 1
      /\ \E h \in Nat \ {0} : 2^1 = 2 * h
      /\ \E h \in Nat \ {0} : 2^2 = 2 * h
      /\ \E h \in Nat \ {0} : 2^3 = 2 * h
      /\ \E h \in Nat \ {0} : 2^4 = 2 * h
      /\ \E h \in Nat \ {0} : 2^5 = 2 * h
      /\ \E h \in Nat \ {0} : 2^6 = 2 * h
      /\ \E h \in Nat \ {0} : 2^7 = 2 * h
      /\ \E h \in Nat \ {0} : 2^8 = 2 * h
      /\ \E h \in Nat \ {0} : 2^9 = 2 * h
      /\ \E h \in Nat \ {0} : 2^10 = 2 * h
      /\ \E h \in Nat \ {0} : 2^11 = 2 * h
      /\ \E h \in Nat \ {0} : 2^12 = 2 * h
      /\ \E h \in Nat \ {0} : 2^13 = 2 * h
      /\ \E h \in Nat \ {0} : 2^14 = 2 * h
      /\ \E h \in Nat \ {0} : 2^15 = 2 * h
      /\ \E h \in Nat \ {0} : 2^16 = 2 * h
  <2>1. /\ 2^0 = 1
        /\ 2^1 = 2 * 1 /\ 2^2 = 2 * 2 /\ 2^3 = 2 * 4 /\ 2^4 = 2 * 8 /\ 2^5 = 2 * 16
        /\ 2^6 = 2 * 32 /\ 2^7 = 2 * 64 /\ 2^8 = 2 * 128
    OBVIOUS
  <2>2. /\ 2^9 = 2 * 256 /\ 2^10 = 2 * 512 /\ 2^11 = 2 * 1024 /\ 2^12 = 2 * 2048
        /\ 2^13 = 2 * 4096 /\ 2^14 = 2 * 8192 /\ 2^15 = 2 * 16384 /\ 2^16 = 2 * 32768
    OBVIOUS
  <2>3. QED
    BY <2>1, <2>2
<1>4. QED
  BY <1>1, <1>2, <1>3, Zenon

\* Rounding up.
LEMMA RoundedUp ==
  ASSUME NEW w \in Positive, NEW q \in Int, NEW t \in 0 .. w - 1, NEW rel \in Int, rel = q * w + t
  PROVE  -((-rel) \div w) = IF t = 0 THEN q ELSE q + 1
<1> USE DEF Positive
<1>1. CASE t = 0
  <2>1. -rel = (-q) * w + 0
    BY <1>1
  <2>2. -q \in Int /\ -rel \in Int /\ 0 \in 0 .. w - 1
    OBVIOUS
  <2>3. (-rel) \div w = -q
    BY <2>1, <2>2, Quotient
  <2>4. QED
    BY <1>1, <2>3
<1>2. CASE t # 0
  <2>1. -rel = (-q - 1) * w + (w - t)
    <3>1. (-q - 1) * w = -(q * w) - w
      OBVIOUS
    <3>2. q * w \in Int
      OBVIOUS
    <3>3. QED
      BY <3>1, <3>2
  <2>2. -q - 1 \in Int /\ -rel \in Int /\ w - t \in 0 .. w - 1
    BY <1>2
  <2>3. (-rel) \div w = -q - 1
    BY <2>1, <2>2, Quotient
  <2>4. QED
    BY <1>2, <2>3
<1>3. QED
  BY <1>1, <1>2

\* No multiple of w is nearer to q * w + t than the two about it.
LEMMA Neighbours ==
  ASSUME NEW w \in Positive, NEW q \in Int, NEW t \in 0 .. w - 1, NEW rel \in Int, rel = q * w + t,
         NEW k \in Int
  PROVE  /\ k * w \in Int
         /\ k <= q => t <= rel - k * w
         /\ k > q => w - t <= k * w - rel
<1> USE DEF Positive
<1>1. k * w \in Int /\ q * w \in Int
  OBVIOUS
<1>2. k <= q => k * w <= q * w
  <2>1. k <= q => (q - k) * w >= 0
    OBVIOUS
  <2>2. (q - k) * w = q * w - k * w
    OBVIOUS
  <2>3. QED
    BY <1>1, <2>1, <2>2
<1>3. k > q => k * w >= q * w + w
  <2>1. k > q => (k - q - 1) * w >= 0
    OBVIOUS
  <2>2. (k - q - 1) * w = k * w - q * w - w
    OBVIOUS
  <2>3. QED
    BY <1>1, <2>1, <2>2
<1>4. QED
  BY <1>1, <1>2, <1>3

\* The bin chosen is the nearest, but for a frequency at the very top of the span.
LEMMA NearestBin ==
  ASSUME NEW w \in Positive, NEW h \in Nat \ {0}, NEW rel \in Int, -(h * w) <= rel, rel <= h * w,
         NEW K, NEW B, nearest_wrapped_bin(rel, w, 2 * h) = [k_wrap |-> K, bin |-> B]
  PROVE  /\ K \in -h .. h - 1 /\ B = K % (2 * h)
         /\ \/ \A k \in -h .. h - 1 : Abs(rel - K * w) <= Abs(rel - k * w)
            \/ Abs(rel - K * w) = (2 * h) * w
<1> USE DEF Positive
<1>1. PICK q \in Int, t \in 0 .. w - 1 : q = rel \div w /\ t = rel % w /\ rel = q * w + t
  BY Division
<1>2. -((-rel) \div w) = IF t = 0 THEN q ELSE q + 1
  <2>1. w \in Positive /\ q \in Int /\ t \in 0 .. w - 1 /\ rel \in Int /\ rel = q * w + t
    BY <1>1
  <2> HIDE DEF Positive
  <2>2. QED
    BY <2>1, RoundedUp, Zenon
<1> DEFINE H == h * w
           Wrap(k) == IF k < h THEN k ELSE k - 2 * h
           Dist(k) == Abs(rel - Wrap(k) * w)
           hi == IF t = 0 THEN q ELSE q + 1
<1>3. K = Wrap(IF Dist(hi) < Dist(q) THEN hi ELSE q) /\ B = K % (2 * h)
  <2>1. (2 * h) \div 2 = h
    OBVIOUS
  <2>2. nearest_wrapped_bin(rel, w, 2 * h).k_wrap = K /\ nearest_wrapped_bin(rel, w, 2 * h).bin = B
    OBVIOUS
  <2>3. QED
    BY <1>1, <1>2, <2>1, <2>2 DEF nearest_wrapped_bin
<1>4. H \in Int /\ q * w \in Int /\ (-h) * w = -H /\ (2 * h) * w = 2 * H /\ (h - 1) * w = H - w
      /\ (q + 1) * w = q * w + w /\ w <= H
  <2>1. (h - 1) * w >= 0
    OBVIOUS
  <2>2. (h - 1) * w = H - w
    OBVIOUS
  <2>3. QED
    BY <2>1, <2>2
<1>5. -h <= q /\ q <= h /\ (q = h => t = 0)
  <2>1. rel - h * w \in Int /\ h \in Int /\ -h \in Int
    BY <1>4
  <2>2. -h > q => w - t <= (-h) * w - rel
    BY <1>1, <2>1, Neighbours
  <2>3. h <= q => t <= rel - h * w
    BY <1>1, <2>1, Neighbours
  <2>4. h + 1 <= q => t <= rel - (h + 1) * w
    BY <1>1, <2>1, Neighbours
  <2>5. (h + 1) * w = H + w
    OBVIOUS
  <2> HIDE DEF Wrap, Dist, hi
  <2>6. -h <= q
    BY <1>1, <1>4, <2>2
  <2>7. q <= h
    BY <1>1, <1>4, <2>4, <2>5
  <2>8. QED
    BY <1>1, <1>4, <2>3, <2>6, <2>7
<1>6. CASE q = h
  <2>1. hi = h /\ t = 0
    BY <1>5, <1>6
  <2>2. K = -h
    BY <1>3, <1>6, <2>1
  <2>3. rel - K * w = 2 * H
    BY <1>1, <1>4, <1>6, <2>1, <2>2
  <2>4. QED
    BY <1>3, <1>4, <2>2, <2>3 DEF Abs
<1>7. CASE q < h
  <2>1. Dist(q) = t
    <3>1. Wrap(q) = q
      BY <1>7
    <3>2. QED
      BY <1>1, <1>4, <3>1 DEF Abs
  <2>2. CASE t = 0
    <3>1. K = q
      BY <1>3, <1>7, <2>2
    <3>2. Abs(rel - K * w) = 0
      BY <2>1, <2>2, <3>1, <1>7
    <3>3. ASSUME NEW k \in -h .. h - 1
          PROVE  Abs(rel - K * w) <= Abs(rel - k * w)
      <4>1. rel - k * w \in Int
        OBVIOUS
      <4>2. QED
        BY <3>2, <4>1 DEF Abs
    <3>4. QED
      BY <1>3, <1>5, <1>7, <3>1, <3>3
  <2>3. CASE t # 0 /\ q + 1 < h
    <3>1. Dist(q + 1) = w - t
      <4>1. Wrap(q + 1) = q + 1
        BY <2>3
      <4>2. QED
        BY <1>1, <1>4, <4>1 DEF Abs
    <3>2. K = IF w - t < t THEN q + 1 ELSE q
      BY <1>3, <1>7, <2>1, <2>3, <3>1
    <3>3. K \in -h .. h - 1
      BY <1>5, <1>7, <2>3, <3>2
    <3>4. Abs(rel - K * w) = IF w - t < t THEN w - t ELSE t
      BY <1>1, <1>4, <3>2 DEF Abs
    <3>5. ASSUME NEW k \in -h .. h - 1
          PROVE  Abs(rel - K * w) <= Abs(rel - k * w)
      <4>1. k \in Int
        OBVIOUS
      <4>2. k * w \in Int /\ (k <= q => t <= rel - k * w) /\ (k > q => w - t <= k * w - rel)
        BY <1>1, <4>1, Neighbours
      <4>3. QED
        BY <3>4, <4>1, <4>2 DEF Abs
    <3>6. QED
      BY <1>3, <3>3, <3>5
  <2>4. CASE t # 0 /\ q + 1 = h
    <3>1. Dist(q + 1) = 2 * H - w + t
      <4>1. Wrap(q + 1) = -h
        BY <2>4
      <4>2. rel + H = 2 * H - w + t
        BY <1>1, <1>4, <2>4
      <4>3. QED
        BY <1>4, <4>1, <4>2 DEF Abs
    <3>2. K = q
      BY <1>3, <1>4, <1>7, <2>1, <2>4, <3>1
    <3>3. Abs(rel - K * w) = t
      BY <2>1, <3>2, <1>7
    <3>4. ASSUME NEW k \in -h .. h - 1
          PROVE  Abs(rel - K * w) <= Abs(rel - k * w)
      <4>1. k \in Int /\ k <= q
        BY <2>4
      <4>2. k * w \in Int /\ t <= rel - k * w
        BY <1>1, <4>1, Neighbours
      <4>3. QED
        BY <3>3, <4>1, <4>2 DEF Abs
    <3>5. QED
      BY <1>3, <1>5, <1>7, <3>2, <3>4
  <2>5. QED
    BY <1>7, <2>2, <2>3, <2>4
<1>8. QED
  BY <1>5, <1>6, <1>7

\* With one channel, a frequency is either tuned as it is or too far off to be tuned.
LEMMA OnlyBin ==
  ASSUME NEW w \in Positive, NEW rel \in Int, -(w \div 2) <= rel, rel <= w \div 2,
         NEW K, NEW B, nearest_wrapped_bin(rel, w, 1) = [k_wrap |-> K, bin |-> B]
  PROVE  /\ K \in Int /\ B = K % 1
         /\ K = 0 \/ 2 * Abs(rel - K * w) >= w
<1> USE DEF Positive
<1>1. PICK q \in Int, t \in 0 .. w - 1 : q = rel \div w /\ t = rel % w /\ rel = q * w + t
  BY Division
<1>2. -((-rel) \div w) = IF t = 0 THEN q ELSE q + 1
  <2>1. w \in Positive /\ q \in Int /\ t \in 0 .. w - 1 /\ rel \in Int /\ rel = q * w + t
    BY <1>1
  <2> HIDE DEF Positive
  <2>2. QED
    BY <2>1, RoundedUp, Zenon
<1>3. PICK half \in Int, odd \in 0 .. 1 : half = w \div 2 /\ odd = w % 2 /\ w = half * 2 + odd
  <2>1. 2 \in Nat \ {0} /\ w \in Int
    OBVIOUS
  <2>2. \E half \in Int, odd \in 0 .. 2 - 1 : half = w \div 2 /\ odd = w % 2 /\ w = half * 2 + odd
    BY <2>1, Division
  <2>3. QED
    BY <2>2
<1>4. -half <= rel /\ rel <= half
  BY <1>3
<1>5. q = 0 \/ q = -1
  <2>1. 1 <= q => t <= rel - 1 * w
    BY <1>1, Neighbours
  <2>2. -1 > q => w - t <= (-1) * w - rel
    BY <1>1, Neighbours
  <2>3. QED
    BY <1>1, <1>3, <1>4, <2>1, <2>2
<1> DEFINE Wrap(k) == IF k < 0 THEN k ELSE k - 1
           hi == IF t = 0 THEN q ELSE q + 1
<1>6. (K = Wrap(hi) \/ K = Wrap(q)) /\ B = K % 1
  <2>1. 1 \div 2 = 0
    OBVIOUS
  <2>2. nearest_wrapped_bin(rel, w, 1).k_wrap = K /\ nearest_wrapped_bin(rel, w, 1).bin = B
    OBVIOUS
  <2>3. QED
    BY <1>1, <1>2, <2>1, <2>2 DEF nearest_wrapped_bin
<1>7. K = 0 \/ K = -1
  BY <1>5, <1>6
<1>8. K = -1 => 2 * Abs(rel - K * w) >= w
  <2>1. (-1) * w = -w
    OBVIOUS
  <2>2. 2 * Abs(rel + w) >= w
    BY <1>3, <1>4 DEF Abs
  <2>3. QED
    BY <2>1, <2>2
<1>9. QED
  BY <1>6, <1>7, <1>8

\* A station in the span that is accepted is tuned through the nearest bin, with its whole
\* signal inside the channel.
LEMMA Tuning ==
  ASSUME NEW c, NEW r, ConfigOk(c), InSpan(c, r), StationOk(c, r)
  PROVE  Tuned(c, StationPlan(c, r))
<1> DEFINE w    == bin_width(c)
           n    == c.channelizer.num_channels
           os   == c.channelizer.oversample
           samp == c.radio.samp_rate
           cent == c.radio.center_freq
           rel  == r.freq - cent
           K    == Bin(c, r).k_wrap
           B    == Bin(c, r).bin
           fine == fine_hz(c, r)
           half == carson_half(c, r)
           rate == channel_rate(c)
           dev  == c.fm.deviation
           bw   == c.audio.bandwidth
           p    == StationPlan(c, r)
<1>1. /\ w \in Positive /\ n \in Positive /\ os \in Positive
      /\ samp \in Positive /\ cent \in Positive
      /\ dev \in Positive /\ bw \in Positive /\ rate \in Nat
      /\ samp = w * n /\ rate = w * os /\ PowerOfTwo(n) /\ n % os = 0
  BY ConfigNumbers, Channels
<1>2. PICK half2 \in Int : half2 = samp \div 2
  BY <1>1 DEF Positive
<1>3. r.freq \in Int /\ rel \in Int /\ -(samp \div 2) <= rel /\ rel <= samp \div 2
  <2>1. r.freq \in (cent - half2) .. (cent + half2)
    BY <1>2 DEF InSpan, freq_min, freq_max
  <2> HIDE DEF cent, samp
  <2>2. r.freq \in Int /\ cent - half2 <= r.freq /\ r.freq <= cent + half2
    BY <1>1, <1>2, <2>1 DEF Positive
  <2>3. QED
    BY <1>1, <1>2, <2>2 DEF Positive
<1>4. /\ p.freq = r.freq /\ p.bin = B /\ p.fine_hz = fine /\ p.mode = Mode(c, r)
      /\ p.rds = Own(c, r, "rds")
  BY DEF StationPlan
<1>5. fine = r.freq - (cent + K * w)
  BY DEF fine_hz
<1>6. nearest_wrapped_bin(rel, w, n) = [k_wrap |-> K, bin |-> B]
  BY DEF Bin, nearest_wrapped_bin
<1>7. 2 * (Abs(fine) + half) <= rate
  BY DEF StationOk, reach
<1>8. /\ half \in Int /\ half >= dev + Top(c, p) /\ dev + Top(c, p) > 0 /\ Top(c, p) \in Int
  <2> DEFINE M == Mode(c, r)
             E == Own(c, r, "rds").enabled
             inner == Larger(IF M # "Mono" THEN 53000 ELSE 0, IF E THEN 59400 ELSE 0)
  <2>1. Top(c, p) = IF E THEN 59400 ELSE IF M # "Mono" THEN 53000 ELSE bw
    BY <1>4 DEF Top
  <2>2. half = dev + Larger(bw, inner)
    BY DEF carson_half
  <2> HIDE DEF M, E, half, p, dev, bw
  <2>3. /\ inner \in Nat /\ (E => inner >= 59400) /\ (M # "Mono" => inner >= 53000)
    BY DEF Larger
  <2> HIDE DEF inner
  <2>4. QED
    BY <1>1, <2>1, <2>2, <2>3 DEF Larger, Positive
<1>9. n = 1 \/ \E h \in Nat \ {0} : n = 2 * h
  BY <1>1, Halved
<1>10. rate <= samp
  <2>1. rate * decim_p(c) = samp /\ decim_p(c) \in Nat \ {0}
    BY Channels DEF Positive
  <2> DEFINE d == decim_p(c)
  <2> HIDE DEF rate, samp, d
  <2>2. rate * (d - 1) >= 0 /\ rate * d = samp /\ d \in Nat \ {0}
    BY <1>1, <2>1 DEF d
  <2>3. rate * (d - 1) = rate * d - rate
    BY <1>1, <2>2
  <2>4. QED
    BY <1>1, <2>2, <2>3 DEF Positive
<1> HIDE DEF w, n, os, samp, cent, rel, K, B, fine, half, rate, dev, bw, p
<1>11. ASSUME K \in Int
       PROVE  fine \in Int /\ fine = rel - K * w /\ K * w \in Int
  <2>1. K * w \in Int
    BY <1>1, <1>11 DEF Positive
  <2>2. QED
    BY <1>1, <1>3, <1>5, <2>1 DEF rel, Positive
<1>12. K \in Bins(c) /\ K \in Int /\ B = K % n
  <2>1. Bins(c) = -(n \div 2) .. (n - (n \div 2) - 1)
    BY DEF Bins, n
  <2>2. CASE n = 1
    <3>1. samp = w
      BY <1>1, <2>2 DEF Positive
    <3>2. K \in Int /\ B = K % 1 /\ (K = 0 \/ 2 * Abs(rel - K * w) >= w)
      BY <1>1, <1>3, <1>6, <2>2, <3>1, OnlyBin
    <3>3. K = 0
      BY <1>1, <1>7, <1>8, <1>10, <1>11, <3>1, <3>2 DEF Positive, Abs
    <3>4. Bins(c) = 0 .. 0
      BY <2>1, <2>2
    <3>5. QED
      BY <2>2, <3>2, <3>3, <3>4
  <2>3. CASE \E h \in Nat \ {0} : n = 2 * h
    <3>1. PICK h \in Nat \ {0} : n = 2 * h
      BY <2>3
    <3>2. Bins(c) = -h .. h - 1
      BY <2>1, <3>1
    <3>3. -(h * w) <= rel /\ rel <= h * w
      <4>1. samp = 2 * (h * w) /\ h * w \in Int
        BY <1>1, <3>1 DEF Positive
      <4>2. QED
        BY <1>3, <4>1
    <3>4. K \in -h .. h - 1 /\ B = K % (2 * h)
      BY <1>1, <1>3, <1>6, <3>1, <3>3, NearestBin
    <3>5. QED
      BY <3>1, <3>2, <3>4
  <2>4. QED
    BY <1>9, <2>2, <2>3
<1>13. ASSUME NEW k \in Bins(c)
       PROVE  Abs(fine) <= Abs(r.freq - cent - k * w)
  <2>1. Bins(c) = -(n \div 2) .. (n - (n \div 2) - 1)
    BY DEF Bins, n
  <2>2. \A j \in Int : r.freq - cent - j * w = rel - j * w
    BY DEF rel
  <2>3. CASE n = 1
    <3>1. samp = w
      BY <1>1, <2>3 DEF Positive
    <3>2. K \in Int /\ B = K % 1 /\ (K = 0 \/ 2 * Abs(rel - K * w) >= w)
      BY <1>1, <1>3, <1>6, <2>3, <3>1, OnlyBin
    <3>3. K = 0
      BY <1>1, <1>7, <1>8, <1>10, <1>11, <3>1, <3>2 DEF Positive, Abs
    <3>4. k = 0
      BY <2>1, <2>3
    <3>5. QED
      BY <1>11, <2>2, <3>3, <3>4 DEF Abs
  <2>4. CASE \E h \in Nat \ {0} : n = 2 * h
    <3>1. PICK h \in Nat \ {0} : n = 2 * h
      BY <2>4
    <3>2. Bins(c) = -h .. h - 1
      BY <2>1, <3>1
    <3>3. -(h * w) <= rel /\ rel <= h * w
      <4>1. samp = 2 * (h * w) /\ h * w \in Int
        BY <1>1, <3>1 DEF Positive
      <4>2. QED
        BY <1>3, <4>1
    <3>4. /\ K \in -h .. h - 1
          /\ \/ \A j \in -h .. h - 1 : Abs(rel - K * w) <= Abs(rel - j * w)
             \/ Abs(rel - K * w) = (2 * h) * w
      <4>1. nearest_wrapped_bin(rel, w, 2 * h) = [k_wrap |-> K, bin |-> B]
        BY <1>6, <3>1
      <4>2. w \in Positive /\ rel \in Int
        BY <1>1, <1>3
      <4>3. QED
        BY <3>3, <4>1, <4>2, NearestBin
    <3>5. K \in Int /\ fine = rel - K * w
      BY <1>11, <3>4
    <3>6. Abs(fine) # (2 * h) * w
      <4>1. (2 * h) * w = samp
        BY <1>1, <3>1 DEF Positive
      <4>2. QED
        BY <1>1, <1>7, <1>8, <1>10, <1>11, <3>5, <4>1 DEF Positive, Abs
    <3>7. Abs(rel - K * w) <= Abs(rel - k * w)
      BY <3>2, <3>4, <3>5, <3>6
    <3>8. k \in Int
      BY <3>2
    <3>9. QED
      BY <2>2, <3>5, <3>7, <3>8
  <2>5. QED
    BY <1>9, <2>3, <2>4
<1>14. 2 * (Abs(fine) + dev + Top(c, p)) <= rate
  BY <1>1, <1>7, <1>8, <1>11, <1>12 DEF Abs, Positive
<1>15. fine = r.freq - cent - K * w
  BY <1>1, <1>3, <1>11, <1>12 DEF rel, Positive
<1>16. \E k \in Bins(c) : fine = r.freq - cent - k * w /\ B = k % n
  BY <1>12, <1>15
<1>17. QED
  BY <1>4, <1>13, <1>14, <1>16 DEF Tuned, n, w, cent, rate, dev, p

-----------------------------------------------------------------------------
(* PlanResolution. What a list of stations becomes. *)

LEMMA IsListOf ==
  ASSUME NEW n \in Nat, NEW s, s = [i \in 1 .. n |-> s[i]]
  PROVE  IsList(s) /\ Len(s) = n
<1>1. DOMAIN s = 1 .. n
  OBVIOUS
<1>2. \A i \in 1 .. n : s[i] \in ToSet(s)
  BY <1>1 DEF ToSet
<1> DEFINE T == ToSet(s)
<1> HIDE DEF T
<1>3. s \in Seq(T) /\ Len(s) = n
  BY <1>1, <1>2 DEF T
<1>4. QED
  BY <1>3 DEF IsList, T

LEMMA SeqIsList ==
  ASSUME NEW S, NEW s \in Seq(S)
  PROVE  IsList(s)
<1>1. Len(s) \in Nat /\ s = [i \in 1 .. Len(s) |-> s[i]]
  OBVIOUS
<1>2. QED
  BY <1>1, IsListOf

\* stations.yml is a list, whatever is done to it.
THEOREM StationsAreListed == PlanSpec => []IsList(stations)
<1> USE PlanResolutionAssumption
<1>1. PlanInit => IsList(stations)
  BY DEF PlanInit
<1>2. IsList(stations) /\ [PlanNext]_planVars => IsList(stations)'
  <2> SUFFICES ASSUME IsList(stations), [PlanNext]_planVars
               PROVE  IsList(stations')
    BY DEF IsList
  <2> DEFINE n == Len(stations)
  <2>1. n \in Nat /\ DOMAIN stations = 1 .. n /\ stations = [i \in 1 .. n |-> stations[i]]
    BY DEF IsList
  <2>2. CASE EditConfig
    BY <2>2 DEF EditConfig
  <2>3. CASE EditStation
    <3>1. PICK i \in DOMAIN stations, e \in StationEdits :
            stations' = [stations EXCEPT ![i] = Put(@, e.key, e.value)]
      BY <2>3 DEF EditStation
    <3>2. stations' = [j \in 1 .. n |-> stations'[j]]
      BY <2>1, <3>1
    <3>3. QED
      BY <2>1, <3>2, IsListOf
  <2>4. CASE AddStation
    <3>1. PICK r \in Newcomers : stations' = Append(stations, r)
      BY <2>4 DEF AddStation
    <3> DEFINE T == ToSet(stations)
    <3> HIDE DEF T
    <3>2. stations \in Seq(T)
      BY DEF IsList, T
    <3>3. stations \in Seq(T \cup {r})
      BY <2>1, <3>2
    <3>4. Append(stations, r) \in Seq(T \cup {r})
      BY <3>3
    <3>5. QED
      BY <3>1, <3>4, SeqIsList
  <2>5. CASE RemoveStation
    <3>1. PICK i \in DOMAIN stations : stations' = RemoveAt(stations, i)
      BY <2>5 DEF RemoveStation
    <3> DEFINE T == ToSet(stations)
    <3> HIDE DEF T
    <3>2. stations \in Seq(T) /\ i \in 1 .. Len(stations)
      BY <2>1 DEF IsList, T
    <3>3. SubSeq(stations, 1, i - 1) \in Seq(T) /\ SubSeq(stations, i + 1, Len(stations)) \in Seq(T)
      BY <3>2
    <3>4. RemoveAt(stations, i) \in Seq(T)
      BY <3>3 DEF RemoveAt
    <3>5. QED
      BY <3>1, <3>4, SeqIsList
  <2>6. CASE UNCHANGED planVars
    BY <2>6 DEF planVars
  <2>7. QED
    BY <2>2, <2>3, <2>4, <2>5, <2>6 DEF PlanNext
<1>3. QED
  BY <1>1, <1>2, PTL DEF PlanSpec

\* Where a planned station stands in the file, and that it does where it is planned.
LEMMA PlannedAt ==
  ASSUME NEW c, NEW s, IsList(s)
  PROVE  /\ DOMAIN Planned(c, s) = DOMAIN InBand(c, s)
         /\ \A k \in DOMAIN InBand(c, s) :
              /\ Nth(BandAt(c, s), k) \in BandAt(c, s)
              /\ InBand(c, s)[k] = s[Nth(BandAt(c, s), k)]
              /\ Planned(c, s)[k] = StationPlan(c, s[Nth(BandAt(c, s), k)])
              /\ Planned(c, s)[k].port = s[Nth(BandAt(c, s), k)].port
         /\ \A k, l \in DOMAIN InBand(c, s) :
              k < l => Nth(BandAt(c, s), k) < Nth(BandAt(c, s), l)
         /\ \A i \in BandAt(c, s) :
              /\ Rank(BandAt(c, s), i) \in DOMAIN InBand(c, s)
              /\ Nth(BandAt(c, s), Rank(BandAt(c, s), i)) = i
<1> DEFINE R == BandAt(c, s)
           b == InBand(c, s)
<1>1. /\ IsFiniteSet(R) /\ (\A i \in R : i \in Int) /\ DOMAIN b = 1 .. Cardinality(R)
      /\ \A k \in DOMAIN b : b[k] = s[Nth(R, k)]
  <2>1. /\ IsFiniteSet(R) /\ (\A i \in R : i \in Int) /\ DOMAIN b = 1 .. Cardinality(R)
        /\ \A k \in 1 .. Cardinality(R) : b[k] = s[Nth(R, k)]
    BY InBandKept
  <2> HIDE DEF R, b
  <2>2. QED
    BY <2>1
<1> HIDE DEF R
<1>2. /\ \A k \in DOMAIN b : Nth(R, k) \in R
      /\ \A k, l \in DOMAIN b : k < l => Nth(R, k) < Nth(R, l)
      /\ \A i \in R : Rank(R, i) \in DOMAIN b /\ Nth(R, Rank(R, i)) = i
  BY <1>1, Nths
<1>3. /\ DOMAIN Planned(c, s) = DOMAIN b
      /\ \A k \in DOMAIN b : Planned(c, s)[k] = StationPlan(c, b[k])
  BY DEF Planned
<1>4. \A r : StationPlan(c, r).port = r.port
  BY DEF StationPlan
<1>5. \A k \in DOMAIN b : Planned(c, s)[k] = StationPlan(c, s[Nth(R, k)])
                          /\ Planned(c, s)[k].port = s[Nth(R, k)].port
  BY <1>1, <1>3, <1>4
<1>6. QED
  BY <1>1, <1>2, <1>3, <1>5 DEF R

\* Every station of a plan is tuned through the nearest bin, fits its channel, and has a
\* port of its own, for every pair of files that resolves.
THEOREM PlansAreSound == PlanSpec => []PlanIsSound
<1>1. IsList(stations) => PlanIsSound
  <2> SUFFICES ASSUME IsList(stations), Resolves(config, stations)
               PROVE  LET plan == Planned(config, stations)
                      IN  (\A i \in DOMAIN plan : Tuned(config, plan[i])) /\ Distinct(plan)
    BY DEF PlanIsSound
  <2> DEFINE plan == Planned(config, stations)
             R == BandAt(config, stations)
  <2>1. /\ ConfigOk(config) /\ ListOk(stations)
        /\ \A i \in DOMAIN InBand(config, stations) : StationOk(config, InBand(config, stations)[i])
    BY Zenon DEF Resolves
  <2>2. /\ DOMAIN plan = DOMAIN InBand(config, stations)
        /\ \A k \in DOMAIN plan : /\ Nth(R, k) \in R
                                  /\ InBand(config, stations)[k] = stations[Nth(R, k)]
                                  /\ plan[k] = StationPlan(config, stations[Nth(R, k)])
                                  /\ plan[k].port = stations[Nth(R, k)].port
        /\ \A k, l \in DOMAIN plan : k < l => Nth(R, k) < Nth(R, l)
    BY PlannedAt
  <2>3. DOMAIN plan = 1 .. Cardinality(R) /\ \A i \in R : i \in Int
    <3>1. DOMAIN InBand(config, stations) = 1 .. Cardinality(R) /\ \A i \in R : i \in Int
      BY InBandKept
    <3>2. QED
      BY <2>2, <3>1
  <2>4. Distinct(stations)
    BY <2>1, Zenon DEF ListOk
  <2>5. \A i \in R : i \in DOMAIN stations /\ InSpan(config, stations[i])
    BY DEF BandAt
  <2> HIDE DEF plan, R
  <2>6. ASSUME NEW k \in DOMAIN plan
        PROVE  Tuned(config, plan[k])
    BY <2>1, <2>2, <2>5, Tuning
  <2>7. ASSUME NEW k \in DOMAIN plan, NEW l \in DOMAIN plan, k # l
        PROVE  plan[k].port # plan[l].port
    <3>1. k \in Int /\ l \in Int /\ Nth(R, k) \in Int /\ Nth(R, l) \in Int
      BY <2>2, <2>3
    <3>2. k < l \/ l < k
      BY <2>7, <3>1
    <3>3. Nth(R, k) # Nth(R, l)
      BY <2>2, <3>1, <3>2
    <3>4. QED
      BY <2>2, <2>4, <2>5, <3>3 DEF Distinct
  <2>8. QED
    BY <2>6, <2>7 DEF Distinct, plan
<1>2. QED
  BY <1>1, StationsAreListed, PTL

\* Only a station outside the span is said to be outside it.
LEMMA Kinds ==
  ASSUME NEW c, NEW s, NEW of
  PROVE  Note("outside", of) \in findings(c, s) <=> Note("outside", of) \in Outside(c, s)
<1> DEFINE n == Note("outside", of)
<1>1. n.kind = "outside"
  BY DEF Note
<1>2. \A kind, which : Note(kind, which).kind = kind
  BY DEF Note
<1>3. n \notin General(c)
  <2> SUFFICES ASSUME n \in General(c) PROVE FALSE
    OBVIOUS
  <2>1. PICK kind \in {"pll", "mtu", "snr", "tight"} : n = Note(kind, {})
    BY DEF General
  <2>2. QED
    BY <1>1, <1>2, <2>1
<1>4. n \notin None(c, s)
  BY <1>1, <1>2 DEF None
<1>5. n \notin Roll(c, s)
  <2> SUFFICES ASSUME n \in Roll(c, s) PROVE FALSE
    OBVIOUS
  <2>1. PICK which : n = Note("rolloff", which)
    BY Zenon DEF Roll
  <2>2. QED
    BY <1>1, <1>2, <2>1
<1>6. n \notin Forced(c, s)
  BY <1>1, <1>2 DEF Forced
<1>7. n \notin Shared(c, s)
  <2> SUFFICES ASSUME n \in Shared(c, s) PROVE FALSE
    OBVIOUS
  <2>1. PICK kind \in {"co-channel", "skirt", "shared"} : \E which : n = Note(kind, which)
    BY DEF Shared
  <2>2. QED
    BY <1>1, <1>2, <2>1
<1> HIDE DEF n
<1>8. n \in findings(c, s) <=> n \in Outside(c, s)
  BY <1>3, <1>4, <1>5, <1>6, <1>7 DEF findings
<1>9. QED
  BY <1>8 DEF n

LEMMA SaidOutside ==
  ASSUME NEW c, NEW s, IsList(s), NEW port
  PROVE  Note("outside", {port}) \in findings(c, s)
           <=> \E i \in EnabledAt(s) : ~InSpan(c, s[i]) /\ s[i].port = port
<1> DEFINE P == EnabledAt(s)
           e == Enabled(s)
<1>1. /\ IsFiniteSet(P) /\ \A i \in P : i \in Int
      /\ DOMAIN e = 1 .. Cardinality(P)
      /\ \A k \in 1 .. Cardinality(P) : e[k] = s[Nth(P, k)]
      /\ \A i \in P : e[Rank(P, i)] = s[i]
  BY EnabledKept
<1>2. Note("outside", {port}) \in Outside(c, s)
        <=> \E k \in DOMAIN e : ~InSpan(c, e[k]) /\ e[k].port = port
  <2>1. \A p, q : Note("outside", {p}) = Note("outside", {q}) <=> p = q
    <3> SUFFICES ASSUME NEW p, NEW q, Note("outside", {p}) = Note("outside", {q})
                 PROVE  p = q
      OBVIOUS
    <3>1. Note("outside", {p}).of = {p} /\ Note("outside", {q}).of = {q}
      BY DEF Note
    <3>2. QED
      BY <3>1
  <2>2. \A r : r \in ToSet(e) <=> \E k \in DOMAIN e : r = e[k]
    BY DEF ToSet
  <2>3. \A x : x \in Outside(c, s)
                 <=> \E r \in ToSet(e) : ~InSpan(c, r) /\ x = Note("outside", {r.port})
    BY DEF Outside
  <2> HIDE DEF e
  <2>4. Note("outside", {port}) \in Outside(c, s)
          <=> \E r \in ToSet(e) : ~InSpan(c, r) /\ r.port = port
    BY <2>1, <2>3
  <2>5. QED
    BY <2>2, <2>4
<1> HIDE DEF P, e
<1>3. /\ \A k \in 1 .. Cardinality(P) : Nth(P, k) \in P
      /\ \A i \in P : Rank(P, i) \in 1 .. Cardinality(P)
  BY <1>1, Nths
<1>4. (\E k \in DOMAIN e : ~InSpan(c, e[k]) /\ e[k].port = port)
        <=> \E i \in P : ~InSpan(c, s[i]) /\ s[i].port = port
  BY <1>1, <1>3
<1>5. QED
  BY <1>2, <1>4, Kinds DEF P

\* A station that is enabled is planned, in the order of the file, or named as outside the
\* span; a disabled one is neither, and still known to the band scan.
THEOREM NoStationVanishes == PlanSpec => []NothingVanishes
<1>1. IsList(stations) => NothingVanishes
  <2> SUFFICES ASSUME IsList(stations), Resolves(config, stations)
               PROVE  NothingVanishes
    BY Zenon DEF NothingVanishes
  <2> DEFINE s == stations
             plan == Planned(config, stations)
             R == BandAt(config, stations)
             P == EnabledAt(stations)
             In(r) == \E k \in DOMAIN plan : plan[k].port = r.port
             Said(r) == Note("outside", {r.port}) \in findings(config, stations)
  <2>1. Distinct(s)
    BY Zenon DEF Resolves, ListOk
  <2>2. /\ \A k \in DOMAIN plan : Nth(R, k) \in R /\ plan[k].port = s[Nth(R, k)].port
        /\ \A k, l \in DOMAIN plan : k < l => Nth(R, k) < Nth(R, l)
        /\ \A i \in R : Rank(R, i) \in DOMAIN plan /\ Nth(R, Rank(R, i)) = i
    BY PlannedAt
  <2>3. \A i : i \in R <=> i \in P /\ InSpan(config, s[i])
    BY DEF BandAt, EnabledAt
  <2>4. \A i : i \in P <=> i \in DOMAIN s /\ IsEnabled(s[i])
    BY DEF EnabledAt
  <2>5. \A i \in DOMAIN s :
          Said(s[i]) <=> \E j \in P : ~InSpan(config, s[j]) /\ s[j].port = s[i].port
    BY SaidOutside
  <2>6. \A r \in ToSet(s) : \E i \in DOMAIN all_stations(s) : all_stations(s)[i].freq = r.freq
    BY DEF ToSet, all_stations
  <2> HIDE DEF s, plan, R, P
  <2>7. ASSUME NEW i \in DOMAIN s
        PROVE  /\ In(s[i]) <=> i \in R
               /\ Said(s[i]) <=> i \in P /\ ~InSpan(config, s[i])
    <3>1. \A j \in DOMAIN s : s[j].port = s[i].port <=> j = i
      BY <2>1 DEF Distinct
    <3>2. In(s[i]) <=> i \in R
      BY <2>2, <2>3, <2>4, <3>1
    <3>3. Said(s[i]) <=> i \in P /\ ~InSpan(config, s[i])
      BY <2>4, <2>5, <3>1
    <3>4. QED
      BY <3>2, <3>3
  <2> HIDE DEF In, Said
  <2>8. ASSUME NEW i \in DOMAIN s
        PROVE  /\ In(s[i]) \in BOOLEAN /\ Said(s[i]) \in BOOLEAN
               /\ IsEnabled(s[i]) => (In(s[i]) <=> ~Said(s[i]))
               /\ ~IsEnabled(s[i]) => ~In(s[i]) /\ ~Said(s[i])
    BY <2>3, <2>4, <2>7 DEF In, Said
  <2>9. ASSUME NEW i \in DOMAIN s
        PROVE  IF IsEnabled(s[i]) THEN In(s[i]) # Said(s[i]) ELSE ~In(s[i]) /\ ~Said(s[i])
    BY <2>8, Zenon
  <2>10. ASSUME NEW k \in DOMAIN plan, NEW l \in DOMAIN plan, k < l
         PROVE  \E i, j \in DOMAIN s :
                  i < j /\ s[i].port = plan[k].port /\ s[j].port = plan[l].port
    BY <2>2, <2>3, <2>4, <2>10
  <2>11. QED
    BY <2>6, <2>9, <2>10, Zenon DEF NothingVanishes, s, plan, In, Said
<1>2. QED
  BY <1>1, StationsAreListed, PTL

\* A list that holds the planned stations of another but one, in order, gives the plan
\* without it.
LEMMA LeftOut ==
  ASSUME NEW c, NEW s, IsList(s), NEW t, IsList(t), Resolves(c, s), ListOk(t),
         NEW i \in DOMAIN s, NEW g, \A j \in DOMAIN t : g[j] \in DOMAIN s,
         \A j, k \in DOMAIN t : j < k => g[j] < g[k],
         \A j \in BandAt(c, t) : g[j] \in BandAt(c, s) \ {i} /\ t[j] = s[g[j]],
         \A m \in BandAt(c, s) \ {i} : \E j \in BandAt(c, t) : g[j] = m
  PROVE  Resolves(c, t) /\ Planned(c, t) = Others(Planned(c, s), s[i].port)
<1> DEFINE R == BandAt(c, s)
           S == R \ {i}
           T == BandAt(c, t)
           m == Cardinality(T)
           f == [k \in 1 .. m |-> g[Nth(T, k)]]
<1>1. /\ IsFiniteSet(R) /\ \A j \in R : j \in Int
      /\ DOMAIN InBand(c, s) = 1 .. Cardinality(R)
      /\ \A k \in 1 .. Cardinality(R) : InBand(c, s)[k] = s[Nth(R, k)]
      /\ \A j \in R : InBand(c, s)[Rank(R, j)] = s[j]
  BY InBandKept
<1>2. /\ IsFiniteSet(T) /\ \A j \in T : j \in Int
      /\ DOMAIN InBand(c, t) = 1 .. m
      /\ \A k \in 1 .. m : InBand(c, t)[k] = t[Nth(T, k)]
  BY InBandKept
<1>3. R \in SUBSET DOMAIN s /\ T \in SUBSET DOMAIN t
  BY DEF BandAt
<1>4. ConfigOk(c) /\ Distinct(s) /\ \A k \in DOMAIN InBand(c, s) : StationOk(c, InBand(c, s)[k])
  BY Zenon DEF Resolves, ListOk
<1> HIDE DEF R, T
<1>5. m \in Nat
  BY <1>2, Ranks
<1>6. /\ \A k \in 1 .. m : Nth(T, k) \in T
      /\ \A k, l \in 1 .. m : k < l => Nth(T, k) < Nth(T, l)
      /\ \A j \in T : Rank(T, j) \in 1 .. m /\ Nth(T, Rank(T, j)) = j
  BY <1>2, Nths
<1>7. /\ \A j \in T : g[j] \in S /\ t[j] = s[g[j]]
      /\ \A j \in S : \E k \in T : g[k] = j
  BY DEF R, T
<1>8. f \in [1 .. m -> S] /\ \A k \in 1 .. m : f[k] = g[Nth(T, k)]
  BY <1>6, <1>7
<1> HIDE DEF f, m
<1>9. \A k, l \in 1 .. m : k < l => f[k] < f[l]
  BY <1>3, <1>6, <1>8
<1>10. \A j \in S : \E k \in 1 .. m : f[k] = j
  BY <1>6, <1>7, <1>8
<1>11. \A j \in S : j \in Int
  BY <1>1
<1> HIDE DEF S
<1>12. IsFiniteSet(S) /\ Cardinality(S) = m /\ \A k \in 1 .. m : f[k] = Nth(S, k)
  <2>1. /\ m \in Nat /\ (\A k \in 1 .. m : f[k] \in S) /\ \A j \in S : j \in Int
        /\ \A k, l \in 1 .. m : k < l => f[k] < f[l]
        /\ \A j \in S : \E k \in 1 .. m : f[k] = j
    BY <1>5, <1>8, <1>9, <1>10, <1>11
  <2>2. QED
    BY <2>1, InOrder
<1>13. \A k \in 1 .. m : Nth(S, k) \in S /\ InBand(c, t)[k] = s[Nth(S, k)]
  BY <1>2, <1>6, <1>7, <1>8, <1>12
<1>14. S \in SUBSET R /\ \A j \in R : j \in S <=> j # i
  BY DEF S
<1>15. \A j \in R : Rank(R, j) \in 1 .. Cardinality(R)
  BY <1>1, Ranks
<1>16. Resolves(c, t)
  <2>1. \A k \in DOMAIN InBand(c, t) : StationOk(c, InBand(c, t)[k])
    <3> SUFFICES ASSUME NEW k \in 1 .. m
                 PROVE  StationOk(c, InBand(c, t)[k])
      BY <1>2
    <3> DEFINE j == Nth(S, k)
    <3>1. j \in R /\ InBand(c, t)[k] = s[j]
      BY <1>13, <1>14
    <3>2. InBand(c, t)[k] = InBand(c, s)[Rank(R, j)] /\ Rank(R, j) \in DOMAIN InBand(c, s)
      BY <1>1, <1>15, <3>1
    <3>3. QED
      BY <1>4, <3>2
  <2>2. QED
    BY <1>4, <2>1, Zenon DEF Resolves
<1>17. Planned(c, t) = Others(Planned(c, s), s[i].port)
  <2> DEFINE all  == [j \in DOMAIN s |-> StationPlan(c, s[j])]
             plan == Planned(c, s)
             Q    == {k \in DOMAIN plan : plan[k].port # s[i].port}
  <2>1. \A k \in 1 .. Cardinality(R) : Nth(R, k) \in R
    BY <1>1, Nths
  <2>2. \A r : StationPlan(c, r).port = r.port
    BY DEF StationPlan
  <2>3. plan = [k \in 1 .. Cardinality(R) |-> StationPlan(c, s[Nth(R, k)])]
    BY <1>1 DEF Planned
  <2>4. plan = Kept(all, R)
    BY <1>3, <2>1, <2>3 DEF Kept
  <2>5. Planned(c, t) = [k \in 1 .. m |-> StationPlan(c, s[Nth(S, k)])]
    BY <1>2, <1>13 DEF Planned
  <2>6. Planned(c, t) = Kept(all, S)
    BY <1>3, <1>12, <1>13, <1>14, <2>5 DEF Kept
  <2>7. Others(plan, s[i].port) = Kept(plan, Q)
    BY DEF Others
  <2> HIDE DEF plan, all
  <2>8. \A j \in R : Rank(R, j) \in Q <=> j \in S
    <3> SUFFICES ASSUME NEW j \in R
                 PROVE  Rank(R, j) \in Q <=> j \in S
      OBVIOUS
    <3>1. Rank(R, j) \in DOMAIN plan
      BY <1>15, <2>3
    <3>2. plan[Rank(R, j)].port = s[Nth(R, Rank(R, j))].port
      BY <1>15, <2>2, <2>3
    <3>3. Nth(R, Rank(R, j)) = j
      BY <1>1, Nths
    <3>4. s[j].port # s[i].port <=> j # i
      BY <1>3, <1>4 DEF Distinct
    <3>5. QED
      BY <1>14, <3>1, <3>2, <3>3, <3>4
  <2>9. Q \in SUBSET (1 .. Cardinality(R))
    BY <2>3
  <2> HIDE DEF Q
  <2>10. \A j : j \in S <=> j \in R /\ Rank(R, j) \in Q
    BY <1>14, <2>8
  <2>11. Kept(Kept(all, R), Q) = Kept(all, S)
    BY <1>1, <2>9, <2>10, KeptOfKept
  <2>12. QED
    BY <2>4, <2>6, <2>7, <2>11 DEF plan
<1>18. QED
  BY <1>16, <1>17

\* One station of the list rewritten: the others are as they were.
LEMMA Replaced ==
  ASSUME NEW s, IsList(s), NEW i \in DOMAIN s, NEW x
  PROVE  LET t == [s EXCEPT ![i] = x]
         IN  /\ IsList(t) /\ DOMAIN t = DOMAIN s /\ t[i] = x
             /\ \A j \in DOMAIN s : j # i => t[j] = s[j]
<1> DEFINE t == [s EXCEPT ![i] = x]
<1>1. DOMAIN t = DOMAIN s /\ t[i] = x /\ \A j \in DOMAIN s : j # i => t[j] = s[j]
  OBVIOUS
<1>2. Len(s) \in Nat /\ t = [j \in 1 .. Len(s) |-> t[j]]
  BY Lists
<1> HIDE DEF t
<1>3. IsList(t)
  BY <1>2, IsListOf
<1>4. QED
  BY <1>1, <1>3 DEF t

LEMMA Rewritten ==
  ASSUME NEW s, NEW i \in DOMAIN s, NEW v, ListOk(s), NEW t, DOMAIN t = DOMAIN s,
         t[i] = Put(s[i], "enabled", v), \A j \in DOMAIN s : j # i => t[j] = s[j]
  PROVE  ListOk(t)
<1>1. /\ \A j \in DOMAIN s :
           /\ Keys(s[j], {"label", "freq", "port"}, {"stereo", "agc", "squelch", "enabled", "rds"})
           /\ s[j].port \in Ports /\ s[j].freq \in PlausibleFreqs
      /\ Distinct(s)
  BY Zenon DEF ListOk
<1>2. /\ Keys(t[i], {"label", "freq", "port"}, {"stereo", "agc", "squelch", "enabled", "rds"})
      /\ t[i].port = s[i].port /\ t[i].freq = s[i].freq
  BY <1>1 DEF Put, Keys
<1>3. \A j \in DOMAIN t :
        /\ Keys(t[j], {"label", "freq", "port"}, {"stereo", "agc", "squelch", "enabled", "rds"})
        /\ t[j].port = s[j].port /\ t[j].freq = s[j].freq
  BY <1>1, <1>2
<1>4. QED
  BY <1>1, <1>3 DEF ListOk, Distinct

\* The station as it is planned does not depend on its switch.
LEMMA SwitchedOn ==
  ASSUME NEW c, NEW r, NEW v, "freq" \in DOMAIN r, StationOk(c, r)
  PROVE  StationOk(c, Put(r, "enabled", v))
<1> DEFINE q == Put(r, "enabled", v)
<1>1. /\ q.freq = r.freq
      /\ \A d : Or(q, "stereo", d) = Or(r, "stereo", d)
      /\ \A block \in {"agc", "squelch", "rds"} : get(q, block) = get(r, block)
  BY DEF Put, Or, get, has
<1> HIDE DEF q
<1>2. Bin(c, q) = Bin(c, r)
  BY <1>1 DEF Bin
<1>3. fine_hz(c, q) = fine_hz(c, r)
  BY <1>1, <1>2 DEF fine_hz
<1>4. Mode(c, q) = Mode(c, r)
  BY <1>1 DEF Mode
<1>5. Own(c, q, "rds") = Own(c, r, "rds")
  BY <1>1 DEF Own
<1>6. reach(c, q) = reach(c, r)
  BY <1>3, <1>4, <1>5 DEF reach, carson_half
<1>7. StationOk(c, q)
  BY <1>1, <1>4, <1>6 DEF StationOk
<1>8. QED
  BY <1>7 DEF q

LEMMA DisabledLeaves ==
  ASSUME NEW c, NEW s, IsList(s), Resolves(c, s), NEW i \in DOMAIN s, NEW t,
         IsList(t), DOMAIN t = DOMAIN s, t[i] = Put(s[i], "enabled", FALSE),
         \A j \in DOMAIN s : j # i => t[j] = s[j]
  PROVE  Resolves(c, t) /\ Planned(c, t) = Others(Planned(c, s), s[i].port)
<1>1. ListOk(s)
  BY Zenon DEF Resolves
<1>2. ListOk(t)
  BY <1>1, Rewritten
<1>3. ~IsEnabled(t[i])
  BY <1>2, PlanResolutionAssumption DEF IsEnabled, Put, Or, has
<1>4. \A j : j \in BandAt(c, t) <=> j \in BandAt(c, s) /\ j # i
  BY <1>2, <1>3 DEF BandAt
<1>5. BandAt(c, s) \in SUBSET DOMAIN s
  BY DEF BandAt
<1> DEFINE g == [j \in DOMAIN t |-> j]
<1>6. g \in [DOMAIN t -> DOMAIN s] /\ \A j \in DOMAIN t : g[j] = j
  BY <1>2
<1> HIDE DEF g
<1>7. \A j, k \in DOMAIN t : j < k => g[j] < g[k]
  BY <1>6
<1>8. /\ \A j \in BandAt(c, t) : g[j] \in BandAt(c, s) \ {i} /\ t[j] = s[g[j]]
      /\ \A m \in BandAt(c, s) \ {i} : \E j \in BandAt(c, t) : g[j] = m
  BY <1>2, <1>4, <1>5, <1>6
<1>9. QED
  <2>1. /\ IsList(t) /\ ListOk(t) /\ \A j \in DOMAIN t : g[j] \in DOMAIN s
        /\ \A j, k \in DOMAIN t : j < k => g[j] < g[k]
        /\ \A j \in BandAt(c, t) : g[j] \in BandAt(c, s) \ {i} /\ t[j] = s[g[j]]
        /\ \A m \in BandAt(c, s) \ {i} : \E j \in BandAt(c, t) : g[j] = m
    BY <1>2, <1>6, <1>7, <1>8
  <2>2. QED
    BY <2>1, LeftOut

LEMMA RemovedLeaves ==
  ASSUME NEW c, NEW s, IsList(s), Resolves(c, s), NEW i \in DOMAIN s, NEW t, t = RemoveAt(s, i)
  PROVE  Resolves(c, t) /\ Planned(c, t) = Others(Planned(c, s), s[i].port)
<1> DEFINE n == Len(s)
           U == ToSet(s)
           At(j) == IF j < i THEN j ELSE j + 1
<1>1. n \in Nat /\ DOMAIN s = 1 .. n /\ i \in 1 .. n
  BY Lists
<1>2. s \in Seq(U)
  BY DEF IsList
<1> HIDE DEF U
<1>3. /\ t \in Seq(U) /\ Len(t) = n - 1
      /\ \A j \in 1 .. n - 1 : t[j] = s[At(j)]
  <2>1. /\ SubSeq(s, 1, i - 1) \in Seq(U) /\ Len(SubSeq(s, 1, i - 1)) = i - 1
        /\ SubSeq(s, i + 1, n) \in Seq(U) /\ Len(SubSeq(s, i + 1, n)) = n - i
        /\ \A j \in 1 .. i - 1 : SubSeq(s, 1, i - 1)[j] = s[j]
        /\ \A j \in 1 .. n - i : SubSeq(s, i + 1, n)[j] = s[j + i]
    BY <1>1, <1>2
  <2> DEFINE a == SubSeq(s, 1, i - 1)
             b == SubSeq(s, i + 1, n)
  <2>2. t = a \o b
    BY DEF RemoveAt
  <2> HIDE DEF a, b, n
  <2>3. /\ t \in Seq(U) /\ Len(t) = n - 1
        /\ \A j \in 1 .. i - 1 : t[j] = a[j]
        /\ \A j \in i .. n - 1 : t[j] = b[j - (i - 1)]
    <3>1. a \in Seq(U) /\ b \in Seq(U) /\ Len(a) = i - 1 /\ Len(b) = n - i
      BY <2>1 DEF a, b
    <3>2. /\ Len(a \o b) = Len(a) + Len(b) /\ a \o b \in Seq(U)
          /\ \A j \in 1 .. Len(a) + Len(b) :
               (a \o b)[j] = IF j <= Len(a) THEN a[j] ELSE b[j - Len(a)]
      BY <3>1
    <3> DEFINE q == a \o b
    <3> HIDE DEF q
    <3>3. /\ Len(q) = n - 1 /\ q \in Seq(U)
          /\ \A j \in 1 .. n - 1 : q[j] = IF j <= i - 1 THEN a[j] ELSE b[j - (i - 1)]
      BY <1>1, <3>1, <3>2 DEF q
    <3>4. t = q
      BY <2>2 DEF q
    <3>5. QED
      BY <1>1, <3>3, <3>4
  <2>4. \A j \in 1 .. n - 1 : t[j] = s[At(j)]
    <3> SUFFICES ASSUME NEW j \in 1 .. n - 1
                 PROVE  t[j] = s[At(j)]
      OBVIOUS
    <3>1. CASE j < i
      <4>1. j \in 1 .. i - 1 /\ At(j) = j
        BY <1>1, <3>1
      <4>2. QED
        BY <2>1, <2>3, <4>1 DEF a
    <3>2. CASE ~(j < i)
      <4>1. j \in i .. n - 1 /\ j - (i - 1) \in 1 .. n - i /\ At(j) = j + 1
        BY <1>1, <3>2
      <4>2. t[j] = s[j - (i - 1) + i]
        BY <2>1, <2>3, <4>1 DEF b
      <4>3. j - (i - 1) + i = j + 1
        BY <1>1
      <4>4. QED
        BY <4>1, <4>2, <4>3
    <3>3. QED
      BY <3>1, <3>2
  <2>5. QED
    BY <2>3, <2>4
<1>4. IsList(t) /\ DOMAIN t = 1 .. n - 1
  BY <1>1, <1>3, SeqIsList
<1> DEFINE g == [j \in DOMAIN t |-> At(j)]
<1>5. /\ g \in [DOMAIN t -> DOMAIN s]
      /\ \A j \in DOMAIN t : g[j] = At(j) /\ t[j] = s[g[j]] /\ g[j] # i
      /\ \A j, k \in DOMAIN t : j < k => g[j] < g[k]
  BY <1>1, <1>3, <1>4
<1>6. \A m \in DOMAIN s : m # i => \E j \in DOMAIN t : g[j] = m
  <2> SUFFICES ASSUME NEW m \in 1 .. n, m # i
               PROVE  \E j \in DOMAIN t : g[j] = m
    BY <1>1
  <2>1. CASE m < i
    <3>1. m \in DOMAIN t /\ g[m] = m
      BY <1>1, <1>4, <2>1
    <3>2. QED
      BY <3>1
  <2>2. CASE m > i
    <3>1. m - 1 \in DOMAIN t /\ g[m - 1] = m
      BY <1>1, <1>4, <2>2
    <3>2. QED
      BY <3>1
  <2>3. QED
    BY <1>1, <2>1, <2>2
<1> HIDE DEF g, n
<1>7. /\ ListOk(s)
      /\ \A j \in DOMAIN s :
           /\ Keys(s[j], {"label", "freq", "port"}, {"stereo", "agc", "squelch", "enabled", "rds"})
           /\ s[j].port \in Ports /\ s[j].freq \in PlausibleFreqs
      /\ Distinct(s)
  BY Zenon DEF Resolves, ListOk
<1>8. \A j, k \in DOMAIN t : j # k => g[j] # g[k]
  <2> SUFFICES ASSUME NEW j \in DOMAIN t, NEW k \in DOMAIN t, j # k
               PROVE  g[j] # g[k]
    OBVIOUS
  <2>1. j \in Int /\ k \in Int /\ g[j] \in Int /\ g[k] \in Int
    BY <1>4, <1>5, Lists
  <2>2. j < k \/ k < j
    BY <2>1
  <2>3. QED
    BY <1>5, <2>1, <2>2
<1>9. ListOk(t)
  BY <1>5, <1>7, <1>8 DEF ListOk, Distinct
<1>10. \A j \in DOMAIN t : j \in BandAt(c, t) <=> g[j] \in BandAt(c, s)
  BY <1>5 DEF BandAt
<1>11. /\ \A j \in BandAt(c, t) : j \in DOMAIN t
       /\ \A j \in BandAt(c, s) : j \in DOMAIN s
  BY DEF BandAt
<1>12. /\ \A j \in BandAt(c, t) : g[j] \in BandAt(c, s) \ {i} /\ t[j] = s[g[j]]
       /\ \A m \in BandAt(c, s) \ {i} : \E j \in BandAt(c, t) : g[j] = m
  BY <1>5, <1>6, <1>10, <1>11
<1>13. QED
  <2>1. /\ IsList(t) /\ ListOk(t) /\ \A j \in DOMAIN t : g[j] \in DOMAIN s
        /\ \A j, k \in DOMAIN t : j < k => g[j] < g[k]
        /\ \A j \in BandAt(c, t) : g[j] \in BandAt(c, s) \ {i} /\ t[j] = s[g[j]]
        /\ \A m \in BandAt(c, s) \ {i} : \E j \in BandAt(c, t) : g[j] = m
    BY <1>4, <1>5, <1>9, <1>12
  <2>2. QED
    BY <2>1, LeftOut

LEMMA EnabledJoins ==
  ASSUME NEW c, NEW s, IsList(s), Resolves(c, s), NEW i \in DOMAIN s, NEW t,
         IsList(t), DOMAIN t = DOMAIN s, t[i] = Put(s[i], "enabled", Absent),
         \A j \in DOMAIN s : j # i => t[j] = s[j], StationOk(c, s[i])
  PROVE  Resolves(c, t)
<1>1. /\ ConfigOk(c) /\ ListOk(s)
      /\ \A k \in DOMAIN InBand(c, s) : StationOk(c, InBand(c, s)[k])
  BY Zenon DEF Resolves
<1>2. ListOk(t)
  BY <1>1, Rewritten
<1>3. StationOk(c, t[i])
  <2>1. "freq" \in DOMAIN s[i]
    BY <1>1 DEF ListOk, Keys
  <2>2. QED
    BY <1>2, <2>1, SwitchedOn
<1>4. ASSUME NEW k \in DOMAIN InBand(c, t)
      PROVE  StationOk(c, InBand(c, t)[k])
  <2> DEFINE j == Nth(BandAt(c, t), k)
  <2>1. j \in BandAt(c, t) /\ InBand(c, t)[k] = t[j]
    <3>1. IsList(t)
      BY <1>2
    <3>2. QED
      BY <3>1, PlannedAt
  <2>2. CASE j = i
    BY <1>3, <2>1, <2>2
  <2>3. CASE j # i
    <3>1. j \in BandAt(c, s) /\ t[j] = s[j]
      BY <1>2, <2>1, <2>3 DEF BandAt
    <3>2. /\ Rank(BandAt(c, s), j) \in DOMAIN InBand(c, s)
          /\ InBand(c, s)[Rank(BandAt(c, s), j)] = s[j]
      BY <3>1, PlannedAt, InBandKept
    <3>3. QED
      BY <1>1, <2>1, <3>1, <3>2
  <2>4. QED
    BY <2>2, <2>3
<1>5. QED
  BY <1>1, <1>2, <1>4, Zenon DEF Resolves

\* To disable a station or to take it out leaves the rest of the plan as it is; one that is
\* enabled again is refused for its own sake only.
THEOREM StationsStayIndependent == PlanSpec => StationsIndependent
<1> DEFINE A ==
      (config' = config /\ Resolves(config, stations)) =>
        \A i \in DOMAIN stations :
          LET port == stations[i].port
          IN  /\ stations' \in {Disabled(i), RemoveAt(stations, i)} =>
                   /\ Resolves(config, stations')
                   /\ Planned(config, stations') = Others(Planned(config, stations), port)
              /\ (stations' = Reenabled(i) /\ ~Resolves(config, stations')) =>
                   ~StationOk(config, stations[i])
<1>1. IsList(stations) => A
  <2> SUFFICES ASSUME IsList(stations), Resolves(config, stations), NEW i \in DOMAIN stations
               PROVE  /\ stations' \in {Disabled(i), RemoveAt(stations, i)} =>
                           /\ Resolves(config, stations')
                           /\ Planned(config, stations')
                                = Others(Planned(config, stations), stations[i].port)
                      /\ stations' = Reenabled(i) /\ StationOk(config, stations[i]) =>
                           Resolves(config, stations')
    OBVIOUS
  <2>1. ASSUME stations' = Disabled(i)
        PROVE  /\ Resolves(config, stations')
               /\ Planned(config, stations') = Others(Planned(config, stations), stations[i].port)
    <3>1. /\ IsList(stations') /\ DOMAIN stations' = DOMAIN stations
          /\ stations'[i] = Put(stations[i], "enabled", FALSE)
          /\ \A j \in DOMAIN stations : j # i => stations'[j] = stations[j]
      BY <2>1, Replaced DEF Disabled
    <3>2. QED
      BY <3>1, DisabledLeaves
  <2>2. ASSUME stations' = RemoveAt(stations, i)
        PROVE  /\ Resolves(config, stations')
               /\ Planned(config, stations') = Others(Planned(config, stations), stations[i].port)
    BY <2>2, RemovedLeaves
  <2>3. ASSUME stations' = Reenabled(i), StationOk(config, stations[i])
        PROVE  Resolves(config, stations')
    <3>1. /\ IsList(stations') /\ DOMAIN stations' = DOMAIN stations
          /\ stations'[i] = Put(stations[i], "enabled", Absent)
          /\ \A j \in DOMAIN stations : j # i => stations'[j] = stations[j]
      BY <2>3, Replaced DEF Reenabled
    <3>2. QED
      BY <2>3, <3>1, EnabledJoins
  <2>4. QED
    BY <2>1, <2>2, <2>3
<1> HIDE DEF A
<1>2. PlanSpec => [][A]_planVars
  BY <1>1, StationsAreListed, PTL
<1>3. StationsIndependent <=> [][A]_planVars
  BY DEF StationsIndependent, A
<1>4. QED
  BY <1>2, <1>3, PTL

-----------------------------------------------------------------------------
(* GainControl. *)

USE GainControlAssumption

\* What the reader's position says of the device.
Device ==
  /\ reader # "away" => context
  /\ rxPhy => reader \in {"stream", "retire", "up"}

\* The lock is held by whoever uses the channel, which stays published meanwhile.
Lock ==
  /\ polling \subseteq {holder}
  /\ loop \in {"write", "store"} <=> holder = "loop"
  /\ holder # NoOne => rxPhy

\* The chip's gain is the recorded one from the seed on, but for a write under way.
Recorded ==
  /\ reader = "publish" => chip = gainCmd
  /\ loop = "store" => chip = agcGain

IInv == TypeOK /\ Device /\ Lock /\ Recorded /\ ChipHasCommandedGain

LEMMA InitOK == Init => IInv
  BY DEF Init, IInv, TypeOK, Device, Lock, Recorded, ChipHasCommandedGain, Gains

\* The law never asks for a gain outside the configured range.
LEMMA ClampRange ==
  ASSUME NEW g \in Int
  PROVE  Clamp(g) \in Gains
  BY DEF Clamp, Gains

LEMMA LawRange ==
  ASSUME agcGain \in Gains
  PROVE  NextGain \in Gains
<1>1. /\ agcGain \in Int /\ agcGain - GainStep \in Int /\ agcGain + GainStep \in Int
  BY DEF Gains
<1>2. /\ Clamp(agcGain - GainStep) \in Gains
      /\ Clamp(agcGain + GainStep) \in Gains
      /\ Clamp(agcGain) \in Gains
  BY <1>1, ClampRange
<1>3. QED
  BY <1>2 DEF NextGain

LEMMA ReaderPreserves ==
  ASSUME IInv, Reader
  PROVE  IInv'
<1> USE DEF Reader, LoseLink, Retire, Destroy, Open, Seed, OpenFails, Publish, LinkUp,
            Goto, law
<1>1. TypeOK'
  BY DEF IInv, TypeOK
<1>2. Device'
  BY DEF IInv, Device
<1>3. Lock'
  BY DEF IInv, Lock, Device
<1>4. Recorded' /\ ChipHasCommandedGain'
  \* Nobody is in a write while m_rx_phy is not published.
  BY DEF IInv, Device, Lock, Recorded, ChipHasCommandedGain
<1>5. QED
  BY <1>1, <1>2, <1>3, <1>4 DEF IInv

LEMMA IteratePreserves ==
  ASSUME IInv, Iterate
  PROVE  IInv'
<1> USE DEF Iterate, BlockDown, BlockUp, WarmUp, Law, Rest, law, source
<1>1. TypeOK'
  <2>1. agcGain' \in Gains
    BY LawRange DEF IInv, TypeOK
  <2>2. Later \in 0 .. Interval
    BY DEF IInv, TypeOK, Later
  <2>3. QED
    BY <2>1, <2>2 DEF IInv, TypeOK
<1>2. Device' /\ Lock' /\ Recorded' /\ ChipHasCommandedGain'
  BY DEF IInv, Device, Lock, Recorded, ChipHasCommandedGain
<1>3. QED
  BY <1>1, <1>2 DEF IInv

LEMMA SetGainPreserves ==
  ASSUME IInv, SetGain
  PROVE  IInv'
<1> USE DEF SetGain, TryOk, TryDrop, Write, WriteFails, Store, law, source
<1>1. TypeOK'
  BY DEF IInv, TypeOK
<1>2. Device'
  BY DEF IInv, Device
<1>3. Lock'
  \* No poller is the loop, so the lock it takes is nobody's.
  BY DEF IInv, TypeOK, Lock
<1>4. Recorded' /\ ChipHasCommandedGain'
  BY DEF IInv, Device, Lock, Recorded, ChipHasCommandedGain
<1>5. QED
  BY <1>1, <1>2, <1>3, <1>4 DEF IInv

LEMMA PollerPreserves ==
  ASSUME IInv, NEW p \in Pollers, ReadStart(p) \/ ReadEnd(p)
  PROVE  IInv'
<1> USE DEF ReadStart, ReadEnd, law, source
<1>1. TypeOK' /\ Device'
  BY DEF IInv, TypeOK, Device
<1>2. Lock'
  BY DEF IInv, TypeOK, Lock
<1>3. Recorded' /\ ChipHasCommandedGain'
  BY DEF IInv, Recorded, ChipHasCommandedGain
<1>4. QED
  BY <1>1, <1>2, <1>3 DEF IInv

\* The inductive invariant holds in every reachable state.
THEOREM Invariance == Spec => []IInv
<1>1. IInv /\ [Next]_vars => IInv'
  <2> SUFFICES ASSUME IInv, [Next]_vars PROVE IInv'
    OBVIOUS
  <2>1. CASE UNCHANGED vars
    BY <2>1 DEF IInv, TypeOK, Device, Lock, Recorded, ChipHasCommandedGain,
                vars, source, law
  <2>2. QED
    BY <2>1, ReaderPreserves, IteratePreserves, SetGainPreserves, PollerPreserves DEF Next
<1>2. QED
  BY InitOK, <1>1, PTL DEF Spec

\* Type correctness: whatever the signal does, no gain asked for, recorded or
\* written leaves the range of the configuration.
THEOREM TypeCorrect == Spec => []TypeOK
<1>1. IInv => TypeOK
  BY DEF IInv
<1>2. QED
  BY Invariance, <1>1, PTL

\* The channel is never used after its context has been destroyed.
THEOREM ChannelIsAlive == Spec => []NoUseAfterFree
<1>1. IInv => NoUseAfterFree
  BY DEF IInv, Device, Lock, NoUseAfterFree, TypeOK
<1>2. QED
  BY Invariance, <1>1, PTL

\* A reconnect seeds the chip with the last gain that was written to it.
THEOREM ReconnectKeepsGain == Spec => []ChipHasCommandedGain
<1>1. IInv => ChipHasCommandedGain
  BY DEF IInv
<1>2. QED
  BY Invariance, <1>1, PTL

\* The guards of set_hardware_gain()'s actions.  That it is enabled where one of
\* them holds is a hypothesis of what follows: the provers do not look inside
\* ENABLED.
SetGainGuards ==
  \/ loop = "try" /\ holder = NoOne /\ rxPhy
  \/ loop = "try" /\ (holder # NoOne \/ ~rxPhy)
  \/ loop = "write"
  \/ loop = "store"

SetGainCanStep == SetGainGuards => ENABLED <<SetGain>>_vars

\* A try is over in three steps of the loop's own: whoever holds the phy channel
\* and wherever the reconnect is, the loop waits for neither.
THEOREM GainWriteReturns == Spec /\ []SetGainCanStep => LoopNeverBlocks
<1> USE DEF SetGain, TryOk, TryDrop, Write, WriteFails, Store
<1>1. ASSUME [Next]_vars, loop \in {"try", "write", "store"}
      PROVE  SetGain \/ loop' = loop
  BY <1>1 DEF Next, Reader, LoseLink, Retire, Destroy, Open, Seed, OpenFails, Publish, LinkUp,
     Goto, Iterate, BlockDown, BlockUp, WarmUp, Law, Rest, ReadStart, ReadEnd, vars
<1>2. /\ loop = "try" => SetGainGuards
      /\ loop = "try" /\ [Next]_vars =>
           (loop = "try")' \/ (loop = "write")' \/ (loop = "rest")'
      /\ loop = "try" /\ <<SetGain>>_vars => (loop = "write")' \/ (loop = "rest")'
  BY <1>1 DEF SetGainGuards
<1>3. /\ loop = "write" => SetGainGuards
      /\ loop = "write" /\ [Next]_vars =>
           (loop = "write")' \/ (loop = "store")' \/ (loop = "rest")'
      /\ loop = "write" /\ <<SetGain>>_vars => (loop = "store")' \/ (loop = "rest")'
  BY <1>1 DEF SetGainGuards
<1>4. /\ loop = "store" => SetGainGuards
      /\ loop = "store" /\ [Next]_vars => (loop = "store")' \/ (loop = "rest")'
      /\ loop = "store" /\ <<SetGain>>_vars => (loop = "rest")'
  BY <1>1 DEF SetGainGuards
<1>5. QED
  BY <1>2, <1>3, <1>4, PTL DEF Spec, SetGainCanStep, LoopNeverBlocks
=============================================================================

----------------------------- MODULE RdsDecoder -----------------------------
(***************************************************************************)
(* The digital half of RdsDecoder (src/rx/src/rds_decoder.hpp): the 26-bit *)
(* block synchroniser, the group parser and the texts it publishes, fed    *)
(* with the bits of a station whose reception has errors, slips of the bit *)
(* clock, false matches and long fades.                                    *)
(*                                                                         *)
(* A bit is what match_offset(syndrome(m_reg)) makes of the register after *)
(* it: an offset index, or -1.  The demodulator before it is numeric.  The *)
(* identity, the flags and the health figures a group also brings are left *)
(* out: the last good block decides each of them.                          *)
(*                                                                         *)
(* It is part of the chain that StationControl controls; the two have no   *)
(* name in common, so that one module can extend both.                     *)
(***************************************************************************)
EXTENDS RdsCode, Integers, FiniteSets

CONSTANTS
  BlockBits,    \* 26 bits of a block
  kMaxBadBlocks,\* 12 bad blocks in a row before sync is dropped
  StaleBits,    \* the bits of 5 s: a loss of sync longer than this is a retune
  NameLen,      \* 8 characters of PS and PTYN
  TextLen,      \* 64 characters of RadioText
  kRtRevealMinChars, \* 12
  Programmes    \* what stations send, and how well it is received:
                \* records [gt, ver, msgs, may], `may` the bounds on mishaps

kRtRevealNum == 3
kRtRevealDen == 4
GroupBits == 4 * BlockBits
SP == " "
CR == "\r"
None == "none"
NoClock == [mjd |-> 0]
(* The data of a block received wrong; a false match is of no known group. *)
Junk == [gt |-> 15, ver |-> 0, ab |-> 0, seg |-> 0, c |-> <<>>, d |-> <<>>]

VARIABLES
  air,          \* the station: programme, message, A/B flag, segment, place in the
                \* group, whether the block so far is intact, whether the signal fades
  may,          \* how many errors, slips, fades, false matches, changes are left
  m_state, m_acq, m_blockpos, m_bit_since, m_bad_run, m_blk, m_blk_ok,
  gone,         \* bits since m_unlock_sample, or -1
  m_ps, m_ptyn, \* records [raw, cand, pub]; raw is None where m_ps_seen is 0
  m_rt,         \* record [bank, cand, pub]; a bank maps the seen indices
  m_ct_iso,
  heard,        \* history: messages sent since the last clean start
  sent          \* history: messages sent

sync == <<m_state, m_acq, m_blockpos, m_bit_since, m_bad_run, m_blk, m_blk_ok, gone>>
texts == <<m_ps, m_ptyn, m_rt, m_ct_iso>>
decoderVars == <<air, may, sync, texts, heard, sent>>

EmptyName == [raw |-> [i \in 1..NameLen |-> None], cand |-> <<>>, pub |-> <<>>]
EmptyBank == [i \in {} |-> SP]
EmptyText == [bank |-> [ab \in 0..1 |-> EmptyBank], cand |-> <<>>, pub |-> <<>>]

---------------------------------------------------------------------------
(* Groups.  A group is [gt, ver, ab, seg, c, d]: its type, version, A/B    *)
(* flag, segment, and what blocks C and D carry.                           *)

Chars(msg, at, n) == SubSeq(msg, at + 1, at + n)

(* Characters per segment: 0A two in D; 10A and 2A two in C, two in D; 2B two in D. *)
PerSeg(gt, ver) == IF gt \in {2, 10} /\ ver = 0 THEN 4 ELSE 2

GroupOf(p, msg, ab, seg) ==
  LET n == PerSeg(p.gt, p.ver)
      text == Chars(msg, seg * n, n)
      data == CASE p.gt \in {0, 2, 10} -> [c |-> IF n = 4 THEN Chars(text, 0, 2) ELSE <<>>,
                                           d |-> Chars(text, n - 2, 2)]
                [] OTHER               -> [c |-> msg, d |-> msg]
  IN  [gt |-> p.gt, ver |-> p.ver, ab |-> ab, seg |-> seg, c |-> data.c, d |-> data.d]

Segments(p, msg) == IF p.gt \in {0, 2, 10} THEN Len(msg) \div PerSeg(p.gt, p.ver) ELSE 2

Group == GroupOf(air.prog, air.msg, air.ab, air.seg)

(* A block has bits to count; a station's messages fill their segments, in *)
(* groups of a type other than the one that stands for noise.  A name has  *)
(* its length, a text no more than its own, and a clock has a day.         *)
Mishaps == [errors : Nat, slips : Nat, fades : Nat, false : Nat, changes : Nat]
ASSUME RdsDecoderAssumption ==
  /\ BlockBits \in Nat \ {0, 1}
  /\ kMaxBadBlocks \in Nat /\ NameLen \in Nat /\ TextLen \in Nat
  /\ \A p \in Programmes :
       /\ p.gt \in 0..14 /\ p.ver \in 0..1 /\ p.may \in Mishaps
       /\ \A msg \in p.msgs :
            /\ Segments(p, msg) \in Nat \ {0}
            /\ p.gt \in {0, 2, 10} => msg \in Seq(STRING)
            /\ p.gt \in {0, 10} => Len(msg) = NameLen
            /\ p.gt = 2 => Len(msg) <= TextLen
            /\ p.gt = 4 => msg.mjd \in Nat
---------------------------------------------------------------------------
(* The texts. *)

sanitize(c) == IF c = CR THEN SP ELSE c

rstrip(s) ==
  LET ink == {i \in DOMAIN s : s[i] # SP}
  IN  SubSeq(s, 1, IF ink = {} THEN 0 ELSE Max(ink))

\* Mutant: the name is a candidate before every place has been received.
put_name_partial(n, idx, ch) ==
  LET raw  == [n.raw EXCEPT ![idx + 1] = sanitize(ch)]
      cand == rstrip(raw)
  IN  [raw |-> raw, cand |-> cand, pub |-> IF cand = n.cand THEN cand ELSE n.pub]

(* put_ps(), and put_ptyn() on its own buffers: one character, and every one *)
(* renews the candidate.                                                     *)
put_name(n, idx, ch) ==
  LET raw  == [n.raw EXCEPT ![idx + 1] = sanitize(ch)]
      cand == rstrip(raw)
      full == \A i \in DOMAIN raw : raw[i] # None
  IN  [raw  |-> raw,
       cand |-> IF full THEN cand ELSE n.cand,
       pub  |-> IF full /\ cand = n.cand THEN cand ELSE n.pub]

(* A bank with one more character; one that differs starts the bank anew. *)
Stored(held, idx, ch) ==
  LET kept == IF idx \in DOMAIN held /\ held[idx] # ch THEN EmptyBank ELSE held
  IN  [i \in DOMAIN kept \cup {idx} |-> IF i = idx THEN ch ELSE kept[i]]

(* How long the text is, how much of it is there from its start, and that. *)
Extent(bank) ==
  LET ends == {i \in DOMAIN bank : bank[i] = CR}
  IN  IF ends = {} THEN TextLen ELSE Min(ends)
Prefix(bank) ==
  CHOOSE k \in 0..Extent(bank) : /\ 0..(k - 1) \subseteq DOMAIN bank
                                 /\ k = Extent(bank) \/ k \notin DOMAIN bank
Reading(bank) == rstrip([i \in 1..Prefix(bank) |-> sanitize(bank[i - 1])])

put_rt(rt, ab, idx, ch) ==
  LET bank   == Stored(rt.bank[ab], idx, ch)
      len    == Extent(bank)
      prefix == Prefix(bank)
      cand   == Reading(bank)
      whole  == prefix = len
      reveal == /\ prefix >= kRtRevealMinChars
                /\ prefix * kRtRevealDen >= len * kRtRevealNum
                /\ Len(cand) > Len(rt.pub)
  IN  [bank |-> [rt.bank EXCEPT ![ab] = bank],
       cand |-> IF whole THEN cand ELSE rt.cand,
       pub  |-> IF IF whole THEN cand = rt.cand \/ rt.pub = <<>> ELSE reveal
                THEN cand ELSE rt.pub]

put_ps(n, idx, ch) == put_name(n, idx, ch)
put_ptyn(n, idx, ch) == put_name(n, idx, ch)

(* Two characters in a row, as every block carries them. *)
PsPair(n, at, pair) == put_ps(put_ps(n, at, pair[1]), at + 1, pair[2])
PtynPair(n, at, pair) == put_ptyn(put_ptyn(n, at, pair[1]), at + 1, pair[2])
TextPair(rt, ab, at, pair) == put_rt(put_rt(rt, ab, at, pair[1]), ab, at + 1, pair[2])

(* MJD to Gregorian, in integers: x / 365.25 is 100x \div YearLen, and so on. *)
FirstDay == 15079
YearLen == 36525
MonthLen == 306001
DateOf(mjd) ==
  LET yp    == (100 * (mjd - 15078) - 20) \div YearLen
      days  == (yp * YearLen) \div 100
      mp    == (10000 * (mjd - 14956 - days) - 1000) \div MonthLen
      k     == IF mp \in {14, 15} THEN 1 ELSE 0
  IN  [year |-> yp + k + 1900, month |-> mp - 1 - 12 * k,
       day |-> mjd - 14956 - days - (mp * MonthLen) \div 10000]
parse_ct(old, c) ==
  LET date == DateOf(c.mjd)
  IN  IF \/ c.hour > 23 \/ c.minute > 59 \/ c.mjd < FirstDay
         \/ date.month \notin 1..12 \/ date.day \notin 1..31
      THEN old
      ELSE [year |-> date.year, month |-> date.month, day |-> date.day,
            hour |-> c.hour, minute |-> c.minute]

(* on_group() on the four blocks received: header in B, text in C and D. *)
on_group(blk, ok) ==
  LET h == blk[1]
      Is(gt) == ok[1] /\ h.gt = gt
  IN  /\ m_ps' = IF Is(0) /\ ok[3] THEN PsPair(m_ps, 2 * h.seg, blk[3].d) ELSE m_ps
      /\ m_ptyn' = IF ~(Is(10) /\ h.ver = 0) THEN m_ptyn
                   ELSE LET first == IF ok[2] THEN PtynPair(m_ptyn, 4 * h.seg, blk[2].c)
                                            ELSE m_ptyn
                        IN  IF ok[3] THEN PtynPair(first, 4 * h.seg + 2, blk[3].d) ELSE first
      /\ m_rt' = IF ~Is(2) THEN m_rt
                 ELSE IF h.ver = 1
                 THEN IF ok[3] THEN TextPair(m_rt, h.ab, 2 * h.seg, blk[3].d) ELSE m_rt
                 ELSE LET first == IF ok[2] THEN TextPair(m_rt, h.ab, 4 * h.seg, blk[2].c)
                                            ELSE m_rt
                      IN  IF ok[3] THEN TextPair(first, h.ab, 4 * h.seg + 2, blk[3].d)
                                   ELSE first
      /\ m_ct_iso' = IF Is(4) /\ h.ver = 0 /\ ok[2] /\ ok[3]
                     THEN parse_ct(m_ct_iso, blk[2].c) ELSE m_ct_iso
---------------------------------------------------------------------------
(* The synchroniser: block_sync_push() after the bit is in the register.   *)
(* `oi` is the match of the register, `data` the block in its top bits.    *)

\* Mutant: a match is forgotten before a group has gone by.
WindowShort == 3 * BlockBits - 1

Window == 5 * BlockBits                          \* 130
Older == Window + 1                              \* bound: an age past the window

(* m_acq holds [oi, age]; an entry past the window goes when the next match comes. *)
Aged == {[m EXCEPT !.age = Min({m.age + 1, Older})] : m \in m_acq}
Matches(oi) ==
  IF oi < 0 THEN Aged ELSE {m \in Aged : m.age <= Window} \cup {[oi |-> oi, age |-> 0]}

has(acq, pos, age) == \E m \in acq : m.age = age /\ kOffsetPos[m.oi + 1] = pos

\* Mutant: three blocks are enough.
AnchoredLoosely(acq) == has(acq, 2, BlockBits) /\ has(acq, 1, 2 * BlockBits)

Anchored(acq) == /\ has(acq, 2, BlockBits)
                 /\ has(acq, 1, 2 * BlockBits)
                 /\ has(acq, 0, 3 * BlockBits)

Elapsed == IF gone < 0 THEN gone ELSE Min({gone + 1, StaleBits + 1})

(* try_lock(): after a long silence the texts start clean. *)
Lock ==
  /\ m_state' = "Sync"
  /\ m_acq' = {} /\ m_blockpos' = 0 /\ m_bit_since' = 0 /\ m_bad_run' = 0
  /\ gone' = -1
  /\ IF Elapsed > StaleBits
     THEN /\ m_ps' = [m_ps EXCEPT !.cand = <<>>, !.pub = <<>>]
          /\ m_rt' = EmptyText
          /\ heard' = {air'.msg}
     ELSE UNCHANGED <<m_ps, m_rt>> /\ heard' = heard \cup {air'.msg}
  /\ UNCHANGED <<m_blk, m_blk_ok, m_ptyn, m_ct_iso>>

Acquire(oi) ==
  /\ m_state = "Acquire"
  /\ IF oi = 4 /\ Anchored(Matches(oi))
     THEN Lock
     ELSE /\ m_acq' = Matches(oi)
          /\ gone' = Elapsed
          /\ heard' = heard \cup {air'.msg}
          /\ UNCHANGED <<m_state, m_blockpos, m_bit_since, m_bad_run, m_blk, m_blk_ok, texts>>

\* Mutant: a bad block leaves its slot as the last group filled it.
FiledIfOk(pos, ok, data) ==
  IF ok THEN [blk |-> [m_blk EXCEPT ![pos] = data], ok |-> [m_blk_ok EXCEPT ![pos] = TRUE]]
        ELSE [blk |-> m_blk, ok |-> m_blk_ok]

Filed(pos, ok, data) ==
  [blk |-> [m_blk EXCEPT ![pos] = IF ok THEN data ELSE Junk],
   ok  |-> [m_blk_ok EXCEPT ![pos] = ok]]

Accepts(pos, oi) == IF pos = 2 THEN oi \in {2, 3} ELSE oi = IF pos = 3 THEN 4 ELSE pos

Track(oi, data) ==
  LET pos == m_blockpos
      ok  == Accepts(pos, oi)
      bad == IF ok THEN 0 ELSE m_bad_run + 1
      new == Filed(pos, ok, data)
  IN  /\ m_state = "Sync"
      /\ heard' = heard \cup {air'.msg}
      /\ UNCHANGED m_acq
      /\ IF m_bit_since + 1 < BlockBits
         THEN /\ m_bit_since' = m_bit_since + 1
              /\ UNCHANGED <<m_state, m_blockpos, m_bad_run, m_blk, m_blk_ok, gone, texts>>
         ELSE /\ m_bit_since' = 0
              /\ m_blk' = new.blk /\ m_blk_ok' = new.ok
              /\ IF bad > kMaxBadBlocks
                 THEN /\ m_state' = "Acquire" /\ gone' = 0
                      /\ m_bad_run' = bad
                      /\ UNCHANGED <<m_blockpos, texts>>
                 ELSE /\ m_bad_run' = bad
                      /\ m_blockpos' = (pos + 1) % 4
                      /\ IF pos = 3 THEN on_group(new.blk, new.ok) ELSE UNCHANGED texts
                      /\ UNCHANGED <<m_state, gone>>

block_sync_push(oi, data) == Acquire(oi) \/ Track(oi, data)
---------------------------------------------------------------------------
(* The air.  `adv` bits of the station go by while one is received: 1, or  *)
(* 0 or 2 when the bit clock slips inside a block.                         *)

Boundary(adv) == (air.phase + adv) % BlockBits = 0 /\ adv > 0
Offset(k, ver) == CASE k = 2 /\ ver = 1 -> 3 [] k = 3 -> 4 [] OTHER -> k

(* After the last bit of a group the station goes on to its next segment,  *)
(* or to a new message; `left` is what may still go wrong.                 *)
Advance(adv, good, left) ==
  LET phase == (air.phase + adv) % GroupBits
      moved == [air EXCEPT !.phase = phase,
                           !.intact = Boundary(adv) \/ (air.intact /\ good)]
      ends  == phase = 0 /\ adv > 0
  IN  \/ /\ air' = IF ends THEN [moved EXCEPT !.seg = (@ + 1) % Segments(air.prog, air.msg)]
                            ELSE moved
         /\ may' = left
      \/ /\ ends /\ left.changes > 0
         /\ \E msg \in air.prog.msgs \ {air.msg}, ab \in 0..1 :
              air' = [moved EXCEPT !.seg = 0, !.msg = msg, !.ab = ab]
         /\ may' = [left EXCEPT !.changes = @ - 1]

(* One bit: a whole block that arrived intact matches its offset word. *)
Receive(adv, good, left) ==
  LET k   == ((air.phase + adv) \div BlockBits) - 1
      hit == Boundary(adv) /\ air.intact /\ good /\ ~air.faded
  IN  /\ Advance(adv, good, left)
      /\ sent' = sent \cup {air'.msg}
      /\ block_sync_push(IF hit THEN Offset(k, air.prog.ver) ELSE -1, Group)

Clean == Receive(1, TRUE, may)

Error == /\ may.errors > 0 /\ ~air.faded /\ air.intact
         /\ Receive(1, FALSE, [may EXCEPT !.errors = @ - 1])

Slip == /\ may.slips > 0
        /\ \E adv \in {0, 2} :
             /\ (air.phase % BlockBits) + adv <= BlockBits
             /\ Receive(adv, FALSE, [may EXCEPT !.slips = @ - 1])

(* Noise or data that happens to look like a block. *)
FalseMatch ==
  /\ may.false > 0
  /\ ~(Boundary(1) /\ air.intact /\ ~air.faded)
  /\ Advance(1, TRUE, [may EXCEPT !.false = @ - 1])
  /\ sent' = sent \cup {air'.msg}
  /\ \E oi \in 0..4 : block_sync_push(oi, Junk)

FadeBegins == /\ may.fades > 0 /\ ~air.faded
              /\ air' = [air EXCEPT !.faded = TRUE, !.intact = FALSE]
              /\ may' = [may EXCEPT !.fades = @ - 1]
              /\ UNCHANGED <<sync, texts, heard, sent>>
FadeEnds == /\ air.faded
            /\ air' = [air EXCEPT !.faded = FALSE, !.intact = FALSE]
            /\ UNCHANGED <<may, sync, texts, heard, sent>>

DecoderInit ==
  /\ \E p \in Programmes : \E msg \in p.msgs :
       /\ air = [prog |-> p, msg |-> msg, ab |-> 0, seg |-> 0, phase |-> 0,
                 intact |-> TRUE, faded |-> FALSE]
       /\ may = p.may /\ heard = {msg} /\ sent = {msg}
  /\ m_state = "Acquire" /\ m_acq = {} /\ m_blockpos = 0 /\ m_bit_since = 0
  /\ m_bad_run = 0 /\ m_blk = [k \in 0..3 |-> Junk] /\ m_blk_ok = [k \in 0..3 |-> FALSE]
  /\ gone = -1
  /\ m_ps = EmptyName /\ m_ptyn = EmptyName /\ m_rt = EmptyText /\ m_ct_iso = NoClock

DecoderNext == Clean \/ Error \/ Slip \/ FalseMatch \/ FadeBegins \/ FadeEnds

(* The bit clock never stops, so the station's groups go by, and a fade ends. *)
Fairness == /\ []<>(air.phase = 0) /\ []<>(air.phase # 0)
            /\ WF_decoderVars(FadeEnds)
DecoderSpec == DecoderInit /\ [][DecoderNext]_decoderVars /\ Fairness
---------------------------------------------------------------------------
(* snapshot(), as the status port shows it. *)
snapshot ==
  LET stale == gone > StaleBits
  IN  [lock |-> m_state = "Sync",
       ps   |-> IF stale THEN <<>> ELSE m_ps.pub,
       rt   |-> IF stale THEN <<>> ELSE m_rt.pub,
       ptyn |-> m_ptyn.pub, ct_iso |-> m_ct_iso]

(* The group in the air and the one being assembled are the same. *)
Synced == /\ m_state = "Sync"
          /\ m_blockpos * BlockBits + m_bit_since = air.phase

(* Neither slips nor fewer than four chance matches make the decoder lock  *)
(* where no group ends: try_lock() wants A, B, C and D, each at its own    *)
(* distance.  (A slip in block D and one chance match can.)                *)
Unused(mishap) == may[mishap] = air.prog.may[mishap]
LockIsTrue ==
  [][/\ m_state = "Acquire" /\ m_state' = "Sync"
     /\ Unused("slips")' \/ Unused("false")'
     => air'.phase = 0]_decoderVars

(* Four clean blocks that are parsed as one group were sent as one group,  *)
(* whatever slips, fades and losses of sync came before: m_blk keeps data  *)
(* of earlier groups, and of earlier locks.                                *)
GroupsAreWhole ==
  (/\ m_blockpos = 0 /\ \A k \in 0..3 : m_blk_ok[k]
   /\ Unused("false"))
    => \A k \in 0..3 : m_blk[k] = m_blk[0] /\ m_blk[k] # Junk

(* What a message reads as on the page. *)
Text(msg) ==
  LET ends == {i \in DOMAIN msg : msg[i] = CR}
      text == IF air.prog.gt = 2 /\ ends # {} THEN SubSeq(msg, 1, Min(ends) - 1) ELSE msg
  IN  rstrip([i \in DOMAIN text |-> sanitize(text[i])])

Shown == CASE air.prog.gt = 0  -> snapshot.ps
           [] air.prog.gt = 10 -> snapshot.ptyn
           [] air.prog.gt = 2  -> snapshot.rt
           [] OTHER            -> <<>>

(* However it is received, a station that has sent one message only is     *)
(* shown with that message or none; RadioText, with a part from its start. *)
Parts(text) == {rstrip(SubSeq(text, 1, n)) : n \in 0..Len(text)}
OneMessage ==
  (air.prog.gt \in {0, 2, 10} /\ sent = {air.msg}) =>
    Shown \in {<<>>} \cup IF air.prog.gt = 2 THEN Parts(Text(air.msg)) ELSE {Text(air.msg)}

(* Every character of RadioText shown was sent at its place since the last *)
(* clean start: nothing of a station lost for longer than 5 s comes back.  *)
TextStartsClean ==
  air.prog.gt = 2 => \A i \in DOMAIN snapshot.rt :
                       \E msg \in heard : snapshot.rt[i] = sanitize(msg[i])

(* The clock time shown is that of a group sent, and its date is the one   *)
(* of the calendar: as many days have gone by as the Julian day says.      *)
Leap(y) == y % 4 = 0 /\ (y % 100 # 0 \/ y % 400 = 0)
MonthDays(y, m) == CASE m = 2 -> IF Leap(y) THEN 29 ELSE 28
                     [] m \in {4, 6, 9, 11} -> 30
                     [] OTHER -> 31
DaysBefore == <<0, 31, 59, 90, 120, 151, 181, 212, 243, 273, 304, 334>>
DayNumber(t) ==
  LET y == t.year - 1
  IN  365 * y + (y \div 4) - (y \div 100) + (y \div 400) - 678576 + t.day
      + DaysBefore[t.month] + IF t.month > 2 /\ Leap(t.year) THEN 1 ELSE 0
ClockIsTrue ==
  m_ct_iso # NoClock =>
    /\ m_ct_iso.day \in 1..MonthDays(m_ct_iso.year, m_ct_iso.month)
    /\ \E c \in sent : /\ c.mjd = DayNumber(m_ct_iso)
                       /\ c.hour = m_ct_iso.hour /\ c.minute = m_ct_iso.minute

(* What the status port shows was sent: errors, slips, losses of sync and  *)
(* returns after a silence never make it show anything else.               *)
ShownIsSent == OneMessage /\ TextStartsClean /\ ClockIsTrue

(* Once mishaps end, sync is found again and the message is shown.         *)
Arrives ==
  <>[](Synced /\ (air.prog.gt \in {0, 2, 10} => Shown = Text(air.msg)))

(* A block is matched by its own offset word only, and no burst of up to   *)
(* ten bits makes the block now in the air be taken for a good one, except *)
(* that for block C, where C and C' are both accepted, five bits may.      *)
Sample == {Bits(d, 16) : d \in {2^k : k \in 0..15} \cup {0, 65535, 43981}}
Bursts == {Bits(1, 1)} \cup UNION {{<<1>> \o Bits(k, n) \o <<1>> : k \in 0..(2^n - 1)} : n \in 0..8}
Mismatched == {i \in DOMAIN kOffsets : \E d \in Sample :
                 LET b == make_block(d, kOffsets[i])
                 IN  match_offset(syndrome(b)) # i - 1 \/ syndrome(b) # LongDivision(b)}
Undetected ==
  [pos \in 0..3 |->
     {e \in Bursts : \E at \in 1..(27 - Len(e)), i \in DOMAIN kOffsets :
        /\ kOffsetPos[i] = pos
        /\ Accepts(pos, match_offset(Xor(syndrome(Burst(e, at)), Bits(kOffsets[i], 10))))}]
CodeDetects ==
  LET pos == air.phase \div BlockBits
  IN  /\ \A i \in DOMAIN kOffsets : kOffsetPos[i] = pos => i \notin Mismatched
      /\ \A e \in Undetected[pos] : pos = 2 /\ Len(e) >= 5
=============================================================================

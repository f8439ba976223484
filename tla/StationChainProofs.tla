------------------------- MODULE StationChainProofs -------------------------
(***************************************************************************)
(* The chain of one station, for every value of the constants.             *)
(*                                                                         *)
(* StationControl: what closes the squelch and by when, and how much noise *)
(* the AFC can follow, for every hang, block length and sequence of        *)
(* signals.                                                                *)
(*                                                                         *)
(* RdsDecoder: a lock is where a group of the station's ends, and a group  *)
(* parsed is one group sent, for every length of a block and every number  *)
(* of errors, slips and fades; so no text is shown that was not sent.      *)
(***************************************************************************)
EXTENDS StationControl, RdsDecoder, FiniteSetTheorems, WellFoundedInduction, TLAPS

-----------------------------------------------------------------------------
(* StationControl.                                                         *)

\* The hang left and the dead samples account for one another: what is gone of
\* the hang has been spent on dead samples, and the AFC has followed no more.
Accounts == plan.squelch => hangLeft + dead >= Hang /\ pulled + hangLeft <= Hang

Inv == TypeOK /\ Accounts

\* The bound of the accounts.
LEMMA CapType == Cap \in Nat /\ Cap = Hang + BlockLen
  BY StationControlAssumption DEF Cap

\* A new chain has its whole hang.
LEMMA InitInv == Init => Inv
<1> SUFFICES ASSUME Init PROVE Inv
  OBVIOUS
<1>1. sqOpen \in BOOLEAN /\ idle \in BOOLEAN /\ plan \in Plans /\ signal \in Signals
  BY Zenon DEF Init
<1>2. hangLeft = Hang /\ dead = 0 /\ pulled = 0
  BY DEF Init
<1>3. hangLeft \in (1 - BlockLen) .. Hang /\ dead \in 0 .. Cap /\ pulled \in 0 .. Cap
  BY <1>2, StationControlAssumption, CapType
<1>4. Accounts
  BY <1>2, StationControlAssumption DEF Accounts
<1> QED
  BY <1>1, <1>3, <1>4 DEF Inv, TypeOK

\* A block that opens the squelch is not dead.
LEMMA NotBoth == \A s \in Signals : ~(Opens(s) /\ IsDead(s))
  BY StationControlAssumption DEF Opens, IsDead, Hysteresis

\* What a block does to the squelch, by its kind.
LEMMA SquelchCases ==
  ASSUME Inv, NEW s \in Signals, Squelch(s)
  PROVE  \/ ~plan.squelch /\ sqOpen' = sqOpen /\ hangLeft' = hangLeft
         \/ plan.squelch /\ Opens(s) /\ sqOpen' = TRUE /\ hangLeft' = Hang
         \/ plan.squelch /\ IsDead(s) /\ ~Opens(s) /\ hangLeft > 0
              /\ hangLeft' = hangLeft - BlockLen /\ sqOpen' = sqOpen
         \/ plan.squelch /\ IsDead(s) /\ ~Opens(s) /\ hangLeft <= 0
              /\ sqOpen' = FALSE /\ hangLeft' = hangLeft
         \/ plan.squelch /\ ~Opens(s) /\ ~IsDead(s) /\ sqOpen' = sqOpen /\ hangLeft' = hangLeft
<1>1. hangLeft > 0 \/ hangLeft <= 0
  BY StationControlAssumption DEF Inv, TypeOK
<1>2. ~(Opens(s) /\ IsDead(s)) /\ ~(hangLeft > 0 /\ hangLeft <= 0)
  BY NotBoth, StationControlAssumption DEF Inv, TypeOK
<1>3. CASE ~plan.squelch
  BY <1>3, Zenon DEF Squelch, squelch
<1>4. CASE plan.squelch /\ Opens(s)
  BY <1>2, <1>4, Zenon DEF Squelch, squelch
<1>5. CASE plan.squelch /\ ~Opens(s) /\ IsDead(s) /\ hangLeft > 0
  BY <1>2, <1>5, Zenon DEF Squelch, squelch
<1>6. CASE plan.squelch /\ ~Opens(s) /\ IsDead(s) /\ hangLeft <= 0
  BY <1>2, <1>6, Zenon DEF Squelch, squelch
<1>7. CASE plan.squelch /\ ~Opens(s) /\ ~IsDead(s)
  BY <1>7, Zenon DEF Squelch, squelch
<1> QED
  BY <1>1, <1>3, <1>4, <1>5, <1>6, <1>7, Zenon

\* What a block does to the counts of the properties.
LEMMA AccountCases ==
  ASSUME Inv, NEW s \in Signals, Account(s)
  PROVE  /\ Opens(s) => dead' = 0 /\ pulled' = 0
         /\ IsDead(s) => /\ dead' = Least(dead + BlockLen, Cap)
                         /\ AfcFollows => pulled' = Least(pulled + BlockLen, Cap)
                         /\ ~AfcFollows => pulled' = pulled
         /\ ~Opens(s) /\ ~IsDead(s) => dead' = dead /\ pulled' = pulled
<1>1. ~(Opens(s) /\ IsDead(s))
  BY NotBoth
<1>2. CASE Opens(s)
  BY <1>1, <1>2, Zenon DEF Account
<1>3. CASE IsDead(s) /\ AfcFollows
  BY <1>1, <1>3, Zenon DEF Account
<1>4. CASE IsDead(s) /\ ~AfcFollows
  BY <1>1, <1>4, Zenon DEF Account
<1>5. CASE ~Opens(s) /\ ~IsDead(s)
  BY <1>5, Zenon DEF Account
<1> QED
  BY <1>1, <1>2, <1>3, <1>4, <1>5, Zenon

\* What is spent of h may be given to p.
LEMMA HangSpent ==
  ASSUME NEW p \in Int, NEW q \in Int, NEW h \in Int, NEW g, NEW n \in Int, NEW m \in Int,
         p + h <= m, q <= p + n, g = h - n
  PROVE  q + g <= m
  OBVIOUS

\* A block keeps the invariant.
LEMMA ProcessInv ==
  ASSUME Inv, NEW s \in Signals, Process(s)
  PROVE  Inv'
<1>1. /\ plan' = plan /\ signal' = s /\ idle' = FALSE
      /\ Squelch(s) /\ Account(s)
  BY Zenon DEF Process
<1>2. /\ hangLeft \in (1 - BlockLen) .. Hang /\ dead \in 0 .. Cap /\ pulled \in 0 .. Cap
      /\ plan.squelch => hangLeft + dead >= Hang /\ pulled + hangLeft <= Hang
  BY DEF Inv, TypeOK, Accounts
<1>3. sqOpen' \in BOOLEAN
  BY <1>1, SquelchCases, Zenon DEF Inv, TypeOK
<1>4. Least(dead + BlockLen, Cap) \in 0 .. Cap /\ Least(pulled + BlockLen, Cap) \in 0 .. Cap
  BY <1>2, CapType, StationControlAssumption DEF Least
<1>5. hangLeft' \in (1 - BlockLen) .. Hang
  <2>1. hangLeft' \in {hangLeft, Hang} \/ (hangLeft > 0 /\ hangLeft' = hangLeft - BlockLen)
    BY <1>1, SquelchCases, Zenon
  <2> QED
    BY <2>1, <1>2, StationControlAssumption
<1>6. dead' \in 0 .. Cap /\ pulled' \in 0 .. Cap
  <2>1. /\ dead' \in {0, dead, Least(dead + BlockLen, Cap)}
        /\ pulled' \in {0, pulled, Least(pulled + BlockLen, Cap)}
    BY <1>1, AccountCases, Zenon
  <2> QED
    BY <2>1, <1>2, <1>4, CapType
<1>7. ASSUME plan.squelch
      PROVE  hangLeft' + dead' >= Hang /\ pulled' + hangLeft' <= Hang
  <2>1. CASE Opens(s)
    <3>1. dead' = 0 /\ pulled' = 0 /\ hangLeft' = Hang
      BY <1>1, <1>7, <2>1, NotBoth, SquelchCases, AccountCases, Zenon
    <3> QED
      BY <3>1, StationControlAssumption
  <2>2. CASE ~Opens(s) /\ ~IsDead(s)
    <3>1. dead' = dead /\ pulled' = pulled /\ hangLeft' = hangLeft
      BY <1>1, <1>7, <2>2, SquelchCases, AccountCases, Zenon
    <3> QED
      BY <3>1, <1>2, <1>7
  <2>3. CASE ~Opens(s) /\ IsDead(s) /\ hangLeft > 0
    <3>1. ~(hangLeft <= 0)
      BY <1>2, <2>3, StationControlAssumption
    <3>2. /\ dead' = Least(dead + BlockLen, Cap) /\ hangLeft' = hangLeft - BlockLen
          /\ pulled' = pulled \/ pulled' = Least(pulled + BlockLen, Cap)
      BY <1>1, <1>7, <2>3, <3>1, SquelchCases, AccountCases, Zenon
    <3>3. pulled' <= pulled + BlockLen
      BY <3>2, <1>2, CapType, StationControlAssumption DEF Least
    <3>4. dead' = dead + BlockLen \/ dead' = Hang + BlockLen
      BY <3>2, <1>2, CapType, StationControlAssumption DEF Least
    <3>5. /\ hangLeft \in Int /\ dead \in Int /\ pulled \in Int /\ pulled' \in Int
          /\ BlockLen \in Int /\ Hang \in Int /\ hangLeft > 0
          /\ hangLeft + dead >= Hang /\ pulled + hangLeft <= Hang
      BY <1>2, <1>6, <1>7, <2>3, CapType, StationControlAssumption
    <3>6. hangLeft' + dead' >= Hang
      BY <3>2, <3>4, <3>5
    <3>7. pulled' + hangLeft' <= Hang
      BY <3>2, <3>3, <3>5, HangSpent
    <3> QED
      BY <3>6, <3>7
  <2>4. CASE ~Opens(s) /\ IsDead(s) /\ ~(hangLeft > 0)
    <3>1. sqOpen' = FALSE /\ hangLeft' = hangLeft /\ dead' = Least(dead + BlockLen, Cap)
      BY <1>1, <1>7, <2>4, SquelchCases, AccountCases, Zenon
    <3>2. pulled' = pulled
      BY <1>1, <2>4, <3>1, AccountCases, Zenon DEF AfcFollows
    <3> QED
      BY <3>1, <3>2, <1>2, <1>7, <2>4, CapType, StationControlAssumption DEF Least
  <2> QED
    BY <2>1, <2>2, <2>3, <2>4
<1>8. Accounts'
  BY <1>1, <1>7 DEF Accounts
<1> QED
  BY <1>1, <1>3, <1>5, <1>6, <1>8, Zenon DEF Inv, TypeOK

\* Every step keeps the invariant: an idle one changes none of it.
LEMMA StepInv == Inv /\ [Next]_vars => Inv'
<1> SUFFICES ASSUME Inv, [Next]_vars PROVE Inv'
  OBVIOUS
<1>1. CASE MarkIdle
  BY <1>1 DEF MarkIdle, chain, squelch, Inv, TypeOK, Accounts, Cap
<1>2. CASE \E s \in Signals : Process(s)
  BY <1>2, ProcessInv
<1>3. CASE UNCHANGED vars
  BY <1>3 DEF vars, chain, squelch, Inv, TypeOK, Accounts, Cap
<1> QED
  BY <1>1, <1>2, <1>3 DEF Next, Block

\* The accounts balance in every behaviour.
THEOREM Invariant == Spec => []Inv
  BY InitInv, StepInv, PTL DEF Spec

\* Every variable of the squelch and of the accounts stays in its range: the
\* hang left never goes further below zero than a block.
THEOREM TypeCorrect == Spec => []TypeOK
<1>1. Inv => TypeOK
  BY DEF Inv
<1> QED
  BY <1>1, Invariant, PTL

\* For every hang, block length and sequence of signals, the AFC follows less
\* noise than the hang and one block between two blocks that open the squelch.
THEOREM NoiseBounded == Spec => []NoiseNeverTunes
<1>1. Inv => NoiseNeverTunes
  BY CapType, StationControlAssumption DEF Inv, TypeOK, Accounts, NoiseNeverTunes
<1> QED
  BY <1>1, Invariant, PTL

\* What closes the squelch is a block whose hang is spent, and all of it on dead
\* samples.
LEMMA ClosingIsHonoured ==
  Inv /\ [Next]_vars => [sqOpen /\ ~sqOpen' => dead >= Hang]_vars
<1> SUFFICES ASSUME Inv, Next, sqOpen, ~sqOpen' PROVE dead >= Hang
  BY DEF vars
<1>1. PICK s \in Signals : Process(s)
  BY Zenon DEF Next, Block, MarkIdle, chain, squelch
<1>2. Squelch(s)
  BY <1>1, Zenon DEF Process
<1>3. plan.squelch /\ hangLeft <= 0
  BY <1>2, SquelchCases, Zenon
<1> QED
  BY <1>3, StationControlAssumption, CapType DEF Inv, TypeOK, Accounts

\* For every hang, block length and sequence of signals, idle blocks included,
\* the squelch closes only on a whole hang of dead samples.
THEOREM HangHonoured == Spec => HangIsHonoured
  BY Invariant, ClosingIsHonoured, PTL DEF Spec, HangIsHonoured

\* While the squelch is open, each dead sample since the last block that opened
\* it has been taken off the hang, and nothing else has.
Metered == plan.squelch /\ sqOpen => hangLeft + dead = Hang

\* The other side of HangIsHonoured: the hang runs out.  A squelch is open over
\* less than the hang and one block of dead samples.
NeverLingers == plan.squelch /\ sqOpen => dead < Hang + BlockLen

\* An open squelch has been charged less than its cap, so the count is exact.
LEMMA MeterKept == Inv /\ Metered /\ [Next]_vars => Metered'
<1> SUFFICES ASSUME Inv, Metered, [Next]_vars, plan'.squelch, sqOpen'
             PROVE  hangLeft' + dead' = Hang
  BY DEF Metered
<1>0. /\ hangLeft \in (1 - BlockLen) .. Hang /\ dead \in 0 .. Cap
      /\ hangLeft \in Int /\ dead \in Int /\ BlockLen \in Nat \ {0} /\ Hang \in Nat
      /\ Cap = Hang + BlockLen
  BY CapType, StationControlAssumption DEF Inv, TypeOK
<1>1. CASE UNCHANGED <<plan, sqOpen, hangLeft, dead>>
  BY <1>1 DEF Metered
<1>2. ASSUME NEW s \in Signals, Process(s)
      PROVE  hangLeft' + dead' = Hang
  <2>1. plan' = plan /\ Squelch(s) /\ Account(s)
    BY <1>2, Zenon DEF Process
  <2>2. CASE Opens(s)
    <3>1. dead' = 0 /\ hangLeft' = Hang
      BY <2>1, <2>2, NotBoth, SquelchCases, AccountCases, Zenon
    <3>2. QED
      BY <1>0, <3>1
  <2>3. CASE ~Opens(s) /\ ~IsDead(s)
    <3>1. dead' = dead /\ hangLeft' = hangLeft /\ sqOpen' = sqOpen
      BY <2>1, <2>3, SquelchCases, AccountCases, Zenon
    <3>2. QED
      BY <2>1, <3>1 DEF Metered
  <2>4. CASE ~Opens(s) /\ IsDead(s)
    <3>1. /\ hangLeft > 0 /\ hangLeft' = hangLeft - BlockLen /\ sqOpen' = sqOpen
          /\ dead' = Least(dead + BlockLen, Cap)
      BY <2>1, <2>4, SquelchCases, AccountCases, Zenon
    <3>2. hangLeft + dead = Hang
      BY <2>1, <3>1 DEF Metered
    <3>3. dead + BlockLen < Cap
      BY <1>0, <3>1, <3>2
    <3>4. dead' = dead + BlockLen
      BY <3>1, <3>3 DEF Least
    <3>5. QED
      BY <1>0, <3>1, <3>2, <3>4
  <2>5. QED
    BY <2>2, <2>3, <2>4
<1>3. QED
  BY <1>1, <1>2 DEF Next, Block, MarkIdle, chain, squelch, vars

\* For every hang, block length and sequence of signals, a dead channel is
\* squelched within the hang and one block, so that what HangIsHonoured demands
\* is not met by a squelch that stays open.
THEOREM DeadAirIsSquelched == Spec => []NeverLingers
<1>1. Init => Metered
  <2>1. Init => hangLeft = Hang /\ dead = 0
    BY DEF Init
  <2>2. QED
    BY <2>1, StationControlAssumption DEF Metered
<1>2. Inv /\ Metered => NeverLingers
  BY StationControlAssumption, CapType DEF Inv, TypeOK, Metered, NeverLingers
<1>3. QED
  BY <1>1, <1>2, Invariant, MeterKept, PTL DEF Spec

-----------------------------------------------------------------------------
(* RdsDecoder: where it locks, and what it takes for a group.              *)

LEMMA Division ==
  ASSUME NEW b \in Nat \ {0}, NEW x \in Int
  PROVE  \E q \in Int, r \in 0 .. b - 1 : q = x \div b /\ r = x % b /\ x = q * b + r
  OBVIOUS

LEMMA Quotient ==
  ASSUME NEW b \in Nat \ {0}, NEW q \in Int, NEW s \in 0 .. b - 1, NEW x \in Int, x = q * b + s
  PROVE  x % b = s /\ x \div b = q
  OBVIOUS

\* Where bit p of a group of four blocks of b bits is, and where adv bits later.
LEMMA Places ==
  ASSUME NEW b \in Nat \ {0}, NEW p \in 0 .. 4 * b - 1, NEW adv \in 0 .. 2, (p % b) + adv <= b
  PROVE  /\ p \div b \in 0 .. 3 /\ p % b \in 0 .. b - 1
         /\ (p + adv) % b = (IF (p % b) + adv = b THEN 0 ELSE (p % b) + adv)
         /\ (p + adv) \div b = (IF (p % b) + adv = b THEN p \div b + 1 ELSE p \div b)
         /\ p + adv <= 4 * b
         /\ (p % b) + adv = b => p + adv = (p \div b + 1) * b
         /\ (p + adv) % (4 * b) = (IF p + adv = 4 * b THEN 0 ELSE p + adv)
<1>1. PICK q \in Int, r \in 0 .. b - 1 : q = p \div b /\ r = p % b /\ p = q * b + r
  BY Division
<1>2. q \in 0 .. 3
  <2>1. CASE q < 0
    <3>1. q * b <= 0 - b
      BY <2>1
    <3>2. QED
      BY <1>1, <3>1
  <2>2. CASE q > 3
    <3>1. q * b >= 4 * b
      BY <2>2
    <3>2. QED
      BY <1>1, <3>1
  <2>3. QED
    BY <2>1, <2>2
<1>3. p + adv \in Int /\ p + adv <= 4 * b
  <2>1. q * b <= 3 * b
    BY <1>2
  <2>2. QED
    BY <1>1, <2>1
<1>4. (p + adv) % (4 * b) = (IF p + adv = 4 * b THEN 0 ELSE p + adv)
  <2>1. 4 * b \in Nat \ {0} /\ 0 \in 0 .. 4 * b - 1
    OBVIOUS
  <2>2. CASE p + adv = 4 * b
    <3>1. p + adv = 1 * (4 * b) + 0
      BY <2>2
    <3>2. QED
      BY <1>3, <2>1, <2>2, <3>1, Quotient
  <2>3. CASE p + adv < 4 * b
    <3>1. p + adv = 0 * (4 * b) + (p + adv) /\ p + adv \in 0 .. 4 * b - 1
      BY <2>3
    <3>2. (p + adv) % (4 * b) = p + adv
      BY <1>3, <2>1, <3>1, Quotient
    <3>3. QED
      BY <2>3, <3>2
  <2>4. QED
    BY <1>3, <2>2, <2>3
<1>5. CASE r + adv = b
  <2>1. p + adv = (q + 1) * b + 0 /\ 0 \in 0 .. b - 1 /\ q + 1 \in Int
    BY <1>1, <1>5
  <2>2. (p + adv) % b = 0 /\ (p + adv) \div b = q + 1
    BY <1>3, <2>1, Quotient, SMTT(20)
  <2>3. QED
    BY <1>1, <1>2, <1>3, <1>4, <1>5, <2>1, <2>2
<1>6. CASE r + adv < b
  <2>1. p + adv = q * b + (r + adv) /\ r + adv \in 0 .. b - 1
    BY <1>1, <1>6
  <2>2. (p + adv) % b = r + adv /\ (p + adv) \div b = q
    BY <1>3, <2>1, Quotient
  <2>3. QED
    BY <1>1, <1>2, <1>3, <1>4, <1>6, <2>2
<1>7. QED
  BY <1>1, <1>5, <1>6

\* A station on the air, and the state of a decoder.
Airs ==
  [prog : Programmes, msg : UNION {p.msgs : p \in Programmes}, ab : 0 .. 1, seg : Nat,
   phase : 0 .. GroupBits - 1, intact : BOOLEAN, faded : BOOLEAN]

AirOK ==
  /\ air \in Airs /\ air.msg \in air.prog.msgs
  /\ may \in Mishaps
  /\ may.slips <= air.prog.may.slips /\ may.false <= air.prog.may.false

SyncOK ==
  /\ m_state \in {"Acquire", "Sync"}
  /\ m_acq \in SUBSET [oi : 0 .. 4, age : 0 .. Older]
  /\ m_state = "Sync" => m_acq = {}
  /\ m_blockpos \in 0 .. 3 /\ m_bit_since \in 0 .. BlockBits - 1 /\ m_bad_run \in Nat
  /\ m_blk = [k \in 0 .. 3 |-> m_blk[k]] /\ m_blk_ok \in [0 .. 3 -> BOOLEAN]

\* What the assumption says of a station and its numbers.
LEMMA Stations ==
  ASSUME AirOK
  PROVE  /\ BlockBits \in Nat \ {0, 1} /\ GroupBits = 4 * BlockBits
         /\ air.phase \in 0 .. 4 * BlockBits - 1
         /\ air.prog \in Programmes /\ air.prog.gt \in 0 .. 14 /\ air.prog.ver \in 0 .. 1
         /\ air.prog.may \in Mishaps
         /\ \A msg \in air.prog.msgs : Segments(air.prog, msg) \in Nat \ {0}
  BY RdsDecoderAssumption DEF AirOK, Airs, GroupBits

\* adv bits of the station later: where it is, and that it goes on with its
\* group until that ends.
LEMMA AirMoves ==
  ASSUME AirOK, NEW adv \in 0 .. 2, (air.phase % BlockBits) + adv <= BlockBits,
         NEW good \in BOOLEAN,
         NEW left \in Mishaps, left.slips <= may.slips, left.false <= may.false,
         Advance(adv, good, left)
  PROVE  /\ AirOK' /\ air'.prog = air.prog /\ air'.faded = air.faded
         /\ air'.phase = (IF air.phase + adv = GroupBits THEN 0 ELSE air.phase + adv)
         /\ air'.intact = (Boundary(adv) \/ (air.intact /\ good))
         /\ air.phase + adv # GroupBits => Group' = Group
         /\ may'.slips = left.slips /\ may'.false = left.false
<1> DEFINE here == (air.phase + adv) % GroupBits
           ends == here = 0 /\ adv > 0
           moved == [air EXCEPT !.phase = here, !.intact = Boundary(adv) \/ (air.intact /\ good)]
<1>1. /\ BlockBits \in Nat \ {0, 1} /\ GroupBits = 4 * BlockBits
      /\ air.phase \in 0 .. 4 * BlockBits - 1
      /\ air.prog \in Programmes /\ air.prog.may \in Mishaps
      /\ \A msg \in air.prog.msgs : Segments(air.prog, msg) \in Nat \ {0}
  BY Stations
<1>2. /\ air.phase + adv <= 4 * BlockBits
      /\ here = (IF air.phase + adv = 4 * BlockBits THEN 0 ELSE air.phase + adv)
  <2>1. BlockBits \in Nat \ {0}
    BY <1>1
  <2>2. \A p \in 0 .. 4 * BlockBits - 1 :
          (p % BlockBits) + adv <= BlockBits =>
            /\ p + adv <= 4 * BlockBits
            /\ (p + adv) % (4 * BlockBits) = IF p + adv = 4 * BlockBits THEN 0 ELSE p + adv
    BY <2>1, Places, ZenonT(60)
  <2>3. QED
    BY <1>1, <2>2 DEF GroupBits
<1>3. here \in 0 .. GroupBits - 1 /\ (ends <=> air.phase + adv = GroupBits)
  BY <1>1, <1>2
<1> HIDE DEF here
<1>4. /\ moved \in Airs /\ moved.phase = here
      /\ moved.intact = (Boundary(adv) \/ (air.intact /\ good))
      /\ moved.prog = air.prog /\ moved.msg = air.msg /\ moved.ab = air.ab /\ moved.seg = air.seg
      /\ moved.faded = air.faded
  BY <1>3 DEF AirOK, Airs
<1> HIDE DEF moved
<1>5. CASE /\ air' = IF ends
                    THEN [moved EXCEPT !.seg = (moved.seg + 1) % Segments(air.prog, air.msg)]
                    ELSE moved
           /\ may' = left
  <2>1. moved.seg \in Nat /\ air.msg \in air.prog.msgs
    BY <1>4 DEF Airs, AirOK
  <2>2. (moved.seg + 1) % Segments(air.prog, air.msg) \in Nat
    BY <1>1, <2>1
  <2>3. /\ air' \in Airs /\ air'.prog = air.prog /\ air'.msg = air.msg /\ air'.faded = air.faded
        /\ air'.phase = here /\ air'.intact = (Boundary(adv) \/ (air.intact /\ good))
    BY <1>4, <1>5, <2>2 DEF Airs
  <2>4. ~ends => air'.ab = air.ab /\ air'.seg = air.seg
    BY <1>4, <1>5
  <2>5. AirOK'
    BY <1>1, <1>5, <2>3 DEF AirOK, Mishaps
  <2>6. ~ends => Group' = Group
    BY <2>3, <2>4 DEF Group
  <2>7. QED
    BY <1>1, <1>2, <1>3, <1>5, <2>3, <2>5, <2>6
<1>6. CASE /\ ends
           /\ \E msg \in air.prog.msgs \ {air.msg}, ab \in 0 .. 1 :
                air' = [moved EXCEPT !.seg = 0, !.msg = msg, !.ab = ab]
           /\ may' = [left EXCEPT !.changes = left.changes - 1]
           /\ left.changes > 0
  <2>1. PICK msg \in air.prog.msgs, ab \in 0 .. 1 :
          air' = [moved EXCEPT !.seg = 0, !.msg = msg, !.ab = ab]
    BY <1>6
  <2>2. msg \in UNION {p.msgs : p \in Programmes}
    BY <1>1
  <2>3. /\ air' \in Airs /\ air'.prog = air.prog /\ air'.msg = msg /\ air'.faded = air.faded
        /\ air'.phase = here /\ air'.intact = (Boundary(adv) \/ (air.intact /\ good))
    BY <1>4, <2>1, <2>2 DEF Airs
  <2>4. may' \in Mishaps /\ may'.slips = left.slips /\ may'.false = left.false
    BY <1>6 DEF Mishaps
  <2>5. AirOK'
    BY <1>1, <2>3, <2>4 DEF AirOK, Mishaps
  <2>6. QED
    BY <1>1, <1>2, <1>3, <1>6, <2>3, <2>4, <2>5
<1>7. QED
  BY <1>5, <1>6 DEF Advance, moved, here

\* What one bit does to the decoder: it locks, looks on, counts, or files a block.
Locks(oi) ==
  /\ m_state = "Acquire" /\ m_state' = "Sync" /\ oi = 4 /\ Anchored(Matches(oi))
  /\ m_acq' = {} /\ m_blockpos' = 0 /\ m_bit_since' = 0 /\ m_bad_run' = 0
  /\ UNCHANGED <<m_blk, m_blk_ok>>
LooksOn(oi) ==
  /\ m_state = "Acquire" /\ m_acq' = Matches(oi)
  /\ UNCHANGED <<m_state, m_blockpos, m_bit_since, m_bad_run, m_blk, m_blk_ok>>
Counts ==
  /\ m_state = "Sync" /\ m_bit_since + 1 < BlockBits /\ m_bit_since' = m_bit_since + 1
  /\ UNCHANGED <<m_state, m_acq, m_blockpos, m_bad_run, m_blk, m_blk_ok>>
Files(oi, data) ==
  LET ok == Accepts(m_blockpos, oi)
  IN  /\ m_state = "Sync" /\ m_bit_since + 1 >= BlockBits /\ m_bit_since' = 0
      /\ m_blk' = [m_blk EXCEPT ![m_blockpos] = IF ok THEN data ELSE Junk]
      /\ m_blk_ok' = [m_blk_ok EXCEPT ![m_blockpos] = ok]
      /\ UNCHANGED m_acq /\ m_bad_run' = IF ok THEN 0 ELSE m_bad_run + 1
      /\ \/ m_state' = "Acquire" /\ ~ok /\ m_blockpos' = m_blockpos
         \/ m_state' = "Sync" /\ m_blockpos' = (m_blockpos + 1) % 4

LEMMA Pushes ==
  ASSUME SyncOK, NEW oi, NEW data, block_sync_push(oi, data)
  PROVE  Locks(oi) \/ LooksOn(oi) \/ Counts \/ Files(oi, data)
<1>1. CASE Acquire(oi)
  BY <1>1 DEF Acquire, Lock, Locks, LooksOn
<1>2. CASE Track(oi, data)
  <2> DEFINE ok == Accepts(m_blockpos, oi)
             bad == IF ok THEN 0 ELSE m_bad_run + 1
  <2>1. /\ m_state = "Sync" /\ UNCHANGED m_acq
        /\ \/ /\ m_bit_since + 1 < BlockBits
              /\ m_bit_since' = m_bit_since + 1
              /\ UNCHANGED <<m_state, m_blockpos, m_bad_run, m_blk, m_blk_ok>>
           \/ /\ ~(m_bit_since + 1 < BlockBits)
              /\ m_bit_since' = 0 /\ m_bad_run' = bad
              /\ m_blk' = Filed(m_blockpos, ok, data).blk
              /\ m_blk_ok' = Filed(m_blockpos, ok, data).ok
              /\ \/ bad > kMaxBadBlocks /\ m_state' = "Acquire" /\ UNCHANGED m_blockpos
                 \/ m_blockpos' = (m_blockpos + 1) % 4 /\ UNCHANGED m_state
    BY <1>2 DEF Track
  <2>2. bad > kMaxBadBlocks => ~ok
    BY RdsDecoderAssumption
  <2>3. /\ Filed(m_blockpos, ok, data).blk
             = [m_blk EXCEPT ![m_blockpos] = IF ok THEN data ELSE Junk]
        /\ Filed(m_blockpos, ok, data).ok = [m_blk_ok EXCEPT ![m_blockpos] = ok]
    BY DEF Filed
  <2> HIDE DEF ok
  <2>4. CASE m_bit_since + 1 < BlockBits
    BY <2>1, <2>4 DEF Counts
  <2>5. CASE ~(m_bit_since + 1 < BlockBits)
    <3>1. m_bit_since + 1 >= BlockBits
      BY <2>5, RdsDecoderAssumption DEF SyncOK
    <3>2. QED
      BY <2>1, <2>2, <2>3, <2>5, <3>1 DEF Files, ok
  <2>6. QED
    BY <2>4, <2>5
<1>3. QED
  BY <1>1, <1>2 DEF block_sync_push

LEMMA AcceptsOrNot ==
  ASSUME NEW pos, NEW oi
  PROVE  Accepts(pos, oi) \in BOOLEAN
<1>1. Accepts(pos, oi) = TRUE \/ Accepts(pos, oi) = FALSE
  BY DEF Accepts
<1>2. QED
  BY <1>1

LEMMA LeastOf ==
  ASSUME NEW a \in Int, NEW b \in Int
  PROVE  Min({a, b}) = IF a <= b THEN a ELSE b
  BY DEF Min

\* A match grows older by a bit, and stops at Older.
LEMMA Ageing ==
  ASSUME SyncOK, NEW m \in m_acq
  PROVE  LET o == [m EXCEPT !.age = Min({m.age + 1, Older})]
         IN  /\ o \in [oi : 0 .. 4, age : 0 .. Older] /\ o.oi = m.oi
             /\ o.age = IF m.age + 1 <= Older THEN m.age + 1 ELSE Older
<1>1. m \in [oi : 0 .. 4, age : 0 .. Older] /\ Older \in Nat
  BY RdsDecoderAssumption DEF SyncOK, Older, Window
<1>2. Min({m.age + 1, Older}) = IF m.age + 1 <= Older THEN m.age + 1 ELSE Older
  BY <1>1, LeastOf
<1>3. QED
  BY <1>1, <1>2

LEMMA SyncStep ==
  ASSUME SyncOK, NEW oi \in -1 .. 4, NEW data, block_sync_push(oi, data)
  PROVE  SyncOK'
<1>1. CASE Locks(oi)
  BY <1>1, RdsDecoderAssumption DEF SyncOK, Locks
<1>2. CASE LooksOn(oi)
  <2>1. Matches(oi) \in SUBSET [oi : 0 .. 4, age : 0 .. Older]
    <3>1. Aged \in SUBSET [oi : 0 .. 4, age : 0 .. Older]
      BY Ageing DEF Aged
    <3>2. Older \in Nat
      BY RdsDecoderAssumption DEF Older, Window
    <3>3. QED
      BY <3>1, <3>2 DEF Matches
  <2>2. QED
    BY <1>2, <2>1 DEF SyncOK, LooksOn
<1>3. CASE Counts
  BY <1>3, RdsDecoderAssumption DEF SyncOK, Counts
<1>4. CASE Files(oi, data)
  <2>1. m_blk' = [k \in 0 .. 3 |-> m_blk'[k]]
    BY <1>4 DEF SyncOK, Files
  <2>2. m_blk_ok' \in [0 .. 3 -> BOOLEAN]
    <3>1. Accepts(m_blockpos, oi) \in BOOLEAN
      BY AcceptsOrNot
    <3>2. QED
      BY <1>4, <3>1 DEF SyncOK, Files
  <2>3. /\ m_state' \in {"Acquire", "Sync"} /\ m_acq' = {}
        /\ m_bit_since' \in 0 .. BlockBits - 1 /\ m_bad_run' \in Nat /\ m_blockpos' \in 0 .. 3
    BY <1>4, RdsDecoderAssumption DEF SyncOK, Files
  <2>4. QED
    BY <2>1, <2>2, <2>3 DEF SyncOK
<1>5. QED
  BY <1>1, <1>2, <1>3, <1>4, Pushes

\* What the offset word of a block says: its place in the group, and no other.
LEMMA OffsetsTell ==
  ASSUME NEW q \in 0 .. 3, NEW ver \in 0 .. 1
  PROVE  /\ Offset(q, ver) \in 0 .. 4 /\ kOffsetPos[Offset(q, ver) + 1] = q
         /\ Offset(q, ver) = 4 => q = 3
         /\ \A pos \in 0 .. 3 : Accepts(pos, Offset(q, ver)) => pos = q
<1>1. CASE q = 2 /\ ver = 1
  BY <1>1 DEF Offset, Accepts, kOffsetPos
<1>2. CASE q = 2 /\ ver = 0
  BY <1>2 DEF Offset, Accepts, kOffsetPos
<1>3. CASE q = 3
  BY <1>3 DEF Offset, Accepts, kOffsetPos
<1>4. CASE q \in 0 .. 1
  BY <1>4 DEF Offset, Accepts, kOffsetPos
<1>5. QED
  BY <1>1, <1>2, <1>3, <1>4

\* One bit received: adv bits of the station went by, `good` says whether it came
\* as it was sent.
Passes(adv, good) ==
  /\ good => adv = 1
  /\ (air.phase % BlockBits) + adv <= BlockBits
  /\ AirOK' /\ air'.prog = air.prog
  /\ air'.phase = (IF air.phase + adv = GroupBits THEN 0 ELSE air.phase + adv)
  /\ air'.intact = (((air.phase % BlockBits) + adv = BlockBits) \/ (air.intact /\ good))
  /\ air.phase + adv # GroupBits => Group' = Group
  /\ may'.slips <= may.slips /\ (adv # 1 => may'.slips < may.slips)

\* A match is that of the block which ends here, and arrived intact ...
Honest(good, oi, data) ==
  /\ may'.false = may.false
  /\ oi # -1 => /\ good /\ air.intact /\ (air.phase % BlockBits) + 1 = BlockBits
                /\ oi = Offset(air.phase \div BlockBits, air.prog.ver) /\ data = Group

\* ... or chance.
Chance(adv) == may'.false = may.false - 1 /\ may.false > 0 /\ adv = 1

Fades ==
  /\ AirOK' /\ air' = [air EXCEPT !.faded = air'.faded, !.intact = FALSE]
  /\ may'.slips = may.slips /\ may'.false = may.false
  /\ UNCHANGED <<sync, texts, heard, sent>>

LEMMA Received ==
  ASSUME AirOK, NEW adv \in 0 .. 2, (air.phase % BlockBits) + adv <= BlockBits,
         NEW good \in BOOLEAN,
         good => adv = 1,
         NEW left \in Mishaps, left.slips <= may.slips, left.false = may.false,
         adv # 1 => left.slips < may.slips, Receive(adv, good, left)
  PROVE  \E oi \in -1 .. 4 : \E data :
           Passes(adv, good) /\ Honest(good, oi, data) /\ block_sync_push(oi, data)
<1> DEFINE k == ((air.phase + adv) \div BlockBits) - 1
           hit == Boundary(adv) /\ air.intact /\ good /\ ~air.faded
           match == IF hit THEN Offset(k, air.prog.ver) ELSE -1
<1>1. /\ BlockBits \in Nat \ {0} /\ air.phase \in 0 .. 4 * BlockBits - 1 /\ air.prog.ver \in 0 .. 1
      /\ may \in Mishaps /\ may.slips \in Nat /\ may.false \in Nat
  BY Stations DEF AirOK, Mishaps
<1>2. \A p \in 0 .. 4 * BlockBits - 1 :
        (p % BlockBits) + adv <= BlockBits =>
          /\ p \div BlockBits \in 0 .. 3 /\ p % BlockBits \in 0 .. BlockBits - 1
          /\ (p + adv) % BlockBits
             = (IF (p % BlockBits) + adv = BlockBits THEN 0 ELSE (p % BlockBits) + adv)
          /\ (p + adv) \div BlockBits
             = (IF (p % BlockBits) + adv = BlockBits THEN p \div BlockBits + 1
                ELSE p \div BlockBits)
  BY <1>1, Places, ZenonT(60)
<1>3. Boundary(adv) = ((air.phase % BlockBits) + adv = BlockBits)
  BY <1>1, <1>2 DEF Boundary
<1>4. hit => k = air.phase \div BlockBits /\ k \in 0 .. 3
  <2>1. hit => (air.phase % BlockBits) + adv = BlockBits
    BY <1>3
  <2>2. /\ air.phase \div BlockBits \in 0 .. 3
        /\ (air.phase % BlockBits) + adv = BlockBits =>
             (air.phase + adv) \div BlockBits = air.phase \div BlockBits + 1
    BY <1>1, <1>2
  <2>3. QED
    BY <2>1, <2>2
<1>5. Advance(adv, good, left) /\ block_sync_push(match, Group) /\ left.false <= may.false
  BY <1>1 DEF Receive
<1> HIDE DEF k
<1>6. match \in -1 .. 4
  BY <1>1, <1>4, OffsetsTell
<1>7. Honest(good, match, Group)
  <2>1. may'.false = left.false
    BY <1>5, AirMoves
  <2>2. CASE hit
    BY <1>3, <1>4, <2>1, <2>2 DEF Honest
  <2>3. CASE ~hit
    BY <2>1, <2>3 DEF Honest
  <2>4. QED
    BY <2>2, <2>3
<1>8. Passes(adv, good)
  <2>1. /\ AirOK' /\ air'.prog = air.prog
        /\ air'.phase = (IF air.phase + adv = GroupBits THEN 0 ELSE air.phase + adv)
        /\ air'.intact = (Boundary(adv) \/ (air.intact /\ good))
        /\ air.phase + adv # GroupBits => Group' = Group
        /\ may'.slips = left.slips
    BY <1>5, AirMoves
  <2>2. QED
    BY <1>3, <2>1 DEF Passes
<1>9. QED
  BY <1>5, <1>6, <1>7, <1>8

\* A step is a bit received, or a fade that begins or ends.
LEMMA Steps ==
  ASSUME AirOK, DecoderNext
  PROVE  \/ \E adv \in 0 .. 2, good \in BOOLEAN, oi \in -1 .. 4 : \E data :
              /\ Passes(adv, good) /\ block_sync_push(oi, data)
              /\ Honest(good, oi, data) \/ Chance(adv)
         \/ Fades
<1>1. /\ BlockBits \in Nat \ {0} /\ air.phase \in 0 .. 4 * BlockBits - 1
      /\ may \in Mishaps /\ may.slips \in Nat /\ may.false \in Nat
  BY Stations DEF AirOK, Mishaps
<1>2. (air.phase % BlockBits) + 1 <= BlockBits
  BY <1>1
<1>3. CASE Clean
  <2>1. 1 \in 0 .. 2 /\ TRUE \in BOOLEAN /\ may.slips <= may.slips /\ -1 \in -1 .. 4
    BY <1>1
  <2>0. Receive(1, TRUE, may)
    BY <1>3, Zenon DEF Clean
  <2>2. \E oi \in -1 .. 4 : \E data :
          Passes(1, TRUE) /\ Honest(TRUE, oi, data) /\ block_sync_push(oi, data)
    BY <1>1, <1>2, <2>0, <2>1, Received, Zenon
  <2>3. QED
    BY <2>1, <2>2, Zenon
<1>4. CASE Error
  <2> DEFINE left == [may EXCEPT !.errors = may.errors - 1]
  <2>1. left \in Mishaps /\ left.slips = may.slips /\ left.false = may.false
    BY <1>4 DEF Error, AirOK, Mishaps
  <2>2. Receive(1, FALSE, left)
    BY <1>4 DEF Error
  <2> HIDE DEF left
  <2>3. 1 \in 0 .. 2 /\ FALSE \in BOOLEAN /\ left.slips <= may.slips
    BY <1>1, <2>1
  <2>4. \E oi \in -1 .. 4 : \E data :
          Passes(1, FALSE) /\ Honest(FALSE, oi, data) /\ block_sync_push(oi, data)
    BY <1>1, <1>2, <2>1, <2>2, <2>3, Received, Zenon
  <2>5. QED
    BY <2>3, <2>4, Zenon
<1>5. CASE Slip
  <2> DEFINE left == [may EXCEPT !.slips = may.slips - 1]
  <2>1. left \in Mishaps /\ left.slips = may.slips - 1 /\ left.false = may.false
    BY <1>5 DEF Slip, AirOK, Mishaps
  <2>2. PICK adv \in {0, 2} :
          (air.phase % BlockBits) + adv <= BlockBits /\ Receive(adv, FALSE, left)
    BY <1>5 DEF Slip
  <2> HIDE DEF left
  <2>3. /\ adv \in 0 .. 2 /\ adv # 1 /\ FALSE \in BOOLEAN
        /\ left.slips <= may.slips /\ left.slips < may.slips
    BY <1>1, <2>1, <2>2
  <2>4. \E oi \in -1 .. 4 : \E data :
          Passes(adv, FALSE) /\ Honest(FALSE, oi, data) /\ block_sync_push(oi, data)
    BY <1>1, <2>1, <2>2, <2>3, Received, Zenon
  <2>5. QED
    BY <2>3, <2>4, Zenon
<1>6. CASE FalseMatch
  <2> DEFINE left == [may EXCEPT !.false = may.false - 1]
  <2>1. left \in Mishaps /\ left.slips = may.slips /\ left.false = may.false - 1 /\ may.false > 0
    BY <1>6 DEF FalseMatch, AirOK, Mishaps
  <2>2. PICK oi \in 0 .. 4 : Advance(1, TRUE, left) /\ block_sync_push(oi, Junk)
    BY <1>6 DEF FalseMatch
  <2> HIDE DEF left
  <2>3. /\ AirOK' /\ air'.prog = air.prog
        /\ air'.phase = (IF air.phase + 1 = GroupBits THEN 0 ELSE air.phase + 1)
        /\ air'.intact = (Boundary(1) \/ (air.intact /\ TRUE))
        /\ air.phase + 1 # GroupBits => Group' = Group
        /\ may'.slips = left.slips /\ may'.false = left.false
    <3>1. 1 \in 0 .. 2 /\ TRUE \in BOOLEAN /\ left.slips <= may.slips /\ left.false <= may.false
      BY <1>1, <2>1
    <3>2. QED
      BY <1>2, <2>1, <2>2, <3>1, AirMoves, Zenon
  <2>4. Boundary(1) = ((air.phase % BlockBits) + 1 = BlockBits)
    <3>0. 1 \in 0 .. 2
      OBVIOUS
    <3>1. \A p \in 0 .. 4 * BlockBits - 1 :
            (p % BlockBits) + 1 <= BlockBits =>
              /\ p % BlockBits \in 0 .. BlockBits - 1
              /\ (p + 1) % BlockBits
                 = (IF (p % BlockBits) + 1 = BlockBits THEN 0 ELSE (p % BlockBits) + 1)
      BY <1>1, <3>0, Places, ZenonT(60)
    <3>2. /\ air.phase % BlockBits \in 0 .. BlockBits - 1
          /\ (air.phase + 1) % BlockBits
             = (IF (air.phase % BlockBits) + 1 = BlockBits THEN 0 ELSE (air.phase % BlockBits) + 1)
      BY <1>1, <1>2, <3>1
    <3>3. QED
      BY <1>1, <3>2 DEF Boundary
  <2>5. Passes(1, TRUE)
    <3>1. may'.slips <= may.slips
      BY <1>1, <2>1, <2>3
    <3>2. QED
      BY <1>2, <2>3, <2>4, <3>1, Zenon DEF Passes
  <2>6. Chance(1)
    BY <2>1, <2>3 DEF Chance
  <2>7. 1 \in 0 .. 2 /\ TRUE \in BOOLEAN /\ oi \in -1 .. 4
    OBVIOUS
  <2>8. QED
    BY <2>2, <2>5, <2>6, <2>7, Zenon
<1>7. CASE FadeBegins
  <2>1. air' = [air EXCEPT !.faded = TRUE, !.intact = FALSE]
        /\ may' = [may EXCEPT !.fades = may.fades - 1] /\ may.fades > 0
        /\ UNCHANGED <<sync, texts, heard, sent>>
    BY <1>7 DEF FadeBegins
  <2>2. may' \in Mishaps /\ may'.slips = may.slips /\ may'.false = may.false
    BY <1>1, <2>1 DEF Mishaps
  <2>3. /\ air' \in Airs /\ air'.msg = air.msg /\ air'.prog = air.prog
        /\ air' = [air EXCEPT !.faded = air'.faded, !.intact = FALSE]
    BY <2>1 DEF AirOK, Airs
  <2>4. AirOK'
    BY <2>2, <2>3 DEF AirOK
  <2>5. QED
    BY <2>1, <2>2, <2>3, <2>4 DEF Fades
<1>8. CASE FadeEnds
  <2>1. /\ air' = [air EXCEPT !.faded = FALSE, !.intact = FALSE] /\ may' = may
        /\ UNCHANGED <<sync, texts, heard, sent>>
    BY <1>8 DEF FadeEnds
  <2>2. QED
    BY <2>1 DEF Fades, AirOK, Airs
<1>9. QED
  BY <1>3, <1>4, <1>5, <1>6, <1>7, <1>8 DEF DecoderNext

\* The bit after the next one, in its block.
LEMMA NextBit ==
  ASSUME AirOK, NEW adv \in 0 .. 2, NEW good, Passes(adv, good)
  PROVE  /\ air.phase \div BlockBits \in 0 .. 3 /\ air.phase % BlockBits \in 0 .. BlockBits - 1
         /\ air'.phase % BlockBits
            = (IF (air.phase % BlockBits) + adv = BlockBits THEN 0
               ELSE (air.phase % BlockBits) + adv)
         /\ (air.phase % BlockBits) + adv = BlockBits =>
              air.phase + adv = (air.phase \div BlockBits + 1) * BlockBits
<1>1. BlockBits \in Nat \ {0} /\ air.phase \in 0 .. 4 * BlockBits - 1 /\ GroupBits = 4 * BlockBits
  BY Stations
<1>2. \A p \in 0 .. 4 * BlockBits - 1 :
        (p % BlockBits) + adv <= BlockBits =>
          /\ p \div BlockBits \in 0 .. 3 /\ p % BlockBits \in 0 .. BlockBits - 1
          /\ (p + adv) % BlockBits
             = (IF (p % BlockBits) + adv = BlockBits THEN 0 ELSE (p % BlockBits) + adv)
          /\ (p + adv) \div BlockBits
             = (IF (p % BlockBits) + adv = BlockBits THEN p \div BlockBits + 1
                ELSE p \div BlockBits)
  BY <1>1, Places, ZenonT(60)
<1>2a. \A p \in 0 .. 4 * BlockBits - 1 :
        (p % BlockBits) + adv <= BlockBits =>
          ((p % BlockBits) + adv = BlockBits => p + adv = (p \div BlockBits + 1) * BlockBits)
  BY <1>1, Places
<1> DEFINE p == air.phase
<1>3. /\ p \div BlockBits \in 0 .. 3 /\ p % BlockBits \in 0 .. BlockBits - 1
      /\ (p + adv) % BlockBits
         = (IF (p % BlockBits) + adv = BlockBits THEN 0 ELSE (p % BlockBits) + adv)
      /\ (p + adv) \div BlockBits
         = (IF (p % BlockBits) + adv = BlockBits THEN p \div BlockBits + 1
                ELSE p \div BlockBits)
      /\ (p % BlockBits) + adv = BlockBits => p + adv = (p \div BlockBits + 1) * BlockBits
  BY <1>1, <1>2, <1>2a DEF Passes
<1>4. air'.phase = (IF p + adv = 4 * BlockBits THEN 0 ELSE p + adv)
  BY <1>1 DEF Passes
<1> HIDE DEF p
<1>5. 0 % BlockBits = 0 /\ (4 * BlockBits) \div BlockBits = 4
  <2>1. /\ 0 = 0 * BlockBits + 0 /\ 4 * BlockBits = 4 * BlockBits + 0 /\ 0 \in 0 .. BlockBits - 1
        /\ 0 \in Int /\ 4 \in Int /\ 4 * BlockBits \in Int
    BY <1>1
  <2>2. QED
    BY <1>1, <2>1, Quotient
<1>6. CASE p + adv = 4 * BlockBits
  <2>1. (p % BlockBits) + adv = BlockBits
    BY <1>3, <1>5, <1>6
  <2>2. QED
    BY <1>3, <1>4, <1>5, <1>6, <2>1 DEF p
<1>7. CASE p + adv # 4 * BlockBits
  BY <1>3, <1>4, <1>7 DEF p
<1>8. QED
  BY <1>6, <1>7

\* The decoder follows the station through a block that has come intact since
\* the last good one, ...
Current ==
  /\ m_state = "Sync" /\ m_blockpos > 0 /\ m_blk_ok[m_blockpos - 1]
  /\ air.intact /\ air.phase % BlockBits = m_bit_since
  => air.phase = m_blockpos * BlockBits + m_bit_since /\ m_blk[m_blockpos - 1] = Group

\* ... so that the good blocks of a group under way are of one group sent; and it
\* loses a lock with a bad block.
Filled == IF m_blockpos = 0 THEN 4 ELSE m_blockpos
Assembled ==
  /\ m_state = "Acquire" => \E k \in 0 .. 3 : ~m_blk_ok[k]
  /\ m_state = "Sync" /\ (\A k \in 0 .. Filled - 1 : m_blk_ok[k]) =>
       \A k \in 0 .. Filled - 1 : m_blk[k] = m_blk[0] /\ m_blk[k] # Junk
  /\ Current

LEMMA GroupIsKnown == ASSUME AirOK PROVE Group # Junk
<1>1. Group.gt = air.prog.gt /\ Junk.gt = 15
  BY DEF Group, GroupOf, Junk
<1>2. QED
  BY <1>1, Stations

LEMMA BlockFiled ==
  ASSUME AirOK, SyncOK, Assembled,
         NEW adv \in 0 .. 2, NEW good \in BOOLEAN, NEW oi \in -1 .. 4, NEW data,
         Passes(adv, good), Honest(good, oi, data), Files(oi, data)
  PROVE  Assembled'
<1> DEFINE pos == m_blockpos
           ok == Accepts(pos, oi)
<1>0. /\ BlockBits \in Nat \ {0, 1} /\ pos \in 0 .. 3 /\ m_bit_since = BlockBits - 1
      /\ air.phase \in 0 .. 4 * BlockBits - 1 /\ air.prog.ver \in 0 .. 1
      /\ GroupBits = 4 * BlockBits
  BY Stations DEF SyncOK, Files
<1>1. /\ m_blk'[pos] = (IF ok THEN data ELSE Junk)
      /\ \A k \in 0 .. 3 : k # pos => m_blk'[k] = m_blk[k]
      /\ m_blk_ok'[pos] = ok /\ \A k \in 0 .. 3 : k # pos => m_blk_ok'[k] = m_blk_ok[k]
      /\ m_state = "Sync" /\ m_bit_since' = 0
      /\ \/ m_state' = "Acquire" /\ ~ok
         \/ m_state' = "Sync" /\ m_blockpos' = (IF pos = 3 THEN 0 ELSE pos + 1)
  BY <1>0 DEF SyncOK, Files
<1>2. m_state' = "Sync" => Filled' = pos + 1
  BY <1>0, <1>1 DEF Filled
<1>3. CASE ~ok
  <2>1. ~m_blk_ok'[pos] /\ pos \in 0 .. 3
    BY <1>0, <1>1, <1>3
  <2>2. Current'
    BY <1>0, <1>1, <2>1 DEF Current
  <2>3. m_state' = "Sync" => ~(\A k \in 0 .. Filled' - 1 : m_blk_ok'[k])
    BY <1>0, <1>2, <2>1
  <2>4. QED
    BY <2>1, <2>2, <2>3 DEF Assembled
<1>4. CASE ok
  <2>1. oi # -1
    BY <1>0, <1>4 DEF Accepts
  <2>2. /\ good /\ air.intact /\ (air.phase % BlockBits) + 1 = BlockBits /\ data = Group
        /\ oi = Offset(air.phase \div BlockBits, air.prog.ver) /\ adv = 1
    BY <2>1 DEF Honest, Passes
  <2>3. /\ air.phase \div BlockBits \in 0 .. 3 /\ air.phase % BlockBits \in 0 .. BlockBits - 1
        /\ air.phase + 1 = (air.phase \div BlockBits + 1) * BlockBits
    BY <2>2, NextBit
  <2>4. air.phase \div BlockBits = pos
    BY <1>0, <1>4, <2>2, <2>3, OffsetsTell
  <2>5. m_state' = "Sync" /\ m_blockpos' = (IF pos = 3 THEN 0 ELSE pos + 1)
    BY <1>1, <1>4
  <2>6. m_blk'[pos] = Group /\ Group # Junk
    BY <1>1, <1>4, <2>2, GroupIsKnown
  <2> HIDE DEF ok
  <2>7. Current'
    <3> SUFFICES ASSUME m_blockpos' > 0
                 PROVE  /\ air'.phase = m_blockpos' * BlockBits + m_bit_since'
                        /\ m_blk'[m_blockpos' - 1] = Group'
      BY DEF Current
    <3>1. pos < 3 /\ m_blockpos' = pos + 1 /\ m_blockpos' - 1 = pos
      BY <1>0, <2>5
    <3>2. air.phase + 1 = (pos + 1) * BlockBits /\ air.phase + 1 # GroupBits
      <4>1. (pos + 1) * BlockBits <= 3 * BlockBits
        BY <1>0, <3>1
      <4>2. QED
        BY <1>0, <2>3, <2>4, <4>1
    <3>3. air'.phase = air.phase + 1 /\ Group' = Group
      BY <2>2, <3>2 DEF Passes
    <3>4. QED
      BY <1>0, <1>1, <2>6, <3>1, <3>2, <3>3
  <2>8. ASSUME \A k \in 0 .. pos : m_blk_ok'[k], NEW j \in 0 .. pos
        PROVE  m_blk'[j] = m_blk'[0] /\ m_blk'[j] # Junk
    <3>1. CASE pos = 0
      BY <2>6, <3>1
    <3>2. CASE pos > 0
      <4>1. Filled = pos /\ \A k \in 0 .. pos - 1 : m_blk_ok[k]
        BY <1>0, <1>1, <2>8, <3>2 DEF Filled
      <4>2. \A k \in 0 .. pos - 1 : m_blk[k] = m_blk[0] /\ m_blk[k] # Junk
        BY <1>1, <4>1 DEF Assembled
      <4>3. m_blk[pos - 1] = Group
        <5>1. air.phase % BlockBits = m_bit_since
          BY <1>0, <2>2, <2>3
        <5>2. m_blk_ok[pos - 1]
          BY <1>0, <3>2, <4>1
        <5>3. QED
          BY <1>1, <2>2, <3>2, <5>1, <5>2 DEF Assembled, Current
      <4>4. pos - 1 \in 0 .. pos - 1 /\ 0 \in 0 .. pos - 1 /\ m_blk'[0] = m_blk[0]
        BY <1>0, <1>1, <3>2
      <4>5. CASE j = pos
        BY <2>6, <4>2, <4>3, <4>4, <4>5
      <4>6. CASE j # pos
        <5>1. j \in 0 .. pos - 1 /\ m_blk'[j] = m_blk[j]
          BY <1>0, <1>1, <4>6
        <5>2. QED
          BY <4>2, <4>4, <5>1
      <4>7. QED
        BY <4>5, <4>6
    <3>3. QED
      BY <1>0, <3>1, <3>2
  <2>9. Filled' - 1 = pos
    BY <1>0, <1>2, <2>5
  <2>10. QED
    BY <2>5, <2>7, <2>8, <2>9 DEF Assembled
<1>5. QED
  BY <1>3, <1>4

LEMMA BitAssembled ==
  ASSUME AirOK, SyncOK, Assembled,
         NEW adv \in 0 .. 2, NEW good \in BOOLEAN, NEW oi \in -1 .. 4, NEW data,
         Passes(adv, good), Honest(good, oi, data), block_sync_push(oi, data)
  PROVE  Assembled'
<1>1. CASE Locks(oi) \/ LooksOn(oi)
  BY <1>1 DEF Locks, LooksOn, Assembled, Current, Filled
<1>2. CASE Counts
  <2>1. /\ BlockBits \in Nat \ {0, 1} /\ m_blockpos \in 0 .. 3 /\ m_bit_since \in 0 .. BlockBits - 1
        /\ air.phase \in 0 .. 4 * BlockBits - 1 /\ GroupBits = 4 * BlockBits
    BY Stations DEF SyncOK
  <2>2. /\ m_state = "Sync" /\ m_bit_since + 1 < BlockBits /\ m_bit_since' = m_bit_since + 1
        /\ UNCHANGED <<m_state, m_blockpos, m_blk, m_blk_ok>>
    BY <1>2 DEF Counts
  <2>3. Current'
    <3> SUFFICES ASSUME m_blockpos > 0, m_blk_ok[m_blockpos - 1], air'.intact,
                        air'.phase % BlockBits = m_bit_since + 1
                 PROVE  /\ air'.phase = m_blockpos * BlockBits + m_bit_since + 1
                        /\ m_blk[m_blockpos - 1] = Group'
      BY <2>1, <2>2 DEF Current
    <3>1. /\ air.phase % BlockBits \in 0 .. BlockBits - 1
          /\ air'.phase % BlockBits
            = (IF (air.phase % BlockBits) + adv = BlockBits THEN 0
               ELSE (air.phase % BlockBits) + adv)
      BY NextBit
    <3>2. (air.phase % BlockBits) + adv # BlockBits
      BY <2>1, <3>1
    <3>3. air.intact /\ good /\ adv = 1
      BY <3>2 DEF Passes
    <3>4. air.phase % BlockBits = m_bit_since
      BY <2>1, <3>1, <3>2, <3>3
    <3>5. air.phase = m_blockpos * BlockBits + m_bit_since /\ m_blk[m_blockpos - 1] = Group
      BY <2>2, <3>3, <3>4 DEF Assembled, Current
    <3>6. air.phase + 1 # GroupBits
      <4>1. m_blockpos * BlockBits <= 3 * BlockBits
        BY <2>1
      <4>2. QED
        BY <2>1, <2>2, <3>5, <4>1
    <3>7. air'.phase = air.phase + 1 /\ Group' = Group
      BY <3>3, <3>6 DEF Passes
    <3>8. QED
      BY <2>1, <3>5, <3>7
  <2>4. QED
    BY <2>2, <2>3 DEF Assembled, Filled
<1>3. CASE Files(oi, data)
  BY <1>3, BlockFiled
<1>4. QED
  BY <1>1, <1>2, <1>3, Pushes

\* The match m is of a block of the station's, if the station's group now is at
\* `p`: the group in which that block ended `m.age` bits ago.
Aligned(m, p) ==
  \E n \in Int : p = m.age + (kOffsetPos[m.oi + 1] + 1) * BlockBits - n * GroupBits

\* How long ago there were matches that are not.
StrayAges(acq, p) == {a \in 0 .. Window : \E m \in acq : m.age = a /\ ~Aligned(m, p)}

\* Unless the bit clock slips, every one is a chance match.
FewStrays ==
  may.slips = air.prog.may.slips =>
    Cardinality(StrayAges(m_acq, air.phase)) <= air.prog.may.false - may.false

LEMMA Ages == Window \in Nat /\ Window = 5 * BlockBits /\ Older = Window + 1
  BY RdsDecoderAssumption DEF Window, Older

\* A set of ages, a bit later, with or without a new one.
LEMMA OneMore ==
  ASSUME NEW n \in Nat, NEW S \in SUBSET (0 .. n), NEW T \in SUBSET (0 .. n),
         \A a \in T : a = 0 \/ a - 1 \in S
  PROVE  /\ IsFiniteSet(S) /\ IsFiniteSet(T) /\ Cardinality(S) \in Nat /\ Cardinality(T) \in Nat
         /\ Cardinality(T) <= Cardinality(S) + 1
         /\ 0 \notin T => Cardinality(T) <= Cardinality(S)
<1>1. IsFiniteSet(0 .. n)
  BY FS_Interval
<1>2. IsFiniteSet(S) /\ IsFiniteSet(T)
  BY <1>1, FS_Subset
<1> DEFINE U == T \ {0}
           f == [a \in U |-> a - 1]
<1>3. f \in Injection(U, S)
  <2>1. \A a \in U : a - 1 \in S
    BY Zenon
  <2>2. f \in [U -> S]
    BY <2>1
  <2>3. \A a, b \in U : f[a] = f[b] => a = b
    OBVIOUS
  <2>4. QED
    BY <2>2, <2>3 DEF Injection, IsInjective
<1> HIDE DEF f
<1>4. Cardinality(U) <= Cardinality(S)
  BY <1>2, <1>3, FS_Injection
<1>5. /\ IsFiniteSet(U)
      /\ Cardinality(U) = IF 0 \in T THEN Cardinality(T) - 1 ELSE Cardinality(T)
  BY <1>2, FS_RemoveElement
<1>6. Cardinality(S) \in Nat /\ Cardinality(T) \in Nat /\ Cardinality(U) \in Nat
  BY <1>2, <1>5, FS_CardinalityType
<1> HIDE DEF U
<1>7. QED
  BY <1>2, <1>4, <1>5, <1>6

\* A match stays aligned as the station goes by.
LEMMA AlignedOn ==
  ASSUME AirOK, NEW m, m.age \in Int, m.oi \in 0 .. 4, NEW o, o.age = m.age + 1, o.oi = m.oi,
         NEW p \in Int, p = IF air.phase + 1 = GroupBits THEN 0 ELSE air.phase + 1,
         Aligned(m, air.phase)
  PROVE  Aligned(o, p)
<1>1. BlockBits \in Nat /\ GroupBits \in Nat /\ air.phase \in Int
  BY Stations
<1> DEFINE at == (kOffsetPos[m.oi + 1] + 1) * BlockBits
<1>2. PICK n \in Int : air.phase = m.age + at - n * GroupBits
  BY DEF Aligned
<1>3. at \in Int /\ at = (kOffsetPos[o.oi + 1] + 1) * BlockBits
  BY <1>1 DEF kOffsetPos
<1> HIDE DEF at
<1>4. CASE air.phase + 1 = GroupBits
  <2> DEFINE x == n * GroupBits
             y == (n + 1) * GroupBits
  <2>1. x \in Int /\ y = x + GroupBits /\ air.phase = m.age + at - x
    BY <1>1, <1>2
  <2> HIDE DEF x, y
  <2>2. p = o.age + at - y /\ n + 1 \in Int
    BY <1>1, <1>3, <1>4, <2>1
  <2>3. QED
    BY <1>3, <2>2 DEF Aligned, y
<1>5. CASE air.phase + 1 # GroupBits
  <2>1. p = o.age + at - n * GroupBits
    BY <1>1, <1>2, <1>3, <1>5
  <2>2. QED
    BY <1>3, <2>1 DEF Aligned
<1>6. QED
  BY <1>4, <1>5

\* Whichever block of a group an aligned match is of, it says where the group ends.
LEMMA Ends ==
  ASSUME BlockBits \in Nat \ {0}, NEW p \in 0 .. GroupBits - 1, NEW m,
         m.oi \in 0 .. 4, m.age = (3 - kOffsetPos[m.oi + 1]) * BlockBits, Aligned(m, p)
  PROVE  p = 0
<1> DEFINE q == kOffsetPos[m.oi + 1]
<1>1. q \in 0 .. 3
  BY DEF kOffsetPos
<1>2. PICK n \in Int : p = m.age + (q + 1) * BlockBits - n * GroupBits
  BY DEF Aligned
<1>3. GroupBits = 4 * BlockBits /\ GroupBits \in Nat \ {0}
  BY DEF GroupBits
<1> HIDE DEF q
<1>4. (3 - q) * BlockBits + (q + 1) * BlockBits = GroupBits
  BY <1>1, <1>3
<1>5. p = (1 - n) * GroupBits
  <2>1. (1 - n) * GroupBits = GroupBits - n * GroupBits
    BY <1>3
  <2>2. p = GroupBits - n * GroupBits
    BY <1>1, <1>2, <1>3, <1>4 DEF q
  <2>3. QED
    BY <2>1, <2>2
<1>6. 1 - n >= 1 => (1 - n) * GroupBits >= GroupBits
  BY <1>3
<1>7. 1 - n <= -1 => (1 - n) * GroupBits <= 0 - GroupBits
  BY <1>3
<1>8. CASE 1 - n = 0
  BY <1>3, <1>5, <1>8
<1>9. QED
  BY <1>3, <1>5, <1>6, <1>7, <1>8

\* With a bit of the station, matches grow older; only a chance match is a new stray.
LEMMA StraysAge ==
  ASSUME AirOK, SyncOK, NEW oi \in -1 .. 4, NEW p \in Int,
         p = IF air.phase + 1 = GroupBits THEN 0 ELSE air.phase + 1
  PROVE  LET old == Cardinality(StrayAges(m_acq, air.phase))
             new == Cardinality(StrayAges(Matches(oi), p))
         IN  /\ old \in Nat /\ new \in Nat /\ new <= old + 1
             /\ (oi # -1 /\ ~Aligned([oi |-> oi, age |-> 0], p)) \/ new <= old
<1> DEFINE S == StrayAges(m_acq, air.phase)
           T == StrayAges(Matches(oi), p)
           fresh == [oi |-> oi, age |-> 0]
<1>1. Window \in Nat /\ Older = Window + 1
  BY Ages, RdsDecoderAssumption
<1>2. S \in SUBSET (0 .. Window) /\ T \in SUBSET (0 .. Window)
  BY DEF StrayAges
<1>3. ASSUME NEW a \in T
      PROVE  \/ a = 0 /\ oi # -1 /\ ~Aligned(fresh, p)
             \/ a > 0 /\ a - 1 \in S
  <2>1. a \in 0 .. Window
    BY <1>2
  <2>2. PICK o \in Matches(oi) : o.age = a /\ ~Aligned(o, p)
    BY DEF StrayAges
  <2>3. CASE o = fresh /\ oi >= 0
    BY <2>2, <2>3
  <2>4. CASE o \in Aged
    <3>1. PICK m \in m_acq : o = [m EXCEPT !.age = Min({m.age + 1, Older})]
      BY <2>4 DEF Aged
    <3>2. /\ o.oi = m.oi /\ o.age = (IF m.age + 1 <= Older THEN m.age + 1 ELSE Older)
          /\ m.oi \in 0 .. 4 /\ m.age \in 0 .. Older
      BY <3>1, Ageing DEF SyncOK
    <3>3. a = m.age + 1 /\ m.age \in 0 .. Window
      BY <1>1, <2>1, <2>2, <3>2
    <3>4. ~Aligned(m, air.phase)
      <4> HIDE DEF S, T
      <4>1. m.age \in Int /\ o.age = m.age + 1 /\ o.oi = m.oi
        BY <1>1, <2>2, <3>2, <3>3
      <4>2. Aligned(m, air.phase) => Aligned(o, p)
        BY <3>2, <4>1, AlignedOn
      <4>3. QED
        BY <2>2, <4>2
    <3>5. m.age \in S
      BY <3>3, <3>4 DEF StrayAges
    <3>6. QED
      BY <2>1, <3>3, <3>5
  <2>5. o \in Aged \/ (o = fresh /\ oi >= 0)
    BY DEF Matches
  <2>6. QED
    BY <2>3, <2>4, <2>5
<1> HIDE DEF S, T, fresh
<1>4. \A a \in T : a = 0 \/ a - 1 \in S
  BY <1>3
<1>5. /\ Cardinality(S) \in Nat /\ Cardinality(T) \in Nat /\ Cardinality(T) <= Cardinality(S) + 1
      /\ 0 \notin T => Cardinality(T) <= Cardinality(S)
  BY <1>1, <1>2, <1>4, OneMore
<1>6. 0 \in T => oi # -1 /\ ~Aligned(fresh, p)
  BY <1>3
<1>7. QED
  BY <1>5, <1>6 DEF S, T, fresh

\* The match of a block that arrived intact is aligned.
LEMMA HitIsAligned ==
  ASSUME AirOK, NEW good, NEW oi \in -1 .. 4, NEW data, oi # -1,
         Passes(1, good), Honest(good, oi, data)
  PROVE  Aligned([oi |-> oi, age |-> 0], air'.phase) /\ (oi = 4 => air'.phase = 0)
<1> DEFINE q == air.phase \div BlockBits
           m == [oi |-> oi, age |-> 0]
<1>1. BlockBits \in Nat \ {0} /\ air.prog.ver \in 0 .. 1 /\ GroupBits = 4 * BlockBits
  BY Stations
<1>2. q \in 0 .. 3 /\ air.phase + 1 = (q + 1) * BlockBits
  <2>1. 1 \in 0 .. 2 /\ (air.phase % BlockBits) + 1 = BlockBits
    BY DEF Honest
  <2>2. QED
    BY <2>1, NextBit
<1>3. oi = Offset(q, air.prog.ver)
  BY DEF Honest
<1>4. air'.phase = IF air.phase + 1 = GroupBits THEN 0 ELSE air.phase + 1
  BY DEF Passes
<1> HIDE DEF q
<1>5. kOffsetPos[oi + 1] = q /\ (oi = 4 => q = 3)
  BY <1>1, <1>2, <1>3, OffsetsTell
<1>6. m.age = 0 /\ kOffsetPos[m.oi + 1] = q
  BY <1>5
<1> HIDE DEF m
<1>7. \E n \in Int : air'.phase = m.age + (q + 1) * BlockBits - n * GroupBits
  <2>1. CASE air.phase + 1 = GroupBits
    <3>1. air'.phase = m.age + (q + 1) * BlockBits - 1 * GroupBits
      BY <1>1, <1>2, <1>4, <1>6, <2>1
    <3>2. QED
      BY <3>1
  <2>2. CASE air.phase + 1 # GroupBits
    <3>1. air'.phase = m.age + (q + 1) * BlockBits - 0 * GroupBits
      BY <1>1, <1>2, <1>4, <1>6, <2>2
    <3>2. QED
      BY <3>1
  <2>3. QED
    BY <2>1, <2>2
<1>8. Aligned(m, air'.phase)
  BY <1>6, <1>7 DEF Aligned
<1>9. oi = 4 => air'.phase = 0
  BY <1>1, <1>2, <1>4, <1>5
<1>10. QED
  BY <1>8, <1>9 DEF m

\* The strays after a bit of the station: none but those of chance.
LEMMA StraysStay ==
  ASSUME AirOK, SyncOK, FewStrays, NEW good, NEW oi \in -1 .. 4, NEW data,
         Passes(1, good), Honest(good, oi, data) \/ Chance(1), may.slips = air.prog.may.slips
  PROVE  /\ Cardinality(StrayAges(Matches(oi), air'.phase)) \in Nat
         /\ Cardinality(StrayAges(Matches(oi), air'.phase)) <= air.prog.may.false - may'.false
<1>1. /\ may.false \in Nat /\ air.prog.may.false \in Nat
      /\ air'.phase \in Int
      /\ air'.phase = IF air.phase + 1 = GroupBits THEN 0 ELSE air.phase + 1
  BY Stations DEF AirOK, Mishaps, Passes
<1> DEFINE old == Cardinality(StrayAges(m_acq, air.phase))
           new == Cardinality(StrayAges(Matches(oi), air'.phase))
<1>2. /\ old \in Nat /\ new \in Nat /\ new <= old + 1
      /\ (oi # -1 /\ ~Aligned([oi |-> oi, age |-> 0], air'.phase)) \/ new <= old
  BY <1>1, StraysAge
<1>3. old <= air.prog.may.false - may.false
  BY DEF FewStrays
<1> HIDE DEF old
<1>4. CASE Honest(good, oi, data)
  <2>1. new <= old
    BY <1>2, <1>4, HitIsAligned
  <2> HIDE DEF new
  <2>2. new <= air.prog.may.false - may'.false
    BY <1>1, <1>2, <1>3, <1>4, <2>1 DEF Honest
  <2>3. QED
    BY <1>2, <2>2 DEF new
<1>5. CASE Chance(1)
  <2> HIDE DEF new
  <2>1. new <= air.prog.may.false - may'.false
    BY <1>1, <1>2, <1>3, <1>5 DEF Chance
  <2>2. QED
    BY <1>2, <2>1 DEF new
<1>6. QED
  BY <1>4, <1>5

LEMMA NoStrays == \A p : Cardinality(StrayAges({}, p)) = 0
<1>1. \A p : StrayAges({}, p) = {}
  BY DEF StrayAges
<1>2. QED
  BY <1>1, FS_EmptySet

LEMMA Added ==
  ASSUME NEW S, IsFiniteSet(S), NEW x, x \notin S
  PROVE  /\ IsFiniteSet(S \cup {x})
         /\ Cardinality(S) = 0 => Cardinality(S \cup {x}) = 1
         /\ Cardinality(S) = 1 => Cardinality(S \cup {x}) = 2
         /\ Cardinality(S) = 2 => Cardinality(S \cup {x}) = 3
         /\ Cardinality(S) = 3 => Cardinality(S \cup {x}) = 4
<1>1. IsFiniteSet(S \cup {x}) /\ Cardinality(S \cup {x}) = Cardinality(S) + 1
  BY FS_AddElement
<1>2. QED
  BY <1>1

\* More chance matches than three would be needed for a lock out of place.
LEMMA LockedTrue ==
  ASSUME AirOK, SyncOK, FewStrays, air.prog.may.false <= 3, NEW good,
         Passes(1, good), Chance(1), Locks(4), may.slips = air.prog.may.slips
  PROVE  air'.phase = 0
<1> DEFINE p == air'.phase
           T == StrayAges(Matches(4), p)
           B == BlockBits
<1>1. /\ B \in Nat \ {0, 1} /\ p \in 0 .. GroupBits - 1 /\ Window = 5 * B
      /\ may.false \in Nat /\ may'.false = may.false - 1 /\ may.false > 0
      /\ air.prog.may.false \in Nat
  BY Stations, Ages DEF AirOK, Airs, Mishaps, Passes, Chance
<1>2. Cardinality(T) \in Nat /\ Cardinality(T) <= air.prog.may.false - may'.false
  <2>1. 4 \in -1 .. 4
    OBVIOUS
  <2>2. QED
    BY <2>1, StraysStay
<1>3. Cardinality(T) <= 3
  <2> HIDE DEF T
  <2>1. QED
    BY <1>1, <1>2
<1>4. Matches(4) \in SUBSET [oi : 0 .. 4, age : 0 .. Older]
  <2>1. Older \in Nat
    BY <1>1, Ages
  <2>2. Aged \in SUBSET [oi : 0 .. 4, age : 0 .. Older]
    <3>1. \A m \in m_acq :
            [m EXCEPT !.age = Min({m.age + 1, Older})] \in [oi : 0 .. 4, age : 0 .. Older]
      BY Ageing
    <3>2. QED
      BY <3>1 DEF Aged
  <2>3. [oi |-> 4, age |-> 0] \in [oi : 0 .. 4, age : 0 .. Older]
    BY <2>1
  <2>4. QED
    BY <2>2, <2>3 DEF Matches
<1>5. ASSUME NEW pos \in 0 .. 3, has(Matches(4), pos, (3 - pos) * B), p # 0
      PROVE  (3 - pos) * B \in T
  <2>1. PICK m \in Matches(4) : m.age = (3 - pos) * B /\ kOffsetPos[m.oi + 1] = pos
    BY <1>5 DEF has
  <2>2. ~Aligned(m, p)
    BY <1>1, <1>4, <1>5, <2>1, Ends
  <2>3. (3 - pos) * B \in 0 .. Window
    <3>1. (3 - pos) * B <= 3 * B /\ (3 - pos) * B >= 0 /\ (3 - pos) * B \in Int
      BY <1>1
    <3>2. QED
      BY <1>1, <3>1
  <2>4. QED
    BY <2>1, <2>2, <2>3 DEF StrayAges
<1>6. /\ has(Matches(4), 3, 0 * B) /\ has(Matches(4), 2, 1 * B)
      /\ has(Matches(4), 1, 2 * B) /\ has(Matches(4), 0, 3 * B)
  <2>1. has(Matches(4), 2, B) /\ has(Matches(4), 1, 2 * B) /\ has(Matches(4), 0, 3 * B)
    BY DEF Locks, Anchored
  <2>2. [oi |-> 4, age |-> 0] \in Matches(4)
    BY DEF Matches
  <2>3. kOffsetPos[5] = 3
    BY DEF kOffsetPos
  <2>4. has(Matches(4), 3, 0)
    BY <2>2, <2>3 DEF has
  <2>5. 0 * B = 0 /\ 1 * B = B
    BY <1>1
  <2>6. QED
    BY <2>1, <2>4, <2>5
<1> SUFFICES ASSUME p # 0 PROVE FALSE
  BY DEF p
<1>7. {0, B, 2 * B, 3 * B} \subseteq T
  <2>1. 0 * B \in T
    BY <1>5, <1>6
  <2>2. 1 * B \in T
    BY <1>5, <1>6
  <2>3. 2 * B \in T
    BY <1>5, <1>6
  <2>4. 3 * B \in T
    BY <1>5, <1>6
  <2> HIDE DEF T
  <2>5. QED
    BY <1>1, <2>1, <2>2, <2>3, <2>4
<1>8. IsFiniteSet(T)
  <2>1. T \in SUBSET (0 .. Window)
    BY Zenon DEF StrayAges
  <2> HIDE DEF T
  <2>2. Window \in Int
    BY Ages
  <2>3. IsFiniteSet(0 .. Window)
    <3>1. \A n \in Int : IsFiniteSet(0 .. n)
      BY FS_Interval
    <3>2. QED
      BY <2>2, <3>1
  <2>4. QED
    BY <2>1, <2>3, FS_Subset
<1> HIDE DEF T, B
<1>9. {0, B, 2 * B, 3 * B} = ((({} \cup {0}) \cup {B}) \cup {2 * B}) \cup {3 * B}
  OBVIOUS
<1>10. Cardinality(((({} \cup {0}) \cup {B}) \cup {2 * B}) \cup {3 * B}) = 4
  <2>1. /\ 0 \notin {} /\ B \notin {} \cup {0} /\ 2 * B \notin ({} \cup {0}) \cup {B}
        /\ 3 * B \notin (({} \cup {0}) \cup {B}) \cup {2 * B}
    BY <1>1
  <2>2. IsFiniteSet({}) /\ Cardinality({}) = 0
    BY FS_EmptySet
  <2>3. IsFiniteSet({} \cup {0}) /\ Cardinality({} \cup {0}) = 1
    BY <2>1, <2>2, Added
  <2>4. IsFiniteSet(({} \cup {0}) \cup {B}) /\ Cardinality(({} \cup {0}) \cup {B}) = 2
    BY <2>1, <2>3, Added
  <2>5. /\ IsFiniteSet((({} \cup {0}) \cup {B}) \cup {2 * B})
        /\ Cardinality((({} \cup {0}) \cup {B}) \cup {2 * B}) = 3
    BY <2>1, <2>4, Added
  <2>6. QED
    BY <2>1, <2>5, Added
<1>11. Cardinality({0, B, 2 * B, 3 * B}) = 4
  BY <1>9, <1>10
<1>12. QED
  BY <1>2, <1>3, <1>7, <1>8, <1>11, FS_Subset

\* GroupsAreWhole, until a chance match.
Whole == AirOK /\ SyncOK /\ (Unused("false") => Assembled)

LEMMA WholeAtFirst == DecoderInit => Whole
<1> SUFFICES ASSUME DecoderInit PROVE Whole
  OBVIOUS
<1>1. PICK p \in Programmes : \E msg \in p.msgs :
         /\ air = [prog |-> p, msg |-> msg, ab |-> 0, seg |-> 0, phase |-> 0,
                   intact |-> TRUE, faded |-> FALSE]
         /\ may = p.may
  BY Zenon DEF DecoderInit
<1>2. PICK msg \in p.msgs :
         /\ air = [prog |-> p, msg |-> msg, ab |-> 0, seg |-> 0, phase |-> 0,
                   intact |-> TRUE, faded |-> FALSE]
         /\ may = p.may
  BY <1>1
<1>3. 0 \in 0 .. GroupBits - 1 /\ p.may \in Mishaps
  BY RdsDecoderAssumption DEF GroupBits
<1>4. AirOK
  <2>1. air \in Airs /\ air.prog = p /\ air.msg \in air.prog.msgs
    BY <1>2, <1>3 DEF Airs
  <2>2. may.slips \in Nat /\ may.false \in Nat
    BY <1>2, <1>3 DEF Mishaps
  <2>3. QED
    BY <1>2, <1>3, <2>1, <2>2 DEF AirOK
<1>5. SyncOK
  BY RdsDecoderAssumption DEF SyncOK, DecoderInit
<1>6. Assembled
  <2>1. m_state = "Acquire" /\ ~m_blk_ok[0]
    BY DEF DecoderInit
  <2>2. QED
    BY <2>1 DEF Assembled, Current
<1>7. QED
  BY <1>4, <1>5, <1>6 DEF Whole

\* A chance match is one used.
LEMMA ChanceUsesOne ==
  ASSUME AirOK, NEW adv, Chance(adv), air'.prog = air.prog
  PROVE  ~Unused("false")'
  BY DEF Chance, Unused, AirOK, Mishaps, Airs

LEMMA WholeStep == Whole /\ [DecoderNext]_decoderVars => Whole'
<1> SUFFICES ASSUME Whole, [DecoderNext]_decoderVars PROVE Whole'
  OBVIOUS
<1>1. AirOK /\ SyncOK /\ (Unused("false") => Assembled)
  BY DEF Whole
<1>2. ASSUME NEW adv \in 0 .. 2, NEW good \in BOOLEAN, NEW oi \in -1 .. 4, NEW data,
             Passes(adv, good), block_sync_push(oi, data),
             Honest(good, oi, data) \/ Chance(adv)
      PROVE  Whole'
  <2>1. AirOK' /\ air'.prog = air.prog
    BY <1>2 DEF Passes
  <2>2. SyncOK'
    BY <1>1, <1>2, SyncStep
  <2>3. CASE Honest(good, oi, data)
    <3>1. Unused("false")' => Unused("false")
      BY <2>1, <2>3 DEF Honest, Unused
    <3>2. Assembled => Assembled'
      BY <1>1, <1>2, <2>3, BitAssembled
    <3>3. QED
      BY <1>1, <2>1, <2>2, <3>1, <3>2 DEF Whole
  <2>4. CASE Chance(adv)
    BY <1>1, <2>1, <2>2, <2>4, ChanceUsesOne DEF Whole
  <2>5. QED
    BY <1>2, <2>3, <2>4
<1>3. CASE Fades
  <2>1. /\ AirOK' /\ air' = [air EXCEPT !.faded = air'.faded, !.intact = FALSE]
        /\ may'.false = may.false
    BY <1>3 DEF Fades
  <2>2. air'.prog = air.prog /\ air'.intact = FALSE
    BY <1>1, <2>1 DEF AirOK, Airs
  <2>3. /\ m_state' = m_state /\ m_acq' = m_acq /\ m_blockpos' = m_blockpos
        /\ m_bit_since' = m_bit_since /\ m_bad_run' = m_bad_run
        /\ m_blk' = m_blk /\ m_blk_ok' = m_blk_ok
    BY <1>3 DEF Fades, sync
  <2>4. SyncOK'
    BY <1>1, <2>3 DEF SyncOK
  <2>5. Unused("false")' => Unused("false")
    BY <2>1, <2>2 DEF Unused
  <2>6. Assembled => Assembled'
    BY <2>2, <2>3 DEF Assembled, Current, Filled
  <2>7. QED
    BY <1>1, <2>1, <2>4, <2>5, <2>6 DEF Whole
<1>4. CASE UNCHANGED decoderVars
  BY <1>1, <1>4 DEF decoderVars, sync, Whole, AirOK, SyncOK, Unused, Assembled, Current,
                    Filled, Group
<1>5. QED
  BY <1>1, <1>2, <1>3, <1>4, Steps

\* What a decoder has of the air and of the bits is always of its type.
THEOREM DecoderTypes == DecoderSpec => [](AirOK /\ SyncOK)
<1>1. Whole => AirOK /\ SyncOK
  BY DEF Whole
<1>2. QED
  BY <1>1, WholeAtFirst, WholeStep, PTL DEF DecoderSpec

\* Four good blocks parsed as a group are one group of the station's, for every
\* length of block, every station and every number of errors, slips and fades.
THEOREM GroupsSentWhole == DecoderSpec => []GroupsAreWhole
<1>1. Whole => GroupsAreWhole
  <2> SUFFICES ASSUME Whole, m_blockpos = 0, \A k \in 0 .. 3 : m_blk_ok[k], Unused("false"),
                      NEW k \in 0 .. 3
               PROVE  m_blk[k] = m_blk[0] /\ m_blk[k] # Junk
    BY DEF GroupsAreWhole
  <2>1. SyncOK /\ Assembled
    BY DEF Whole
  <2>2. m_state = "Sync" /\ Filled - 1 = 3
    BY <2>1 DEF SyncOK, Assembled, Filled
  <2>3. QED
    BY <2>1, <2>2 DEF Assembled
<1>2. QED
  BY <1>1, WholeAtFirst, WholeStep, PTL DEF DecoderSpec

\* LockIsTrue, from the strays there may be.
Placed == AirOK /\ SyncOK /\ FewStrays

LEMMA PlacedAtFirst == DecoderInit => Placed
<1> SUFFICES ASSUME DecoderInit PROVE Placed
  OBVIOUS
<1>1. AirOK /\ SyncOK
  BY WholeAtFirst DEF Whole
<1>2. /\ may.false \in Nat /\ air.prog.may.false = may.false
  BY <1>1 DEF AirOK, Mishaps, DecoderInit
<1>3. m_acq = {}
  BY DEF DecoderInit
<1>4. FewStrays
  BY <1>2, <1>3, NoStrays DEF FewStrays
<1>5. QED
  BY <1>1, <1>4 DEF Placed

LEMMA PlacedStep == Placed /\ [DecoderNext]_decoderVars => Placed'
<1> SUFFICES ASSUME Placed, [DecoderNext]_decoderVars PROVE Placed'
  OBVIOUS
<1>1. /\ AirOK /\ SyncOK /\ FewStrays
      /\ may.slips \in Nat /\ may.false \in Nat
      /\ air.prog.may.slips \in Nat /\ air.prog.may.false \in Nat
      /\ may.slips <= air.prog.may.slips /\ may.false <= air.prog.may.false
  BY Stations DEF Placed, AirOK, Mishaps
<1>2. ASSUME NEW adv \in 0 .. 2, NEW good \in BOOLEAN, NEW oi \in -1 .. 4, NEW data,
             Passes(adv, good), block_sync_push(oi, data),
             Honest(good, oi, data) \/ Chance(adv)
      PROVE  Placed'
  <2>1. AirOK' /\ air'.prog = air.prog
    BY <1>2 DEF Passes
  <2>2. SyncOK'
    BY <1>1, <1>2, SyncStep
  <2>3. may'.false \in Nat /\ may'.slips \in Nat /\ may'.false <= may.false
    BY <1>1, <1>2, <2>1 DEF Honest, Chance, AirOK, Mishaps
  <2>4. ASSUME may'.slips = air'.prog.may.slips
        PROVE  Cardinality(StrayAges(m_acq', air'.phase)) <= air'.prog.may.false - may'.false
    <3>1. adv = 1 /\ may.slips = air.prog.may.slips
      BY <1>1, <1>2, <2>1, <2>3, <2>4 DEF Passes
    <3>2. CASE m_acq' = {}
      BY <1>1, <2>1, <2>3, <3>2, NoStrays
    <3>3. CASE m_acq' = Matches(oi)
      <4>1. Passes(1, good) /\ (Honest(good, oi, data) \/ Chance(1))
        BY <1>2, <3>1
      <4>2. Cardinality(StrayAges(Matches(oi), air'.phase)) <= air.prog.may.false - may'.false
        BY <1>1, <3>1, <4>1, StraysStay
      <4>3. QED
        BY <2>1, <3>3, <4>2
    <3>4. m_acq' = {} \/ m_acq' = Matches(oi)
      BY <1>1, <1>2, Pushes DEF Locks, LooksOn, Counts, Files, SyncOK
    <3>5. QED
      BY <3>2, <3>3, <3>4
  <2>5. QED
    BY <2>1, <2>2, <2>4 DEF Placed, FewStrays
<1>3. CASE Fades
  <2>1. AirOK' /\ SyncOK'
    <3>1. /\ UNCHANGED <<m_state, m_acq, m_blockpos, m_bit_since, m_bad_run, m_blk, m_blk_ok>>
          /\ AirOK'
      BY <1>3 DEF Fades, sync
    <3>2. QED
      BY <1>1, <3>1 DEF SyncOK
  <2>2. /\ air' = [air EXCEPT !.faded = air'.faded, !.intact = FALSE]
        /\ may'.slips = may.slips /\ may'.false = may.false /\ m_acq' = m_acq
    BY <1>3 DEF Fades, sync
  <2>3. air'.prog = air.prog /\ air'.phase = air.phase
    BY <1>1, <2>2 DEF AirOK, Airs
  <2>4. FewStrays'
    BY <1>1, <2>2, <2>3 DEF FewStrays
  <2>5. QED
    BY <2>1, <2>4 DEF Placed
<1>4. CASE UNCHANGED decoderVars
  BY <1>1, <1>4 DEF decoderVars, sync, Placed, AirOK, SyncOK, FewStrays
<1>5. QED
  BY <1>1, <1>2, <1>3, <1>4, Steps

\* With at most three chance matches, a lock ...
LEMMA LocksTrue ==
  ASSUME \A p \in Programmes : p.may.false <= 3, Placed, [DecoderNext]_decoderVars,
         m_state = "Acquire", m_state' = "Sync", Unused("slips")' \/ Unused("false")'
  PROVE  air'.phase = 0
<1>1. AirOK /\ SyncOK /\ FewStrays /\ air.prog.may.false <= 3
  BY Stations DEF Placed
<1>2. m_state' # m_state
  OBVIOUS
<1>3. ~Fades /\ ~(UNCHANGED decoderVars)
  BY <1>2 DEF Fades, sync, decoderVars
<1>3a. PICK adv \in 0 .. 2, good \in BOOLEAN, oi \in -1 .. 4 : \E data :
         /\ Passes(adv, good) /\ block_sync_push(oi, data)
         /\ Honest(good, oi, data) \/ Chance(adv)
  BY <1>1, <1>3, Steps
<1>4. PICK data :
         /\ Passes(adv, good) /\ block_sync_push(oi, data)
         /\ Honest(good, oi, data) \/ Chance(adv)
  BY <1>3a
<1>5. Locks(oi) /\ oi = 4
  BY <1>1, <1>2, <1>4, Pushes DEF Locks, LooksOn, Counts, Files
<1>6. CASE Honest(good, oi, data)
  <2>1. good /\ adv = 1 /\ oi # -1
    BY <1>4, <1>5, <1>6 DEF Honest, Passes
  <2>2. QED
    BY <1>1, <1>4, <1>5, <1>6, <2>1, HitIsAligned
<1>7. CASE Chance(adv)
  <2>1. adv = 1 /\ AirOK' /\ air'.prog = air.prog
    BY <1>4, <1>7 DEF Chance, Passes
  <2>2. may'.slips = air.prog.may.slips
    BY <1>1, <1>7, <2>1, ChanceUsesOne DEF Unused
  <2>3. may.slips = air.prog.may.slips
    <3>1. may'.slips <= may.slips /\ may.slips <= air.prog.may.slips
      BY <1>1, <1>4 DEF Passes, AirOK
    <3>2. may.slips \in Int /\ air.prog.may.slips \in Int /\ may'.slips \in Int
      BY <1>1, <2>1, Stations DEF AirOK, Mishaps
    <3>3. QED
      BY <2>2, <3>1, <3>2
  <2>4. Passes(1, good) /\ Chance(1) /\ Locks(4)
    BY <1>4, <1>5, <1>7, <2>1
  <2>5. QED
    BY <1>1, <2>3, <2>4, LockedTrue
<1>8. QED
  BY <1>4, <1>6, <1>7

\* ... is where a group of the station's ends, for every length of block and every
\* number of errors, fades and slips.
THEOREM LocksWhereGroupsEnd ==
  ASSUME \A p \in Programmes : p.may.false <= 3
  PROVE  DecoderSpec => LockIsTrue
<1>1. Placed /\ [DecoderNext]_decoderVars =>
        [/\ m_state = "Acquire" /\ m_state' = "Sync"
         /\ Unused("slips")' \/ Unused("false")'
         => air'.phase = 0]_decoderVars
  BY LocksTrue
<1>2. QED
  BY <1>1, PlacedAtFirst, PlacedStep, PTL DEF DecoderSpec, LockIsTrue
-----------------------------------------------------------------------------
(* RdsDecoder: the calendar.                                               *)

\* The days for which the arithmetic of the clock is meant end with 28 February 2100; they
\* begin with FirstDay, 1 March 1900, before which the code takes none.
LastDay == 88127

\* Day m is day r of the year from January to the second February, counted so that March
\* begins with 123; the year is 4 * a + j since 1900.
Dated(m, a, j, r) ==
  /\ (100 * (m - 15078) - 20) \div YearLen = 4 * a + j
  /\ ((4 * a + j) * YearLen) \div 100 = 1461 * a + 365 * j
  /\ m = 14956 + 1461 * a + 365 * j + r
  /\ r = 488 => j = 3 /\ a # 49
DaysOfYear == 123 .. 488
LEMMA YearOf ==
  ASSUME NEW m \in Nat, FirstDay <= m, m <= LastDay
  PROVE  \E a \in 0 .. 49, j \in 0 .. 3, r \in DaysOfYear : Dated(m, a, j, r)
<1> DEFINE x == 100 * (m - 15078) - 20
<1>1. PICK y \in Int, s \in Int : y = x \div YearLen /\ x = y * YearLen + s /\ 0 <= s /\ s < YearLen
  <2>1. x \in Int /\ YearLen \in Nat \ {0}
    BY SMTT(30) DEF YearLen
  <2> HIDE DEF x
  <2>2. PICK q \in Int, r \in 0 .. YearLen - 1 :
           q = x \div YearLen /\ r = x % YearLen /\ x = q * YearLen + r
    BY <2>1, Division
  <2>3. r \in Int /\ 0 <= r /\ r < YearLen
    BY <2>1, <2>2
  <2>4. QED
    BY <2>2, <2>3
<1>2. PICK a \in Int, j \in 0 .. 3 : y = 4 * a + j
  <2> DEFINE b == 4
  <2>1. b \in Nat \ {0}
    OBVIOUS
  <2> HIDE DEF b
  <2>2. PICK q \in Int, r \in 0 .. b - 1 : q = y \div b /\ r = y % b /\ y = q * b + r
    BY <2>1, Division
  <2>3. r \in 0 .. 3 /\ y = 4 * q + r
    BY <2>2 DEF b
  <2>4. QED
    BY <2>3, Zenon
<1>3. a \in 0 .. 49
  <2>1. 0 <= y /\ y < 200
    BY <1>1, SMTT(30) DEF FirstDay, LastDay, YearLen
  <2>2. QED
    BY <1>2, <2>1
<1>4. (y * YearLen) \div 100 = 1461 * a + 365 * j
  <2> DEFINE whole == 1461 * a + 365 * j
             all == y * YearLen
             b == 100
  <2>1. all = whole * b + 25 * j /\ all \in Int
    BY <1>2, <1>3, SMTT(30) DEF YearLen
  <2>2. b \in Nat \ {0} /\ 25 * j \in 0 .. b - 1 /\ whole \in Int
    BY <1>2, <1>3
  <2> HIDE DEF whole, all, b
  <2>3. all \div b = whole
    BY <2>1, <2>2, Quotient
  <2>4. QED
    BY <2>3 DEF whole, all, b
<1> DEFINE r == m - 14956 - 1461 * a - 365 * j
<1>5. r \in Int /\ 100 * r = 12220 + 25 * j + s /\ m = 14956 + 1461 * a + 365 * j + r
  BY <1>1, <1>2, <1>3, SMTT(30) DEF YearLen
<1> HIDE DEF r
<1>6. 123 <= r /\ r <= 488 /\ (r = 488 => j = 3)
  BY <1>1, <1>5, SMTT(30) DEF YearLen
<1>7. r = 488 => j = 3 /\ a # 49
  BY <1>3, <1>5, <1>6, SMTT(30) DEF LastDay
<1>8. x \div YearLen = 4 * a + j /\ ((4 * a + j) * YearLen) \div 100 = 1461 * a + 365 * j
  BY <1>1, <1>2, <1>4
<1>9. r \in DaysOfYear
  BY <1>5, <1>6 DEF DaysOfYear
<1>10. Dated(m, a, j, r)
  BY <1>5, <1>7, <1>8 DEF Dated
<1>11. QED
  BY <1>3, <1>9, <1>10, Zenon

\* The month and the day of day r of that year: March is month 4, and the second
\* February month 15.
LEMMA MonthOf ==
  ASSUME NEW r \in DaysOfYear, NEW k, k = (10000 * r - 1000) \div MonthLen
  PROVE  /\ k \in 4 .. 15
         /\ r - (k * MonthLen) \div 10000 \in Int
         /\ \/ k = 4 /\ 123 <= r /\ r <= 153 /\ (k * MonthLen) \div 10000 = 122
            \/ k = 5 /\ 154 <= r /\ r <= 183 /\ (k * MonthLen) \div 10000 = 153
            \/ k = 6 /\ 184 <= r /\ r <= 214 /\ (k * MonthLen) \div 10000 = 183
            \/ k = 7 /\ 215 <= r /\ r <= 244 /\ (k * MonthLen) \div 10000 = 214
            \/ k = 8 /\ 245 <= r /\ r <= 275 /\ (k * MonthLen) \div 10000 = 244
            \/ k = 9 /\ 276 <= r /\ r <= 306 /\ (k * MonthLen) \div 10000 = 275
            \/ k = 10 /\ 307 <= r /\ r <= 336 /\ (k * MonthLen) \div 10000 = 306
            \/ k = 11 /\ 337 <= r /\ r <= 367 /\ (k * MonthLen) \div 10000 = 336
            \/ k = 12 /\ 368 <= r /\ r <= 397 /\ (k * MonthLen) \div 10000 = 367
            \/ k = 13 /\ 398 <= r /\ r <= 428 /\ (k * MonthLen) \div 10000 = 397
            \/ k = 14 /\ 429 <= r /\ r <= 459 /\ (k * MonthLen) \div 10000 = 428
            \/ k = 15 /\ 460 <= r /\ r <= 488 /\ (k * MonthLen) \div 10000 = 459
<1>1. r \in Int /\ 123 <= r /\ r <= 488
  BY DEF DaysOfYear
<1>2. k \in Int /\ k * MonthLen <= 10000 * r - 1000 /\ 10000 * r - 1000 < (k + 1) * MonthLen
  BY <1>1, SMTT(30) DEF MonthLen
<1>3. QED
  BY <1>1, <1>2, SMTT(60) DEF MonthLen

\* The days before a year and to the end of its February, and before the next year.
Before(y) == 365 * y + (y \div 4) - (y \div 100) + (y \div 400) - 678576
LEMMA YearBegins ==
  ASSUME NEW a \in 0 .. 49, NEW j \in 0 .. 3, NEW n, n = 4 * a + j + 1900
  PROVE  /\ Before(n - 1) \in Int
         /\ Before(n - 1) + (IF Leap(n) THEN 1 ELSE 0) = 15019 + 1461 * a + 365 * j
         /\ Before(n) = 15384 + 1461 * a + 365 * j
         /\ j = 3 /\ a # 49 => Leap(n + 1)
<1>1. n \in 1900 .. 2099
  OBVIOUS
<1>2. /\ n \div 4 = a + 475 /\ n % 4 = j
      /\ (n - 1) \div 4 = (IF j = 0 THEN a + 474 ELSE a + 475)
  OBVIOUS
<1>3. /\ n \div 100 = (IF n < 2000 THEN 19 ELSE 20)
      /\ (n - 1) \div 100 = (IF n = 1900 THEN 18 ELSE IF n <= 2000 THEN 19 ELSE 20)
      /\ n % 100 = 0 <=> n \in {1900, 2000}
  BY <1>1
<1>4. /\ n \div 400 = (IF n < 2000 THEN 4 ELSE 5)
      /\ (n - 1) \div 400 = (IF n <= 2000 THEN 4 ELSE 5)
      /\ n = 2000 => n % 400 = 0
      /\ n = 1900 => n % 400 # 0
  BY <1>1
<1>5. Leap(n) <=> j = 0 /\ n # 1900
  BY <1>2, <1>3, <1>4 DEF Leap
<1>6. Before(n) = 15384 + 1461 * a + 365 * j
  BY <1>1, <1>2, <1>3, <1>4 DEF Before
<1>7. /\ Before(n - 1) \in Int
      /\ Before(n - 1) + (IF Leap(n) THEN 1 ELSE 0) = 15019 + 1461 * a + 365 * j
  BY <1>1, <1>2, <1>3, <1>4, <1>5 DEF Before
<1>8. j = 3 /\ a # 49 => Leap(n + 1)
  <2> SUFFICES ASSUME j = 3, a # 49 PROVE Leap(n + 1)
    OBVIOUS
  <2>1. (n + 1) % 4 = 0 /\ n + 1 <= 2096 /\ n + 1 >= 1904
    OBVIOUS
  <2>2. (n + 1) % 100 # 0 \/ (n + 1) % 400 = 0
    BY <2>1
  <2>3. QED
    BY <2>1, <2>2 DEF Leap
<1>9. QED
  BY <1>6, <1>7, <1>8

\* What parse_ct() shows of a clock group is a date of the calendar, and the date of the
\* group's Julian day, with its hour and minute, for every day until LastDay: the two
\* truncating divisions by 365.25 and 30.6001 lose no day.
THEOREM CalendarHolds ==
  ASSUME NEW c, c.mjd \in Nat, c.mjd <= LastDay, NEW old, NEW t, t = parse_ct(old, c)
  PROVE  \/ t = old
         \/ /\ t.day \in 1 .. MonthDays(t.year, t.month)
            /\ c.mjd = DayNumber(t) /\ c.hour = t.hour /\ c.minute = t.minute
<1> DEFINE m == c.mjd
           yp == (100 * (m - 15078) - 20) \div YearLen
           days == (yp * YearLen) \div 100
           mp == (10000 * (m - 14956 - days) - 1000) \div MonthLen
           before == (mp * MonthLen) \div 10000
           k == IF mp \in {14, 15} THEN 1 ELSE 0
           date == DateOf(m)
<1>1. t = old \/ (/\ m >= FirstDay /\ c.hour = t.hour /\ c.minute = t.minute
                  /\ t.year = date.year /\ t.month = date.month /\ t.day = date.day)
  <2>1. FirstDay \in Int
    BY DEF FirstDay
  <2>2. QED
    BY <2>1 DEF parse_ct
<1> SUFFICES ASSUME m >= FirstDay, t.year = date.year, t.month = date.month, t.day = date.day
             PROVE  t.day \in 1 .. MonthDays(t.year, t.month) /\ c.mjd = DayNumber(t)
  BY <1>1
<1>2. PICK a \in 0 .. 49, j \in 0 .. 3, r \in DaysOfYear : Dated(m, a, j, r)
  <2>1. m \in Nat /\ FirstDay <= m /\ m <= LastDay
    BY DEF FirstDay
  <2> HIDE DEF m
  <2>2. QED
    BY <2>1, YearOf, SMTT(30)
<1>3. /\ t.year = yp + k + 1900 /\ t.month = mp - 1 - 12 * k
      /\ t.day = m - 14956 - days - before
  BY DEF DateOf
<1>4. /\ yp = 4 * a + j /\ days = 1461 * a + 365 * j
      /\ m = 14956 + 1461 * a + 365 * j + r
      /\ r = 488 => j = 3 /\ a # 49
  BY <1>2 DEF Dated
<1>5. r \in Int
  BY <1>2 DEF DaysOfYear
<1> HIDE DEF m, yp, date
<1>6. 10000 * (m - 14956 - days) - 1000 = 10000 * r - 1000
  BY <1>4, <1>5
<1>7. mp = (10000 * r - 1000) \div MonthLen
  BY <1>6
<1> HIDE DEF days, mp
<1>8. /\ t.year = 4 * a + j + k + 1900 /\ t.month = mp - 1 - 12 * k /\ t.day = r - before
  <2>1. m - 14956 - days - before = r - before
    BY <1>4, <1>5
  <2>2. QED
    BY <1>3, <1>4, <2>1
<1>9. \/ mp = 4 /\ 123 <= r /\ r <= 153 /\ before = 122
      \/ mp = 5 /\ 154 <= r /\ r <= 183 /\ before = 153
      \/ mp = 6 /\ 184 <= r /\ r <= 214 /\ before = 183
      \/ mp = 7 /\ 215 <= r /\ r <= 244 /\ before = 214
      \/ mp = 8 /\ 245 <= r /\ r <= 275 /\ before = 244
      \/ mp = 9 /\ 276 <= r /\ r <= 306 /\ before = 275
      \/ mp = 10 /\ 307 <= r /\ r <= 336 /\ before = 306
      \/ mp = 11 /\ 337 <= r /\ r <= 367 /\ before = 336
      \/ mp = 12 /\ 368 <= r /\ r <= 397 /\ before = 367
      \/ mp = 13 /\ 398 <= r /\ r <= 428 /\ before = 397
      \/ mp = 14 /\ 429 <= r /\ r <= 459 /\ before = 428
      \/ mp = 15 /\ 460 <= r /\ r <= 488 /\ before = 459
  BY <1>7, MonthOf, SMTT(30)
<1> HIDE DEF before
<1> DEFINE n == 4 * a + j + 1900
           start == 15019 + 1461 * a + 365 * j
<1>10. /\ n \in Int /\ start \in Int /\ m = start + r - 63
       /\ Before(n - 1) \in Int /\ Before(n - 1) + (IF Leap(n) THEN 1 ELSE 0) = start
       /\ Before(n) \in Int /\ Before(n) = start + 365
       /\ j = 3 /\ a # 49 => Leap(n + 1)
  <2>1. /\ Before(n - 1) \in Int /\ Before(n - 1) + (IF Leap(n) THEN 1 ELSE 0) = start
        /\ Before(n) = 15384 + 1461 * a + 365 * j
        /\ j = 3 /\ a # 49 => Leap(n + 1)
    BY YearBegins
  <2>2. /\ n \in Int /\ start \in Int /\ m = start + r - 63
        /\ 15384 + 1461 * a + 365 * j = start + 365
    BY <1>4, <1>5
  <2> HIDE DEF n, start
  <2>3. QED
    BY <2>1, <2>2
<1> HIDE DEF start
<1>11. DayNumber(t) = Before(t.year - 1) + t.day + DaysBefore[t.month]
                     + (IF t.month > 2 /\ Leap(t.year) THEN 1 ELSE 0)
  BY DEF DayNumber, Before
<1>12. CASE mp \in 4 .. 13
  <2>1. k = 0 /\ t.year = n /\ t.month = mp - 1 /\ t.month > 2
    BY <1>8, <1>12
  <2> HIDE DEF n, k
  <2>2. /\ Before(t.year - 1) \in Int
        /\ Before(t.year - 1) + (IF Leap(t.year) THEN 1 ELSE 0) = start
    <3>1. t.year = n
      BY <2>1
    <3>2. QED
      BY <1>10, <3>1
  <2>3. before = DaysBefore[t.month] + 63 /\ DaysBefore[t.month] \in Int
    BY <1>9, <1>12, <2>1 DEF DaysBefore
  <2>4. t.day \in 1 .. MonthDays(t.year, t.month)
    BY <1>8, <1>9, <1>5, <1>12, <2>1 DEF MonthDays
  <2>5. m = DayNumber(t)
    <3>1. t.day = r - before /\ before \in Int
      BY <1>8, <1>9, <1>5
    <3>2. DayNumber(t) = Before(t.year - 1) + t.day + DaysBefore[t.month]
                         + (IF Leap(t.year) THEN 1 ELSE 0)
      BY <1>11, <2>1
    <3>3. QED
      BY <1>5, <1>10, <2>2, <2>3, <3>1, <3>2
  <2>6. QED
    BY <2>4, <2>5 DEF m
<1>13. CASE mp \in 14 .. 15
  <2>1. k = 1 /\ t.year = n + 1 /\ t.month = mp - 13 /\ ~(t.month > 2)
    BY <1>8, <1>13
  <2> HIDE DEF n, k
  <2>2. Before(t.year - 1) \in Int /\ Before(t.year - 1) = start + 365
    <3>1. t.year - 1 = n
      BY <1>10, <2>1
    <3>2. QED
      BY <1>10, <3>1
  <2>3. before = DaysBefore[t.month] + 428 /\ DaysBefore[t.month] \in Int
    BY <1>9, <1>13, <2>1 DEF DaysBefore
  <2>4. t.day \in 1 .. MonthDays(t.year, t.month)
    <3>1. CASE r = 488
      <4>1. mp = 15 /\ before = 459
        BY <1>9, <3>1
      <4>2. j = 3 /\ a # 49
        BY <1>4, <3>1
      <4>3. Leap(n + 1)
        BY <1>10, <4>2
      <4>4. Leap(t.year)
        BY <2>1, <4>3
      <4>5. MonthDays(t.year, t.month) = 29
        BY <2>1, <4>1, <4>4 DEF MonthDays
      <4>6. QED
        BY <1>8, <3>1, <4>1, <4>5
    <3>2. CASE r # 488
      <4>1. CASE mp = 14
        BY <1>8, <1>9, <1>5, <2>1, <4>1 DEF MonthDays
      <4>2. CASE mp = 15
        <5>1. MonthDays(t.year, t.month) \in 28 .. 29
          BY <2>1, <4>2 DEF MonthDays
        <5>2. t.day \in 1 .. 28
          BY <1>8, <1>9, <1>5, <3>2, <4>2
        <5>3. QED
          BY <5>1, <5>2
      <4>3. QED
        BY <1>13, <4>1, <4>2
    <3>3. QED
      BY <3>1, <3>2
  <2>5. m = DayNumber(t)
    <3>1. t.day = r - before /\ before \in Int
      BY <1>8, <1>9, <1>5
    <3>2. DayNumber(t) = Before(t.year - 1) + t.day + DaysBefore[t.month]
      <4>1. /\ Before(t.year - 1) \in Int /\ t.day \in Int /\ DaysBefore[t.month] \in Int
        BY <1>5, <2>2, <2>3, <3>1
      <4>2. DayNumber(t) = Before(t.year - 1) + t.day + DaysBefore[t.month] + 0
        BY <1>11, <2>1
      <4>3. QED
        BY <4>1, <4>2
    <3>3. QED
      BY <1>5, <1>10, <2>2, <2>3, <3>1, <3>2
  <2>6. QED
    BY <2>4, <2>5 DEF m
<1>14. QED
  BY <1>9, <1>12, <1>13

-----------------------------------------------------------------------------
(* RdsDecoder: what is shown was sent.                                     *)

\* A set of numbers has a least one, ...
LEMMA HasLeast ==
  ASSUME NEW S \in SUBSET Nat, S # {}
  PROVE  \E m \in S : \A k \in S : m <= k
<1> DEFINE R == OpToRel(<, Nat)
<1>1. IsWellFoundedOn(R, Nat)
  BY NatLessThanWellFounded
<1>2. \A x, y \in Nat : y < x => <<y, x>> \in R
  BY Zenon DEF OpToRel
<1>3. PICK Q : IsWellFoundedOn(Q, Nat) /\ \A x, y \in Nat : y < x => <<y, x>> \in Q
  BY <1>1, <1>2, Zenon
<1>4. PICK m \in S : \A k \in S : ~(<<k, m>> \in Q)
  BY <1>3, WFMin
<1>5. \A k \in S : ~(k < m)
  BY <1>3, <1>4
<1>6. QED
  BY <1>5

\* ... which is its minimum; ...
LEMMA MinOf ==
  ASSUME NEW S \in SUBSET Nat, S # {}
  PROVE  Min(S) \in S /\ \A k \in S : Min(S) <= k
<1>1. \E m \in S : \A k \in S : m <= k
  BY HasLeast
<1>2. QED
  BY <1>1 DEF Min

\* ... and a set of places in a row has a last one.
LEMMA MaxOf ==
  ASSUME NEW n \in Nat, NEW S \in SUBSET (1 .. n), S # {}
  PROVE  Max(S) \in S /\ \A k \in S : k <= Max(S)
<1> DEFINE T == {n - i : i \in S}
<1>1. T \in SUBSET Nat /\ T # {}
  <2>1. \A i \in S : n - i \in Nat
    OBVIOUS
  <2>2. QED
    BY <2>1
<1>2. PICK t \in T : \A k \in T : t <= k
  BY <1>1, HasLeast
<1>3. PICK m \in S : t = n - m
  BY <1>2
<1>4. \A k \in S : m >= k
  BY <1>2, <1>3
<1>5. Max(S) \in S /\ \A k \in S : Max(S) >= k
  BY <1>4 DEF Max
<1>6. QED
  BY <1>5

\* A sequence of n characters.
Row(s, n) == n \in Nat /\ s = [i \in 1 .. n |-> s[i]]

\* The first k of a sequence, ...
LEMMA Take ==
  ASSUME NEW s, NEW k \in Nat
  PROVE  /\ SubSeq(s, 1, k) = [i \in 1 .. k |-> s[i]]
         /\ Len(SubSeq(s, 1, k)) = k
<1>1. SubSeq(s, 1, k) = [i \in 1 .. k |-> s[i]]
  OBVIOUS
<1>2. QED
  BY <1>1

\* ... and the first k of its first n.
LEMMA TakeOfTake ==
  ASSUME NEW s, NEW n \in Nat, NEW k \in 0 .. n
  PROVE  SubSeq(SubSeq(s, 1, n), 1, k) = SubSeq(s, 1, k)
<1>1. \A i \in 1 .. k : SubSeq(s, 1, n)[i] = s[i]
  BY Take
<1>2. QED
  BY <1>1, Take

\* What rstrip() leaves ends in ink, and all after it is space.
InkEnds(s, n, k) ==
  k \in 0 .. n /\ (k = 0 \/ s[k] # SP) /\ \A i \in (k + 1) .. n : s[i] = SP

\* rstrip() keeps what is up to the last ink, ...
LEMMA Stripped ==
  ASSUME NEW s, NEW n, Row(s, n)
  PROVE  \E k \in 0 .. n : rstrip(s) = SubSeq(s, 1, k) /\ InkEnds(s, n, k)
<1> DEFINE ink == {i \in 1 .. n : s[i] # SP}
           k == IF ink = {} THEN 0 ELSE Max(ink)
<1>1. n \in Nat /\ DOMAIN s = 1 .. n
  BY DEF Row
<1>2. rstrip(s) = SubSeq(s, 1, k)
  BY <1>1 DEF rstrip
<1>3. InkEnds(s, n, k)
  <2>1. CASE ink = {}
    BY <1>1, <2>1 DEF InkEnds
  <2>2. CASE ink # {}
    <3>1. ink \in SUBSET (1 .. n)
      OBVIOUS
    <3>2. Max(ink) \in ink /\ \A i \in ink : i <= Max(ink)
      BY <1>1, <2>2, <3>1, MaxOf
    <3>3. k = Max(ink)
      BY <2>2
    <3> HIDE DEF k
    <3>4. k \in 1 .. n /\ s[k] # SP /\ \A i \in 1 .. n : s[i] # SP => i <= k
      BY <3>2, <3>3
    <3>5. QED
      BY <1>1, <3>4 DEF InkEnds
  <2>3. QED
    BY <2>1, <2>2
<1>4. QED
  BY <1>2, <1>3 DEF InkEnds

\* The characters left are those before.
LEMMA StripKeeps ==
  ASSUME NEW s, NEW n, Row(s, n)
  PROVE  \A i \in DOMAIN rstrip(s) : i \in 1 .. n /\ rstrip(s)[i] = s[i]
<1>1. PICK k \in 0 .. n : rstrip(s) = SubSeq(s, 1, k)
  BY Stripped
<1>2. SubSeq(s, 1, k) = [i \in 1 .. k |-> s[i]] /\ n \in Nat
  BY Take DEF Row
<1>3. QED
  BY <1>1, <1>2

\* The first part of a row, stripped, is the first part of the row stripped, stripped.
LEMMA Parted ==
  ASSUME NEW s, NEW n, Row(s, n), NEW k \in 0 .. n
  PROVE  rstrip(SubSeq(s, 1, k)) \in Parts(rstrip(s))
<1>1. PICK a \in 0 .. n : rstrip(s) = SubSeq(s, 1, a) /\ InkEnds(s, n, a)
  BY Stripped
<1>2. n \in Nat /\ Len(rstrip(s)) = a
  BY <1>1, Take DEF Row
<1>3. \A m \in 0 .. a : rstrip(SubSeq(SubSeq(s, 1, a), 1, m)) \in Parts(rstrip(s))
  BY <1>1, <1>2 DEF Parts
<1>4. \A m \in 0 .. a : SubSeq(SubSeq(s, 1, a), 1, m) = SubSeq(s, 1, m)
  BY <1>2, TakeOfTake
<1>5. CASE k <= a
  <2>1. k \in 0 .. a
    BY <1>2, <1>5
  <2>2. QED
    BY <1>3, <1>4, <2>1
<1>6. ASSUME NEW m \in a .. n
      PROVE  rstrip(SubSeq(s, 1, m)) = SubSeq(s, 1, a)
  <2>1. /\ SubSeq(s, 1, m) = [i \in 1 .. m |-> s[i]] /\ m \in Nat
    BY <1>2, Take
  <2>2. Row(SubSeq(s, 1, m), m) /\ \A i \in 1 .. m : SubSeq(s, 1, m)[i] = s[i]
    BY <2>1 DEF Row
  <2>3. PICK b \in 0 .. m :
          rstrip(SubSeq(s, 1, m)) = SubSeq(SubSeq(s, 1, m), 1, b) /\ InkEnds(SubSeq(s, 1, m), m, b)
    BY <2>2, Stripped
  <2>4. b = 0 \/ s[b] # SP
    BY <2>1, <2>2, <2>3 DEF InkEnds
  <2>5. \A i \in (b + 1) .. m : s[i] = SP
    BY <2>1, <2>2, <2>3 DEF InkEnds
  <2>6. (a = 0 \/ s[a] # SP) /\ \A i \in (a + 1) .. n : s[i] = SP
    BY <1>1 DEF InkEnds
  <2>7. b = a
    BY <1>2, <2>1, <2>4, <2>5, <2>6
  <2>8. QED
    BY <2>1, <2>3, <2>7, TakeOfTake
<1>7. CASE k > a
  <2>1. k \in a .. n /\ a \in a .. n /\ a \in 0 .. a
    BY <1>2, <1>7
  <2>2. rstrip(SubSeq(s, 1, k)) = SubSeq(s, 1, a) /\ rstrip(SubSeq(s, 1, a)) = SubSeq(s, 1, a)
    BY <1>6, <2>1
  <2>3. QED
    BY <1>3, <1>4, <2>1, <2>2
<1>8. QED
  BY <1>2, <1>5, <1>7

\* What a name of the station's reads as.
Reads(msg) == rstrip([i \in 1 .. NameLen |-> sanitize(msg[i])])

\* Nothing but msg has gone into the name n.
NameIs(n, msg) ==
  /\ n = [raw |-> n.raw, cand |-> n.cand, pub |-> n.pub]
  /\ n.raw = [i \in 1 .. NameLen |-> n.raw[i]]
  /\ \A i \in 1 .. NameLen : n.raw[i] \in {None, sanitize(msg[i])}
  /\ n.cand \in {<<>>, Reads(msg)} /\ n.pub \in {<<>>, Reads(msg)}

\* A character of the message in its place leaves nothing else in the name.
LEMMA NamePut ==
  ASSUME NEW n, NEW msg, NameIs(n, msg), NEW idx, idx + 1 \in 1 .. NameLen
  PROVE  NameIs(put_name(n, idx, msg[idx + 1]), msg)
<1> DEFINE raw == [n.raw EXCEPT ![idx + 1] = sanitize(msg[idx + 1])]
           full == \A i \in DOMAIN raw : raw[i] # None
           new == put_name(n, idx, msg[idx + 1])
<1>1. /\ raw = [i \in 1 .. NameLen |-> raw[i]]
      /\ \A i \in 1 .. NameLen : raw[i] \in {None, sanitize(msg[i])}
  BY DEF NameIs
<1>2. /\ new = [raw |-> new.raw, cand |-> new.cand, pub |-> new.pub]
      /\ new.raw = raw
      /\ new.cand = (IF full THEN rstrip(raw) ELSE n.cand)
      /\ new.pub = (IF full /\ rstrip(raw) = n.cand THEN rstrip(raw) ELSE n.pub)
  BY DEF put_name
<1> HIDE DEF raw, new
<1>3. ASSUME full PROVE rstrip(raw) = Reads(msg)
  <2>1. \A i \in 1 .. NameLen : raw[i] = sanitize(msg[i])
    BY <1>1, <1>3
  <2>2. raw = [i \in 1 .. NameLen |-> sanitize(msg[i])]
    BY <1>1, <2>1
  <2>3. QED
    BY <2>2 DEF Reads
<1> HIDE DEF full
<1>4. new.cand \in {<<>>, Reads(msg)} /\ new.pub \in {<<>>, Reads(msg)}
  BY <1>2, <1>3 DEF NameIs
<1>5. QED
  BY <1>1, <1>2, <1>4 DEF NameIs, new

\* Two characters in a row.
LEMMA NamePair ==
  ASSUME NEW n, NEW msg, NameIs(n, msg), NEW at \in Nat, at + 2 <= NameLen, NameLen \in Nat,
         NEW pair, pair[1] = msg[at + 1], pair[2] = msg[at + 2]
  PROVE  NameIs(PsPair(n, at, pair), msg) /\ NameIs(PtynPair(n, at, pair), msg)
<1>1. NameIs(put_name(n, at, pair[1]), msg)
  BY NamePut
<1>2. (at + 1) + 1 = at + 2 /\ at + 2 \in 1 .. NameLen
  OBVIOUS
<1>3. NameIs(put_name(put_name(n, at, pair[1]), at + 1, pair[2]), msg)
  BY <1>1, <1>2, NamePut
<1>4. QED
  BY <1>3 DEF PsPair, PtynPair, put_ps, put_ptyn

\* Character i of one of the messages is c.
Spelt(msgs, i, c) == \E msg \in msgs : i \in 1 .. Len(msg) /\ c = msg[i]

\* Every character of the text rt stands where one of the messages has it.
TextFrom(rt, msgs) ==
  /\ rt.bank = [ab \in 0 .. 1 |-> rt.bank[ab]]
  /\ \A ab \in 0 .. 1 : \A j \in DOMAIN rt.bank[ab] :
       j \in Nat /\ Spelt(msgs, j + 1, rt.bank[ab][j])
  /\ \A i \in DOMAIN rt.cand : \E msg \in msgs : rt.cand[i] = sanitize(msg[i])
  /\ \A i \in DOMAIN rt.pub : \E msg \in msgs : rt.pub[i] = sanitize(msg[i])

\* What a text of the station's reads as: up to its carriage return, if it has one.
Plain(msg) ==
  LET ends == {i \in DOMAIN msg : msg[i] = CR}
      text == IF ends # {} THEN SubSeq(msg, 1, Min(ends) - 1) ELSE msg
  IN  rstrip([i \in DOMAIN text |-> sanitize(text[i])])

\* The text rt is a part of msg, from its start.
TextOf(rt, msg) == {rt.cand, rt.pub} \subseteq {<<>>} \cup Parts(Plain(msg))

\* What put_rt() may change.
LEMMA PutText ==
  ASSUME NEW rt, NEW ab, NEW idx, NEW ch
  PROVE  LET new == put_rt(rt, ab, idx, ch)
             bank == Stored(rt.bank[ab], idx, ch)
         IN  /\ new.bank = [rt.bank EXCEPT ![ab] = bank]
             /\ new.cand \in {rt.cand, Reading(bank)}
             /\ new.pub \in {rt.pub, Reading(bank)}
  BY DEF put_rt

\* The first characters of a bank are there.
LEMMA FirstOnes ==
  ASSUME NEW bank, \A i \in DOMAIN bank : i \in Nat, TextLen \in Nat
  PROVE  /\ Extent(bank) \in Nat /\ Prefix(bank) \in 0 .. Extent(bank)
         /\ 0 .. (Prefix(bank) - 1) \subseteq DOMAIN bank
         /\ \A i \in DOMAIN bank : bank[i] = CR => Extent(bank) <= i
<1> DEFINE ends == {i \in DOMAIN bank : bank[i] = CR}
           len == Extent(bank)
<1>1. len = IF ends = {} THEN TextLen ELSE Min(ends)
  BY DEF Extent
<1>2. ends \in SUBSET Nat
  OBVIOUS
<1>3. len \in Nat /\ \A i \in ends : len <= i
  <2>1. CASE ends = {}
    BY <1>1, <2>1
  <2>2. CASE ends # {}
    <3>1. Min(ends) \in ends /\ \A i \in ends : Min(ends) <= i
      BY <1>2, <2>2, MinOf
    <3>2. QED
      BY <1>1, <1>2, <2>2, <3>1
  <2>3. QED
    BY <2>1, <2>2
<1> HIDE DEF len
<1>4. \E k \in 0 .. len : 0 .. (k - 1) \subseteq DOMAIN bank /\ (k = len \/ k \notin DOMAIN bank)
  <2> DEFINE out == {k \in 0 .. len : k = len \/ k \notin DOMAIN bank}
  <2>1. out \in SUBSET Nat /\ len \in out
    BY <1>3
  <2>2. PICK k \in out : \A i \in out : k <= i
    BY <2>1, HasLeast
  <2>3. k \in 0 .. len /\ (k = len \/ k \notin DOMAIN bank)
    OBVIOUS
  <2>4. ASSUME NEW i \in 0 .. (k - 1) PROVE i \in DOMAIN bank
    BY <1>3, <2>2, <2>3
  <2>5. QED
    BY <2>3, <2>4
<1>5. /\ Prefix(bank) \in 0 .. len /\ 0 .. (Prefix(bank) - 1) \subseteq DOMAIN bank
  BY <1>4 DEF Prefix, len
<1>6. QED
  BY <1>3, <1>5 DEF len

\* A character that was sent at its place keeps the text one of such characters, ...
LEMMA TextPut ==
  ASSUME NEW rt, NEW msgs, TextFrom(rt, msgs), NEW ab \in 0 .. 1, NEW idx \in Nat, NEW ch,
         Spelt(msgs, idx + 1, ch), TextLen \in Nat
  PROVE  TextFrom(put_rt(rt, ab, idx, ch), msgs)
<1> DEFINE new == put_rt(rt, ab, idx, ch)
           bank == Stored(rt.bank[ab], idx, ch)
<1>1. /\ new.bank = [rt.bank EXCEPT ![ab] = bank]
      /\ new.cand \in {rt.cand, Reading(bank)}
      /\ new.pub \in {rt.pub, Reading(bank)}
  BY PutText
<1> HIDE DEF new
<1>2. \A j \in DOMAIN bank : j \in Nat /\ Spelt(msgs, j + 1, bank[j])
  BY DEF TextFrom, Stored, EmptyBank
<1> HIDE DEF bank
<1>3. /\ new.bank = [a \in 0 .. 1 |-> new.bank[a]]
      /\ \A a \in 0 .. 1 : \A j \in DOMAIN new.bank[a] :
           j \in Nat /\ Spelt(msgs, j + 1, new.bank[a][j])
  BY <1>1, <1>2 DEF TextFrom
<1>4. \A i \in DOMAIN Reading(bank) : \E msg \in msgs : Reading(bank)[i] = sanitize(msg[i])
  <2> DEFINE n == Prefix(bank)
             row == [i \in 1 .. n |-> sanitize(bank[i - 1])]
  <2>1. n \in Nat /\ 0 .. (n - 1) \subseteq DOMAIN bank
    BY <1>2, FirstOnes
  <2>2. Reading(bank) = rstrip(row)
    BY DEF Reading
  <2> HIDE DEF n
  <2>3. Row(row, n)
    BY <2>1 DEF Row
  <2>4. \A i \in DOMAIN rstrip(row) : i \in 1 .. n /\ rstrip(row)[i] = row[i]
    BY <2>3, StripKeeps
  <2>5. ASSUME NEW i \in DOMAIN rstrip(row)
        PROVE  \E msg \in msgs : rstrip(row)[i] = sanitize(msg[i])
    <3>1. i \in 1 .. n /\ rstrip(row)[i] = sanitize(bank[i - 1])
      BY <2>4
    <3>2. i - 1 \in DOMAIN bank /\ (i - 1) + 1 = i
      BY <2>1, <3>1
    <3>3. Spelt(msgs, i, bank[i - 1])
      BY <1>2, <3>2
    <3>4. QED
      BY <3>1, <3>3 DEF Spelt
  <2>6. QED
    BY <2>2, <2>5
<1>5. QED
  BY <1>1, <1>3, <1>4 DEF TextFrom, new

\* The characters of msg alone make a part of it.
LEMMA PartPut ==
  ASSUME NEW msg \in Seq(STRING), NEW rt, TextFrom(rt, {msg}), TextOf(rt, msg),
         NEW ab \in 0 .. 1, NEW idx \in Nat, NEW ch,
         Spelt({msg}, idx + 1, ch), TextLen \in Nat
  PROVE  TextOf(put_rt(rt, ab, idx, ch), msg)
<1> DEFINE new == put_rt(rt, ab, idx, ch)
           bank == Stored(rt.bank[ab], idx, ch)
           n == Prefix(bank)
           ends == {i \in DOMAIN msg : msg[i] = CR}
           text == IF ends # {} THEN SubSeq(msg, 1, Min(ends) - 1) ELSE msg
           len == IF ends # {} THEN Min(ends) - 1 ELSE Len(msg)
           row == [i \in 1 .. len |-> sanitize(msg[i])]
<1>1. new.cand \in {rt.cand, Reading(bank)} /\ new.pub \in {rt.pub, Reading(bank)}
  BY PutText
<1>2. \A j \in DOMAIN bank : j \in Nat /\ j + 1 \in 1 .. Len(msg) /\ bank[j] = msg[j + 1]
  BY DEF TextFrom, Stored, EmptyBank, Spelt
<1> HIDE DEF bank, new
<1>3. /\ Extent(bank) \in Nat /\ n \in 0 .. Extent(bank)
      /\ 0 .. (n - 1) \subseteq DOMAIN bank
      /\ \A i \in DOMAIN bank : bank[i] = CR => Extent(bank) <= i
  BY <1>2, FirstOnes
<1> HIDE DEF n
<1>4. Len(msg) \in Nat /\ DOMAIN msg = 1 .. Len(msg)
  OBVIOUS
<1>5. ends # {} => Min(ends) \in ends /\ \A i \in ends : Min(ends) <= i
  <2>1. ends \in SUBSET Nat
    BY <1>4
  <2>2. QED
    BY <2>1, MinOf
<1>6. len \in Nat /\ len <= Len(msg)
  BY <1>4, <1>5
<1>7. n <= len
  <2>1. n <= Len(msg)
    <3>1. CASE n = 0
      BY <1>4, <3>1
    <3>2. CASE n > 0
      <4>1. n - 1 \in DOMAIN bank
        BY <1>3, <3>2
      <4>2. QED
        BY <1>2, <1>3, <4>1
    <3>3. QED
      BY <1>3, <3>1, <3>2
  <2>2. ASSUME ends # {}, n >= Min(ends) PROVE FALSE
    <3> DEFINE e == Min(ends)
    <3>1. e \in 1 .. Len(msg) /\ msg[e] = CR
      BY <1>4, <1>5, <2>2
    <3> HIDE DEF e
    <3>2. e - 1 \in 0 .. (n - 1) /\ (e - 1) + 1 = e
      BY <1>3, <2>2, <3>1 DEF e
    <3>3. e - 1 \in DOMAIN bank /\ bank[e - 1] = CR
      BY <1>2, <1>3, <3>1, <3>2
    <3>4. QED
      BY <1>3, <3>2, <3>3
  <2>3. CASE ends = {}
    BY <2>1, <2>3
  <2>4. CASE ends # {}
    <3>1. Min(ends) \in Nat /\ n \in Nat
      BY <1>3, <1>4, <1>5, <2>4
    <3>2. QED
      BY <2>2, <2>4, <3>1
  <2>5. QED
    BY <2>3, <2>4
<1>8. Plain(msg) = rstrip(row)
  <2>1. DOMAIN text = 1 .. len /\ \A i \in 1 .. len : text[i] = msg[i]
    <3>1. CASE ends = {}
      BY <1>4, <3>1
    <3>2. CASE ends # {}
      <4>1. text = SubSeq(msg, 1, len) /\ len \in Nat
        BY <1>6, <3>2
      <4> HIDE DEF text, len
      <4>2. QED
        BY <4>1, Take
    <3>3. QED
      BY <3>1, <3>2
  <2>2. Plain(msg) = rstrip([i \in DOMAIN text |-> sanitize(text[i])])
    BY DEF Plain
  <2> HIDE DEF text, len
  <2>3. [i \in DOMAIN text |-> sanitize(text[i])] = row
    BY <2>1
  <2>4. QED
    BY <2>2, <2>3
<1> HIDE DEF len
<1>9. Reading(bank) \in Parts(Plain(msg))
  <2>1. [i \in 1 .. n |-> sanitize(bank[i - 1])] = SubSeq(row, 1, n)
    <3>1. \A i \in 1 .. n : sanitize(bank[i - 1]) = row[i]
      <4> TAKE i \in 1 .. n
      <4>1. i - 1 \in DOMAIN bank /\ (i - 1) + 1 = i /\ i \in 1 .. len
        BY <1>3, <1>6, <1>7
      <4>2. QED
        BY <1>2, <4>1
    <3> HIDE DEF row
    <3>2. SubSeq(row, 1, n) = [i \in 1 .. n |-> row[i]]
      BY <1>3, Take
    <3>3. QED
      BY <3>1, <3>2
  <2>2. Row(row, len) /\ n \in 0 .. len
    BY <1>3, <1>6, <1>7 DEF Row
  <2> HIDE DEF row
  <2>3. rstrip(SubSeq(row, 1, n)) \in Parts(rstrip(row))
    BY <2>2, Parted
  <2>4. QED
    BY <1>8, <2>1, <2>3 DEF Reading, n
<1>10. QED
  BY <1>1, <1>9 DEF TextOf, new

\* Two characters in a row.
LEMMA TextPairs ==
  ASSUME NEW rt, NEW msgs, TextFrom(rt, msgs), NEW ab \in 0 .. 1, NEW at \in Nat, NEW pair,
         Spelt(msgs, at + 1, pair[1]), Spelt(msgs, at + 2, pair[2]), TextLen \in Nat
  PROVE  /\ TextFrom(TextPair(rt, ab, at, pair), msgs)
         /\ \A msg \in Seq(STRING) :
              msgs = {msg} /\ TextOf(rt, msg)
                => TextOf(TextPair(rt, ab, at, pair), msg)
<1> DEFINE mid == put_rt(rt, ab, at, pair[1])
<1>1. (at + 1) + 1 = at + 2 /\ at + 1 \in Nat
  OBVIOUS
<1>2. TextFrom(mid, msgs)
  BY TextPut
<1>3. ASSUME NEW msg \in Seq(STRING), msgs = {msg}, TextOf(rt, msg)
      PROVE  TextOf(mid, msg)
  BY <1>3, PartPut
<1> HIDE DEF mid
<1>4. TextPair(rt, ab, at, pair) = put_rt(mid, ab, at + 1, pair[2])
  BY DEF TextPair, mid
<1>5. TextFrom(put_rt(mid, ab, at + 1, pair[2]), msgs)
  BY <1>1, <1>2, TextPut
<1>6. ASSUME NEW msg \in Seq(STRING), msgs = {msg}, TextOf(rt, msg)
      PROVE  TextOf(put_rt(mid, ab, at + 1, pair[2]), msg)
  BY <1>1, <1>2, <1>3, <1>6, PartPut
<1>7. QED
  BY <1>4, <1>5, <1>6

\* The station is in a segment its message has.
InMessage == air.seg \in 0 .. Segments(air.prog, air.msg) - 1

LEMMA SegmentMoves ==
  ASSUME AirOK, InMessage, NEW adv, NEW good, NEW left, Advance(adv, good, left)
  PROVE  InMessage'
<1> DEFINE here == (air.phase + adv) % GroupBits
           fine == Boundary(adv) \/ (air.intact /\ good)
           moved == [air EXCEPT !.phase = here, !.intact = fine]
           ends == here = 0 /\ adv > 0
<1>1. /\ air \in Airs
      /\ air.msg \in air.prog.msgs
      /\ \A msg \in air.prog.msgs : Segments(air.prog, msg) \in Nat \ {0}
  BY Stations DEF AirOK, Airs
<1>2. \/ air' = (IF ends THEN [moved EXCEPT !.seg = (moved.seg + 1) % Segments(air.prog, air.msg)]
                 ELSE moved)
      \/ \E msg \in air.prog.msgs, ab \in 0 .. 1 :
           air' = [moved EXCEPT !.seg = 0, !.msg = msg, !.ab = ab]
  BY DEF Advance
<1> HIDE DEF here, fine
<1>3. moved \in [prog : {air.prog}, msg : {air.msg}, ab : {air.ab}, seg : {air.seg},
                 phase : {here}, intact : {fine}, faded : {air.faded}]
  BY <1>1 DEF Airs
<1> HIDE DEF moved, ends
<1>4. CASE air' = (IF ends THEN [moved EXCEPT !.seg = (moved.seg + 1) % Segments(air.prog, air.msg)]
                   ELSE moved)
  <2>1. /\ air'.prog = air.prog /\ air'.msg = air.msg
        /\ air'.seg \in {air.seg, (air.seg + 1) % Segments(air.prog, air.msg)}
    BY <1>3, <1>4
  <2>2. (air.seg + 1) % Segments(air.prog, air.msg) \in 0 .. Segments(air.prog, air.msg) - 1
    BY <1>1 DEF InMessage
  <2>3. QED
    BY <2>1, <2>2 DEF InMessage
<1>5. CASE \E msg \in air.prog.msgs, ab \in 0 .. 1 :
             air' = [moved EXCEPT !.seg = 0, !.msg = msg, !.ab = ab]
  <2>1. air'.prog = air.prog /\ air'.msg \in air.prog.msgs /\ air'.seg = 0
    BY <1>3, <1>5
  <2>2. QED
    BY <1>1, <2>1 DEF InMessage
<1>6. QED
  BY <1>2, <1>4, <1>5

\* What is sent, and where the station is in it.
LEMMA Sends ==
  ASSUME AirOK, InMessage, air.msg \in sent, DecoderNext
  PROVE  InMessage' /\ sent' = sent \cup {air'.msg}
<1>1. ASSUME NEW adv, NEW good, NEW left, Advance(adv, good, left), sent' = sent \cup {air'.msg}
      PROVE  InMessage' /\ sent' = sent \cup {air'.msg}
  BY <1>1, SegmentMoves
<1>2. ASSUME NEW adv, NEW good, NEW left, Receive(adv, good, left)
      PROVE  InMessage' /\ sent' = sent \cup {air'.msg}
  BY <1>1, <1>2 DEF Receive
<1>3. CASE Clean
  BY <1>2, <1>3 DEF Clean
<1>4. CASE Error
  BY <1>2, <1>4 DEF Error
<1>5. CASE Slip
  BY <1>2, <1>5 DEF Slip
<1>6. CASE FalseMatch
  BY <1>1, <1>6 DEF FalseMatch
<1>7. CASE FadeBegins \/ FadeEnds
  <2>1. air'.prog = air.prog /\ air'.msg = air.msg /\ air'.seg = air.seg /\ sent' = sent
    BY <1>7 DEF FadeBegins, FadeEnds, AirOK, Airs
  <2>2. QED
    BY <2>1 DEF InMessage
<1>8. QED
  BY <1>3, <1>4, <1>5, <1>6, <1>7 DEF DecoderNext

\* g is a group of one of the messages.
Grouped(g, p, msgs) ==
  \E msg \in msgs, ab \in 0 .. 1 :
    \E seg \in 0 .. Segments(p, msg) - 1 : g = GroupOf(p, msg, ab, seg)

\* Since the header of the group under way the station has moved on by no more than two
\* bits for each bit received: it is still in that group, or not yet at the end of a
\* block of the next that could be filed with it.
Gone == (m_blockpos - 2) * BlockBits + m_bit_since
Following ==
  m_state = "Sync" /\ m_blockpos \in 2 .. 3 /\ m_blk_ok[1] =>
    /\ Grouped(m_blk[1], air.prog, heard)
    /\ m_blockpos = 3 /\ m_blk_ok[2] => m_blk[2] = m_blk[1]
    /\ \/ Group = m_blk[1] /\ 2 * BlockBits <= air.phase /\ air.phase <= 2 * BlockBits + 2 * Gone
       \/ air.phase + 2 * BlockBits <= 2 * Gone

\* More messages have more groups.
LEMMA MoreGrouped ==
  ASSUME NEW g, NEW p, NEW A, NEW B, A \subseteq B, Grouped(g, p, A)
  PROVE  Grouped(g, p, B)
  BY DEF Grouped

\* One bit later.
LEMMA GoneOn ==
  ASSUME AirOK, NEW adv \in 0 .. 2, NEW good, Passes(adv, good), NEW g,
         NEW n \in Int,
         \/ Group = g /\ 2 * BlockBits <= air.phase /\ air.phase <= 2 * BlockBits + 2 * n
         \/ air.phase + 2 * BlockBits <= 2 * n
  PROVE  \/ Group' = g /\ 2 * BlockBits <= air'.phase /\ air'.phase <= 2 * BlockBits + 2 * (n + 1)
         \/ air'.phase + 2 * BlockBits <= 2 * (n + 1)
<1>1. /\ BlockBits \in Nat \ {0, 1} /\ GroupBits = 4 * BlockBits
      /\ air.phase \in 0 .. 4 * BlockBits - 1
  BY Stations
<1>2. /\ air'.phase = (IF air.phase + adv = GroupBits THEN 0 ELSE air.phase + adv)
      /\ air.phase + adv # GroupBits => Group' = Group
  BY DEF Passes
<1>3. CASE air.phase + adv = GroupBits
  BY <1>1, <1>2, <1>3
<1>4. CASE air.phase + adv # GroupBits
  BY <1>1, <1>2, <1>4
<1>5. QED
  BY <1>3, <1>4

\* The block that a good match files.
LEMMA GoodBlock ==
  ASSUME AirOK, SyncOK, NEW adv \in 0 .. 2, NEW good, NEW oi, NEW data,
         Passes(adv, good), Honest(good, oi, data), Accepts(m_blockpos, oi)
  PROVE  data = Group /\ adv = 1 /\ air.phase + 1 = (m_blockpos + 1) * BlockBits
<1>0. m_blockpos \in 0 .. 3 /\ air.prog.ver \in 0 .. 1
  BY Stations DEF SyncOK
<1>1. oi # -1
  BY <1>0 DEF Accepts
<1>2. /\ good /\ (air.phase % BlockBits) + 1 = BlockBits /\ data = Group /\ adv = 1
      /\ oi = Offset(air.phase \div BlockBits, air.prog.ver)
  BY <1>1 DEF Honest, Passes
<1>3. /\ air.phase \div BlockBits \in 0 .. 3
      /\ air.phase + 1 = (air.phase \div BlockBits + 1) * BlockBits
  BY <1>2, NextBit
<1>4. air.phase \div BlockBits = m_blockpos
  BY <1>0, <1>2, <1>3, OffsetsTell
<1>5. QED
  BY <1>2, <1>3, <1>4

\* A good block after a good header is of the same group.
LEMMA SameGroup ==
  ASSUME AirOK, SyncOK, Following, NEW adv \in 0 .. 2, NEW good, NEW oi, NEW data,
         Passes(adv, good), Honest(good, oi, data), Files(oi, data),
         m_blockpos \in 2 .. 3, m_blk_ok[1], Accepts(m_blockpos, oi)
  PROVE  data = m_blk[1]
<1>1. data = Group /\ air.phase + 1 = (m_blockpos + 1) * BlockBits
  BY GoodBlock
<1>2. /\ BlockBits \in Nat \ {0, 1} /\ m_bit_since = BlockBits - 1 /\ m_state = "Sync"
      /\ air.phase \in 0 .. 4 * BlockBits - 1
  BY Stations DEF SyncOK, Files
<1>3. \/ Group = m_blk[1]
      \/ air.phase + 2 * BlockBits <= 2 * Gone
  BY <1>2 DEF Following
<1>4. ~(air.phase + 2 * BlockBits <= 2 * Gone)
  <2>1. CASE m_blockpos = 2
    BY <1>1, <1>2, <2>1 DEF Gone
  <2>2. CASE m_blockpos = 3
    BY <1>1, <1>2, <2>2 DEF Gone
  <2>3. QED
    BY <2>1, <2>2
<1>5. QED
  BY <1>1, <1>3, <1>4

\* What is filed in a slot, and what stays in the others.
LEMMA Slots ==
  ASSUME SyncOK, NEW oi, NEW data, Files(oi, data)
  PROVE  /\ m_blk'[m_blockpos] = (IF Accepts(m_blockpos, oi) THEN data ELSE Junk)
         /\ \A k \in 0 .. 3 : k # m_blockpos => m_blk'[k] = m_blk[k]
         /\ m_blk_ok'[m_blockpos] = Accepts(m_blockpos, oi)
         /\ \A k \in 0 .. 3 : k # m_blockpos => m_blk_ok'[k] = m_blk_ok[k]
         /\ m_state = "Sync" /\ m_bit_since = BlockBits - 1 /\ m_bit_since' = 0
         /\ m_state' = "Sync" => m_blockpos' = (IF m_blockpos = 3 THEN 0 ELSE m_blockpos + 1)
<1>1. BlockBits \in Nat \ {0, 1} /\ m_blockpos \in 0 .. 3 /\ m_bit_since \in 0 .. BlockBits - 1
  BY RdsDecoderAssumption DEF SyncOK
<1>2. QED
  BY <1>1 DEF SyncOK, Files

\* Every bit that is no chance match leaves the decoder behind the station.
LEMMA FollowingStays ==
  ASSUME AirOK, SyncOK, Following, InMessage, air.msg \in heard,
         NEW adv \in 0 .. 2, NEW good \in BOOLEAN, NEW oi \in -1 .. 4, NEW data,
         Passes(adv, good), Honest(good, oi, data), block_sync_push(oi, data),
         m_state = "Sync" => heard \subseteq heard'
  PROVE  Following'
<1>0. /\ BlockBits \in Nat \ {0, 1} /\ m_blockpos \in 0 .. 3 /\ m_bit_since \in 0 .. BlockBits - 1
      /\ air.phase \in 0 .. 4 * BlockBits - 1 /\ GroupBits = 4 * BlockBits
      /\ air'.prog = air.prog
  BY Stations DEF SyncOK, Passes
<1>1. CASE Locks(oi) \/ LooksOn(oi)
  BY <1>1 DEF Locks, LooksOn, Following
<1>2. CASE Counts
  <2> SUFFICES ASSUME m_blockpos \in 2 .. 3, m_blk_ok[1] PROVE Following'
    BY <1>2 DEF Counts, Following
  <2>1. /\ m_state = "Sync" /\ m_bit_since' = m_bit_since + 1
        /\ UNCHANGED <<m_state, m_blockpos, m_blk, m_blk_ok>>
    BY <1>2 DEF Counts
  <2>2. Gone' = Gone + 1 /\ Gone \in Int
    BY <1>0, <2>1 DEF Gone
  <2>3. \/ Group = m_blk[1] /\ 2 * BlockBits <= air.phase /\ air.phase <= 2 * BlockBits + 2 * Gone
        \/ air.phase + 2 * BlockBits <= 2 * Gone
    BY <2>1 DEF Following
  <2>4. \/ Group' = m_blk[1] /\ 2 * BlockBits <= air'.phase
             /\ air'.phase <= 2 * BlockBits + 2 * (Gone + 1)
        \/ air'.phase + 2 * BlockBits <= 2 * (Gone + 1)
    BY <2>2, <2>3, GoneOn
  <2>5. Grouped(m_blk[1], air.prog, heard')
    BY <2>1, MoreGrouped DEF Following
  <2>6. QED
    BY <1>0, <2>1, <2>2, <2>4, <2>5 DEF Following
<1>3. CASE Files(oi, data)
  <2> DEFINE pos == m_blockpos
             ok == Accepts(pos, oi)
  <2>1. /\ m_blk'[pos] = (IF ok THEN data ELSE Junk)
        /\ \A k \in 0 .. 3 : k # pos => m_blk'[k] = m_blk[k]
        /\ m_blk_ok'[pos] = ok /\ \A k \in 0 .. 3 : k # pos => m_blk_ok'[k] = m_blk_ok[k]
        /\ m_state = "Sync" /\ m_bit_since = BlockBits - 1 /\ m_bit_since' = 0
        /\ m_state' = "Sync" => m_blockpos' = (IF pos = 3 THEN 0 ELSE pos + 1)
    BY <1>3, Slots
  <2> SUFFICES ASSUME m_state' = "Sync", m_blockpos' \in 2 .. 3, m_blk_ok'[1]
               PROVE  Following'
    BY DEF Following
  <2>2. m_blockpos' = pos + 1 /\ pos \in 1 .. 2
    BY <1>0, <2>1
  <2>3. CASE pos = 1
    <3>1. ok
      BY <2>1, <2>3
    <3>2. data = Group /\ adv = 1 /\ air.phase + 1 = 2 * BlockBits
      BY <2>3, <3>1, GoodBlock
    <3>3. air'.phase = 2 * BlockBits /\ Group' = Group
      BY <1>0, <3>2 DEF Passes
    <3>4. m_blk'[1] = Group
      BY <2>1, <2>3, <3>1, <3>2
    <3>5. Gone' = 0
      BY <1>0, <2>1, <2>2, <2>3 DEF Gone
    <3>6. Grouped(Group, air.prog, heard)
      <4>1. air.ab \in 0 .. 1
        BY DEF AirOK, Airs
      <4>2. QED
        BY <4>1 DEF Grouped, Group, InMessage
    <3>7. Grouped(Group, air.prog, heard')
      BY <2>1, <3>6, MoreGrouped
    <3>8. QED
      BY <1>0, <2>2, <2>3, <3>3, <3>4, <3>5, <3>7 DEF Following
  <2>4. CASE pos = 2
    <3>1. m_blk'[1] = m_blk[1] /\ m_blk_ok[1]
      BY <2>1, <2>4
    <3>2. ok => m_blk'[2] = m_blk[1]
      BY <1>3, <2>1, <2>4, <3>1, SameGroup
    <3>3. Gone' = Gone + 1 /\ Gone \in Int
      BY <1>0, <2>1, <2>2, <2>4 DEF Gone
    <3>4. \/ Group = m_blk[1] /\ 2 * BlockBits <= air.phase
               /\ air.phase <= 2 * BlockBits + 2 * Gone
          \/ air.phase + 2 * BlockBits <= 2 * Gone
      BY <2>1, <2>4, <3>1 DEF Following
    <3>5. \/ Group' = m_blk[1] /\ 2 * BlockBits <= air'.phase
               /\ air'.phase <= 2 * BlockBits + 2 * (Gone + 1)
          \/ air'.phase + 2 * BlockBits <= 2 * (Gone + 1)
      BY <3>3, <3>4, GoneOn
    <3>6. Grouped(m_blk[1], air.prog, heard')
      BY <2>1, <2>4, <3>1, MoreGrouped DEF Following
    <3> HIDE DEF ok
    <3>7. m_blk_ok'[2] => m_blk'[2] = m_blk'[1]
      BY <2>1, <2>4, <3>1, <3>2
    <3>8. QED
      BY <1>0, <3>1, <3>3, <3>5, <3>6, <3>7 DEF Following
  <2>5. QED
    BY <2>2, <2>3, <2>4
<1>4. QED
  BY <1>1, <1>2, <1>3, Pushes

\* A part of a sequence.
LEMMA PartOf ==
  ASSUME NEW s, NEW m \in Int, NEW n \in Int
  PROVE  \A i \in 1 .. (n - m + 1) : SubSeq(s, m, n)[i] = s[m + i - 1]
  OBVIOUS

\* What a group carries of its message, and where.
LEMMA GroupCarries ==
  ASSUME NEW p \in Programmes, p.gt \in {0, 2, 10}, NEW msg \in p.msgs, NEW ab,
         NEW seg \in 0 .. Segments(p, msg) - 1, NEW g, g = GroupOf(p, msg, ab, seg)
  PROVE  /\ msg \in Seq(STRING) /\ Len(msg) \in Nat
         /\ PerSeg(p.gt, p.ver) \in {2, 4}
         /\ PerSeg(p.gt, p.ver) * seg + PerSeg(p.gt, p.ver) <= Len(msg)
         /\ PerSeg(p.gt, p.ver) = 2 => g.d[1] = msg[2 * seg + 1] /\ g.d[2] = msg[2 * seg + 2]
         /\ PerSeg(p.gt, p.ver) = 4 =>
              /\ g.c[1] = msg[4 * seg + 1] /\ g.c[2] = msg[4 * seg + 2]
              /\ g.d[1] = msg[(4 * seg + 2) + 1] /\ g.d[2] = msg[(4 * seg + 2) + 2]
<1> DEFINE n == PerSeg(p.gt, p.ver)
           text == Chars(msg, seg * n, n)
<1>1. n \in {2, 4}
  BY DEF PerSeg
<1>2. msg \in Seq(STRING) /\ Len(msg) \in Nat
  BY RdsDecoderAssumption
<1>3. Segments(p, msg) = Len(msg) \div n
  BY DEF Segments
<1>4. g.c = (IF n = 4 THEN Chars(text, 0, 2) ELSE <<>>) /\ g.d = Chars(text, n - 2, 2)
  BY DEF GroupOf
<1> HIDE DEF n
<1>5. PICK q \in Int, r \in 0 .. n - 1 : q = Len(msg) \div n /\ Len(msg) = q * n + r
  <2>1. n \in Nat \ {0} /\ Len(msg) \in Int
    BY <1>1, <1>2
  <2>2. QED
    BY <2>1, Division
<1>6. seg \in Nat /\ seg + 1 <= q
  BY <1>3, <1>5
<1>7. n * seg + n <= Len(msg)
  <2>1. CASE n = 2
    BY <1>5, <1>6, <2>1
  <2>2. CASE n = 4
    BY <1>5, <1>6, <2>2
  <2>3. QED
    BY <1>1, <2>1, <2>2
<1>8. \A i \in 1 .. n : text[i] = msg[seg * n + i]
  <2>1. text = SubSeq(msg, seg * n + 1, seg * n + n)
    BY DEF Chars
  <2> DEFINE a == seg * n
  <2>2. a \in Int /\ n \in Int
    BY <1>1, <1>6
  <2> HIDE DEF a
  <2>3. \A i \in 1 .. ((a + n) - (a + 1) + 1) :
          SubSeq(msg, a + 1, a + n)[i] = msg[(a + 1) + i - 1]
    BY <2>2, PartOf
  <2>4. \A i \in 1 .. n : i \in 1 .. ((a + n) - (a + 1) + 1) /\ (a + 1) + i - 1 = a + i
    BY <2>2
  <2>5. \A i \in 1 .. n : SubSeq(msg, a + 1, a + n)[i] = msg[a + i]
    BY <2>3, <2>4
  <2>6. QED
    BY <2>1, <2>5 DEF a
<1> HIDE DEF text
<1>9. ASSUME NEW at \in Int PROVE \A i \in 1 .. 2 : Chars(text, at, 2)[i] = text[at + i]
  <2>1. Chars(text, at, 2) = SubSeq(text, at + 1, at + 2)
    BY DEF Chars
  <2>2. \A i \in 1 .. ((at + 2) - (at + 1) + 1) :
          SubSeq(text, at + 1, at + 2)[i] = text[(at + 1) + i - 1]
    BY PartOf
  <2>3. \A i \in 1 .. 2 : i \in 1 .. ((at + 2) - (at + 1) + 1) /\ (at + 1) + i - 1 = at + i
    OBVIOUS
  <2>4. QED
    BY <2>1, <2>2, <2>3
<1>10. CASE n = 2
  <2>1. g.d[1] = text[1] /\ g.d[2] = text[2]
    <3>1. \A i \in 1 .. 2 : Chars(text, 0, 2)[i] = text[0 + i]
      BY <1>9
    <3>2. QED
      BY <1>4, <1>10, <3>1
  <2>2. text[1] = msg[2 * seg + 1] /\ text[2] = msg[2 * seg + 2]
    BY <1>6, <1>8, <1>10
  <2>3. QED
    BY <1>2, <1>7, <1>10, <2>1, <2>2 DEF n
<1>11. CASE n = 4
  <2>1. /\ g.c[1] = text[1] /\ g.c[2] = text[2]
        /\ g.d[1] = text[3] /\ g.d[2] = text[4]
    <3>1. \A i \in 1 .. 2 : Chars(text, 0, 2)[i] = text[0 + i]
      BY <1>9
    <3>2. \A i \in 1 .. 2 : Chars(text, 2, 2)[i] = text[2 + i]
      BY <1>9
    <3>3. QED
      BY <1>4, <1>11, <3>1, <3>2
  <2>2. /\ text[1] = msg[4 * seg + 1] /\ text[2] = msg[4 * seg + 2]
        /\ text[3] = msg[4 * seg + 3] /\ text[4] = msg[4 * seg + 4]
    BY <1>6, <1>8, <1>11
  <2>3. (4 * seg + 2) + 1 = 4 * seg + 3 /\ (4 * seg + 2) + 2 = 4 * seg + 4
    BY <1>6
  <2>4. QED
    BY <1>2, <1>7, <1>11, <2>1, <2>2, <2>3 DEF n
<1>12. QED
  BY <1>1, <1>10, <1>11

\* The four blocks, as far as they are good after a good header, are of one group of the
\* messages.
OneGroup(blk, ok, p, msgs) ==
  ok[1] => /\ Grouped(blk[1], p, msgs)
           /\ ok[2] => blk[2] = blk[1]
           /\ ok[3] => blk[3] = blk[1]

\* A clock time that one of the messages sets.
ClockFrom(t, p, msgs) == t # NoClock => p.gt = 4 /\ \E c \in msgs : t = parse_ct(NoClock, c)

\* What the texts of a station without chance matches are made of.
TextsTold(p, msg, all, said) ==
  /\ ClockFrom(m_ct_iso, p, all)
  /\ p.gt = 0 /\ all = {msg} => NameIs(m_ps, msg)
  /\ p.gt = 10 /\ all = {msg} => NameIs(m_ptyn, msg)
  /\ p.gt = 2 => TextFrom(m_rt, said) /\ (all = {msg} => TextOf(m_rt, msg))

\* More messages have more characters.
LEMMA MoreTextFrom ==
  ASSUME NEW rt, NEW A, NEW B, A \subseteq B, TextFrom(rt, A)
  PROVE  TextFrom(rt, B)
  BY DEF TextFrom, Spelt

\* What on_group() makes of a name, ...
LEMMA NameHeard ==
  ASSUME NEW p \in Programmes, p.gt \in {0, 10}, NEW msg \in p.msgs, NEW blk, NEW ok,
         OneGroup(blk, ok, p, {msg}), on_group(blk, ok)
  PROVE  /\ p.gt = 0 /\ NameIs(m_ps, msg) => NameIs(m_ps', msg)
         /\ p.gt = 10 /\ NameIs(m_ptyn, msg) => NameIs(m_ptyn', msg)
<1> DEFINE g == blk[1]
<1>1. NameLen \in Nat /\ Len(msg) = NameLen
  BY RdsDecoderAssumption
<1>2. ASSUME ok[1]
      PROVE  /\ g.seg \in Nat /\ g.gt = p.gt /\ g.ver = p.ver
             /\ PerSeg(p.gt, p.ver) = 2 => /\ 2 * g.seg + 2 <= NameLen
                                           /\ g.d[1] = msg[2 * g.seg + 1]
                                           /\ g.d[2] = msg[2 * g.seg + 2]
             /\ PerSeg(p.gt, p.ver) = 4 => /\ (4 * g.seg + 2) + 2 <= NameLen
                                           /\ g.c[1] = msg[4 * g.seg + 1]
                                           /\ g.c[2] = msg[4 * g.seg + 2]
                                           /\ g.d[1] = msg[(4 * g.seg + 2) + 1]
                                           /\ g.d[2] = msg[(4 * g.seg + 2) + 2]
  <2>1. PICK ab \in 0 .. 1, seg \in 0 .. Segments(p, msg) - 1 : g = GroupOf(p, msg, ab, seg)
    BY <1>2 DEF OneGroup, Grouped
  <2>2. g.seg = seg /\ g.gt = p.gt /\ g.ver = p.ver /\ seg \in Nat
    BY <2>1 DEF GroupOf
  <2> HIDE DEF g
  <2>3. /\ PerSeg(p.gt, p.ver) \in {2, 4}
        /\ PerSeg(p.gt, p.ver) * seg + PerSeg(p.gt, p.ver) <= Len(msg)
        /\ PerSeg(p.gt, p.ver) = 2 => g.d[1] = msg[2 * seg + 1] /\ g.d[2] = msg[2 * seg + 2]
        /\ PerSeg(p.gt, p.ver) = 4 =>
              /\ g.c[1] = msg[4 * seg + 1] /\ g.c[2] = msg[4 * seg + 2]
              /\ g.d[1] = msg[(4 * seg + 2) + 1] /\ g.d[2] = msg[(4 * seg + 2) + 2]
    BY <2>1, GroupCarries
  <2>4. QED
    BY <1>1, <2>2, <2>3
<1>3. ok[1] => (ok[2] => blk[2] = g) /\ (ok[3] => blk[3] = g)
  BY DEF OneGroup
<1>4. CASE p.gt = 0
  <2> SUFFICES ASSUME NameIs(m_ps, msg) PROVE NameIs(m_ps', msg)
    BY <1>4
  <2>1. CASE ok[1] /\ ok[3]
    <3>1. PerSeg(p.gt, p.ver) = 2
      BY <1>4 DEF PerSeg
    <3>2. m_ps' = PsPair(m_ps, 2 * g.seg, g.d)
      BY <1>2, <1>3, <1>4, <2>1 DEF on_group
    <3>3. 2 * g.seg \in Nat
      BY <1>2, <2>1
    <3> HIDE DEF g
    <3>4. QED
      BY <1>1, <1>2, <2>1, <3>1, <3>2, <3>3, NamePair
  <2>2. CASE ~(ok[1] /\ ok[3])
    BY <2>2 DEF on_group
  <2>3. QED
    BY <2>1, <2>2
<1>5. CASE p.gt = 10
  <2> SUFFICES ASSUME NameIs(m_ptyn, msg) PROVE NameIs(m_ptyn', msg)
    BY <1>5
  <2>1. CASE ok[1] /\ g.ver = 0
    <3> DEFINE first == IF ok[2] THEN PtynPair(m_ptyn, 4 * g.seg, g.c) ELSE m_ptyn
    <3>1. PerSeg(p.gt, p.ver) = 4 /\ g.gt = 10
      BY <1>2, <1>5, <2>1 DEF PerSeg
    <3>2. m_ptyn' = IF ok[3] THEN PtynPair(first, 4 * g.seg + 2, g.d) ELSE first
      BY <1>3, <2>1, <3>1 DEF on_group
    <3> HIDE DEF g, first
    <3>3. 4 * g.seg \in Nat /\ 4 * g.seg + 2 \in Nat /\ 4 * g.seg + 2 <= NameLen
      <4>1. g.seg \in Nat /\ (4 * g.seg + 2) + 2 <= NameLen
        BY <1>2, <2>1, <3>1
      <4>2. QED
        BY <1>1, <4>1
    <3>4. NameIs(first, msg)
      BY <1>1, <1>2, <2>1, <3>1, <3>3, NamePair, ZenonT(60) DEF first
    <3>5. QED
      BY <1>1, <1>2, <2>1, <3>1, <3>2, <3>3, <3>4, NamePair, ZenonT(60)
  <2>2. CASE ~(ok[1] /\ g.ver = 0)
    BY <2>2 DEF on_group
  <2>3. QED
    BY <2>1, <2>2
<1>6. QED
  BY <1>4, <1>5

\* ... and of a text.
LEMMA TextHeard ==
  ASSUME NEW p \in Programmes, p.gt = 2, NEW msgs \in SUBSET p.msgs,
         NEW blk, NEW ok, OneGroup(blk, ok, p, msgs), on_group(blk, ok), TextFrom(m_rt, msgs)
  PROVE  /\ TextFrom(m_rt', msgs)
         /\ \A msg \in p.msgs : msgs = {msg} /\ TextOf(m_rt, msg) => TextOf(m_rt', msg)
<1> DEFINE g == blk[1]
           All(rt) == /\ TextFrom(rt, msgs)
                      /\ \A msg \in p.msgs : msgs = {msg} /\ TextOf(m_rt, msg) => TextOf(rt, msg)
<1>1. TextLen \in Nat /\ \A msg \in p.msgs : msg \in Seq(STRING) /\ Len(msg) \in Nat
  BY RdsDecoderAssumption
<1>2. ASSUME ok[1]
      PROVE  /\ g.seg \in Nat /\ g.gt = 2 /\ g.ver = p.ver /\ g.ab \in 0 .. 1
             /\ PerSeg(2, p.ver) = 2 => /\ Spelt(msgs, 2 * g.seg + 1, g.d[1])
                                        /\ Spelt(msgs, 2 * g.seg + 2, g.d[2])
             /\ PerSeg(2, p.ver) = 4 => /\ Spelt(msgs, 4 * g.seg + 1, g.c[1])
                                        /\ Spelt(msgs, 4 * g.seg + 2, g.c[2])
                                        /\ Spelt(msgs, (4 * g.seg + 2) + 1, g.d[1])
                                        /\ Spelt(msgs, (4 * g.seg + 2) + 2, g.d[2])
  <2>1. PICK msg \in msgs, ab \in 0 .. 1 :
          \E seg \in 0 .. Segments(p, msg) - 1 : g = GroupOf(p, msg, ab, seg)
    BY <1>2 DEF OneGroup, Grouped
  <2>2. PICK seg \in 0 .. Segments(p, msg) - 1 : g = GroupOf(p, msg, ab, seg)
    BY <2>1
  <2>3. g.seg = seg /\ g.gt = p.gt /\ g.ver = p.ver /\ g.ab = ab /\ seg \in Nat /\ msg \in p.msgs
    BY <2>2 DEF GroupOf
  <2> HIDE DEF g
  <2>4. /\ Len(msg) \in Nat
        /\ PerSeg(p.gt, p.ver) \in {2, 4}
        /\ PerSeg(p.gt, p.ver) * seg + PerSeg(p.gt, p.ver) <= Len(msg)
        /\ PerSeg(p.gt, p.ver) = 2 => g.d[1] = msg[2 * seg + 1] /\ g.d[2] = msg[2 * seg + 2]
        /\ PerSeg(p.gt, p.ver) = 4 =>
              /\ g.c[1] = msg[4 * seg + 1] /\ g.c[2] = msg[4 * seg + 2]
              /\ g.d[1] = msg[(4 * seg + 2) + 1] /\ g.d[2] = msg[(4 * seg + 2) + 2]
    BY <2>2, <2>3, GroupCarries
  <2>5. ASSUME PerSeg(2, p.ver) = 2
        PROVE  Spelt(msgs, 2 * seg + 1, g.d[1]) /\ Spelt(msgs, 2 * seg + 2, g.d[2])
    <3>1. 2 * seg + 1 \in 1 .. Len(msg) /\ 2 * seg + 2 \in 1 .. Len(msg)
      BY <2>3, <2>4, <2>5
    <3>2. QED
      BY <2>4, <2>5, <3>1 DEF Spelt
  <2>6. ASSUME PerSeg(2, p.ver) = 4
        PROVE  /\ Spelt(msgs, 4 * seg + 1, g.c[1]) /\ Spelt(msgs, 4 * seg + 2, g.c[2])
               /\ Spelt(msgs, (4 * seg + 2) + 1, g.d[1]) /\ Spelt(msgs, (4 * seg + 2) + 2, g.d[2])
    <3>1. /\ 4 * seg + 1 \in 1 .. Len(msg) /\ 4 * seg + 2 \in 1 .. Len(msg)
          /\ (4 * seg + 2) + 1 \in 1 .. Len(msg) /\ (4 * seg + 2) + 2 \in 1 .. Len(msg)
      BY <2>3, <2>4, <2>6
    <3>2. QED
      BY <2>4, <2>6, <3>1 DEF Spelt
  <2>7. QED
    BY <2>3, <2>5, <2>6
<1>3. ok[1] => (ok[2] => blk[2] = g) /\ (ok[3] => blk[3] = g)
  BY DEF OneGroup
<1>4. All(m_rt)
  OBVIOUS
<1>5. ASSUME NEW rt, All(rt), NEW ab \in 0 .. 1, NEW at \in Nat, NEW pair,
             Spelt(msgs, at + 1, pair[1]), Spelt(msgs, at + 2, pair[2])
      PROVE  All(TextPair(rt, ab, at, pair))
  <2>1. /\ TextFrom(TextPair(rt, ab, at, pair), msgs)
        /\ \A msg \in Seq(STRING) :
              msgs = {msg} /\ TextOf(rt, msg)
                => TextOf(TextPair(rt, ab, at, pair), msg)
    BY <1>1, <1>5, TextPairs
  <2>2. QED
    BY <1>1, <1>5, <2>1
<1> HIDE DEF All
<1>6. PerSeg(2, p.ver) = IF p.ver = 0 THEN 4 ELSE 2
  BY DEF PerSeg
<1>7. p.ver \in 0 .. 1
  BY RdsDecoderAssumption
<1>8. CASE ok[1] /\ g.ver = 1
  <2>1. m_rt' = IF ok[3] THEN TextPair(m_rt, g.ab, 2 * g.seg, g.d) ELSE m_rt
    BY <1>2, <1>3, <1>8 DEF on_group
  <2>2. 2 * g.seg \in Nat /\ PerSeg(2, p.ver) = 2
    BY <1>2, <1>6, <1>8
  <2> HIDE DEF g
  <2>3. All(m_rt')
    BY <1>2, <1>4, <1>5, <1>8, <2>1, <2>2
  <2>4. QED
    BY <2>3 DEF All
<1>9. CASE ok[1] /\ g.ver # 1
  <2> DEFINE first == IF ok[2] THEN TextPair(m_rt, g.ab, 4 * g.seg, g.c) ELSE m_rt
  <2>1. m_rt' = IF ok[3] THEN TextPair(first, g.ab, 4 * g.seg + 2, g.d) ELSE first
    BY <1>2, <1>3, <1>9 DEF on_group
  <2>2. 4 * g.seg \in Nat /\ 4 * g.seg + 2 \in Nat /\ PerSeg(2, p.ver) = 4
    BY <1>2, <1>6, <1>7, <1>9
  <2> HIDE DEF g
  <2>3. All(first)
    BY <1>2, <1>4, <1>5, <1>9, <2>2
  <2> HIDE DEF first
  <2>4. All(m_rt')
    BY <1>2, <1>5, <1>9, <2>1, <2>2, <2>3
  <2>5. QED
    BY <2>4 DEF All
<1>10. CASE ~ok[1]
  <2>1. m_rt' = m_rt
    BY <1>10 DEF on_group
  <2>2. All(m_rt')
    BY <1>4, <2>1
  <2>3. QED
    BY <2>2 DEF All
<1>11. QED
  BY <1>8, <1>9, <1>10

\* A station that noise is never taken for.
NoneByChance == air.prog.may.false = 0

\* What has been heard was sent, and what was sent is the station's.
Hearing == air.msg \in heard /\ heard \subseteq sent /\ sent \subseteq air.prog.msgs

\* The inductive invariant.
Told ==
  /\ Whole /\ InMessage /\ Hearing
  /\ NoneByChance => Following /\ TextsTold(air.prog, air.msg, sent, heard)

\* What one bit does to the texts: nothing, a clean start, or a group.
Starts ==
  /\ m_state = "Acquire" /\ heard' = {air'.msg}
  /\ m_ps' = [m_ps EXCEPT !.cand = <<>>, !.pub = <<>>] /\ m_rt' = EmptyText
  /\ UNCHANGED <<m_ptyn, m_ct_iso>>
LEMMA PushTells ==
  ASSUME SyncOK, NEW oi, NEW data, block_sync_push(oi, data)
  PROVE  \/ heard' = heard \cup {air'.msg} /\ UNCHANGED texts
         \/ Starts
         \/ /\ heard' = heard \cup {air'.msg} /\ m_blockpos = 3 /\ Files(oi, data)
            /\ on_group(m_blk', m_blk_ok')
<1>1. CASE Acquire(oi)
  <2>1. CASE Lock
    BY <1>1, <2>1 DEF Acquire, Lock, Starts, texts
  <2>2. CASE ~Lock
    BY <1>1, <2>2 DEF Acquire, texts
  <2>3. QED
    BY <2>1, <2>2
<1>2. CASE Track(oi, data)
  <2> DEFINE ok == Accepts(m_blockpos, oi)
             bad == IF ok THEN 0 ELSE m_bad_run + 1
             new == Filed(m_blockpos, ok, data)
  <2>1. /\ m_state = "Sync" /\ heard' = heard \cup {air'.msg}
        /\ \/ m_bit_since + 1 < BlockBits /\ UNCHANGED texts /\ m_bit_since' = m_bit_since + 1
           \/ /\ ~(m_bit_since + 1 < BlockBits) /\ m_bit_since' = 0
              /\ m_blk' = new.blk /\ m_blk_ok' = new.ok
              /\ \/ UNCHANGED texts
                 \/ /\ m_blockpos = 3 /\ on_group(new.blk, new.ok)
    BY <1>2 DEF Track
  <2>2. SyncOK => m_bit_since + 1 # 0
    BY RdsDecoderAssumption DEF SyncOK
  <2> HIDE DEF new
  <2>3. CASE m_bit_since + 1 < BlockBits
    BY <2>1, <2>3
  <2>4. CASE ~(m_bit_since + 1 < BlockBits)
    <3>1. Files(oi, data)
      <4>1. ~Counts
        BY <2>4 DEF Counts
      <4>2. ~Locks(oi) /\ ~LooksOn(oi)
        BY <2>1 DEF Locks, LooksOn
      <4>3. QED
        BY <4>1, <4>2, Pushes
    <3>2. QED
      BY <2>1, <2>4, <3>1
  <2>5. QED
    BY <2>3, <2>4
<1>3. QED
  BY <1>1, <1>2 DEF block_sync_push

\* What on_group() makes of the clock.
LEMMA ClockHeard ==
  ASSUME NEW p \in Programmes, NEW msgs \in SUBSET p.msgs,
         NEW blk, NEW ok, OneGroup(blk, ok, p, msgs), on_group(blk, ok)
  PROVE  ClockFrom(m_ct_iso', p, msgs) \/ m_ct_iso' = m_ct_iso
<1> SUFFICES ASSUME ok[1], blk[1].gt = 4, ok[2], m_ct_iso' = parse_ct(m_ct_iso, blk[2].c)
             PROVE  ClockFrom(m_ct_iso', p, msgs) \/ m_ct_iso' = m_ct_iso
  BY DEF on_group
<1>1. PICK msg \in msgs, ab \in 0 .. 1 :
        \E seg \in 0 .. Segments(p, msg) - 1 : blk[2] = GroupOf(p, msg, ab, seg)
  BY DEF OneGroup, Grouped
<1>2. PICK seg \in 0 .. Segments(p, msg) - 1 : blk[2] = GroupOf(p, msg, ab, seg)
  BY <1>1
<1>3. p.gt = 4
  BY <1>2 DEF OneGroup, GroupOf
<1>4. blk[2].c = msg
  BY <1>2, <1>3 DEF GroupOf
<1>5. parse_ct(m_ct_iso, msg) \in {m_ct_iso, parse_ct(NoClock, msg)}
  BY DEF parse_ct
<1>6. QED
  BY <1>3, <1>4, <1>5 DEF ClockFrom

\* The group that is parsed is one group.
LEMMA GroupParsed ==
  ASSUME AirOK, SyncOK, Following, NEW adv \in 0 .. 2, NEW good, NEW oi, NEW data,
         Passes(adv, good), Honest(good, oi, data), Files(oi, data), m_blockpos = 3,
         heard \subseteq heard'
  PROVE  OneGroup(m_blk', m_blk_ok', air.prog, heard')
<1>1. /\ m_blk'[3] = (IF Accepts(3, oi) THEN data ELSE Junk)
      /\ \A k \in 0 .. 2 : m_blk'[k] = m_blk[k] /\ m_blk_ok'[k] = m_blk_ok[k]
      /\ m_blk_ok'[3] = Accepts(3, oi) /\ m_state = "Sync"
  BY Slots
<1> SUFFICES ASSUME m_blk_ok[1] PROVE OneGroup(m_blk', m_blk_ok', air.prog, heard')
  BY <1>1 DEF OneGroup
<1>2. /\ Grouped(m_blk[1], air.prog, heard)
      /\ m_blk_ok[2] => m_blk[2] = m_blk[1]
  BY <1>1 DEF Following
<1>3. Grouped(m_blk[1], air.prog, heard')
  BY <1>2, MoreGrouped
<1>4. Accepts(3, oi) => data = m_blk[1]
  BY SameGroup
<1>5. QED
  BY <1>1, <1>2, <1>3, <1>4 DEF OneGroup

\* The texts after a bit are told by what the station has sent until then.
LEMMA TextsStay ==
  ASSUME AirOK, SyncOK, NoneByChance, Following, Hearing, TextsTold(air.prog, air.msg, sent, heard),
         NEW adv \in 0 .. 2, NEW good, NEW oi, NEW data,
         Passes(adv, good), Honest(good, oi, data), block_sync_push(oi, data),
         sent' = sent \cup {air'.msg}
  PROVE  TextsTold(air.prog, air.msg, sent, heard)'
<1> DEFINE p == air.prog
           all == sent'
           said == heard'
           now == air'.msg
<1>1. p \in Programmes /\ air'.prog = p /\ now \in p.msgs
  BY DEF AirOK, Airs, Passes
<1>2. now \in said /\ said \subseteq all /\ all \subseteq p.msgs
  BY <1>1, PushTells DEF Hearing, Starts
<1>3. all = {now} => sent = {now} /\ air.msg = now /\ heard = {now} /\ said = {now}
  BY <1>2 DEF Hearing
<1> SUFFICES /\ ClockFrom(m_ct_iso', p, all)
             /\ p.gt = 0 /\ all = {now} => NameIs(m_ps', now)
             /\ p.gt = 10 /\ all = {now} => NameIs(m_ptyn', now)
             /\ p.gt = 2 => TextFrom(m_rt', said) /\ (all = {now} => TextOf(m_rt', now))
  BY <1>1 DEF TextsTold
<1>4. /\ ClockFrom(m_ct_iso, p, all)
      /\ p.gt = 0 /\ all = {now} => NameIs(m_ps, now)
      /\ p.gt = 10 /\ all = {now} => NameIs(m_ptyn, now)
      /\ p.gt = 2 => TextFrom(m_rt, heard) /\ (all = {now} => TextOf(m_rt, now))
  BY <1>3 DEF TextsTold, ClockFrom
<1> HIDE DEF p, now, all
<1>5. CASE heard' = heard \cup {now} /\ UNCHANGED texts
  <2>1. heard \subseteq said
    BY <1>5
  <2>2. p.gt = 2 => TextFrom(m_rt, said)
    BY <1>4, <2>1, MoreTextFrom
  <2>3. QED
    BY <1>4, <1>5, <2>2 DEF texts
<1>6. CASE Starts
  <2>1. p.gt = 0 /\ all = {now} => NameIs(m_ps', now)
    BY <1>4, <1>6 DEF Starts, NameIs
  <2>2. TextFrom(m_rt', said) /\ TextOf(m_rt', now)
    BY <1>6 DEF Starts, EmptyText, EmptyBank, TextFrom, TextOf
  <2>3. QED
    BY <1>4, <1>6, <2>1, <2>2 DEF Starts
<1>7. CASE heard' = heard \cup {now} /\ m_blockpos = 3 /\ Files(oi, data)
           /\ on_group(m_blk', m_blk_ok')
  <2> DEFINE blk == m_blk'
             ok == m_blk_ok'
  <2>1. heard \subseteq said
    BY <1>7
  <2>2. OneGroup(blk, ok, p, said)
    BY <1>7, <2>1, GroupParsed DEF p
  <2>3. on_group(blk, ok)
    BY <1>7
  <2> HIDE DEF blk, ok
  <2>4. ClockFrom(m_ct_iso', p, all)
    <3>1. ClockFrom(m_ct_iso', p, said) \/ m_ct_iso' = m_ct_iso
      BY <1>1, <1>2, <2>2, <2>3, ClockHeard
    <3>2. QED
      BY <1>2, <1>4, <3>1 DEF ClockFrom
  <2>5. ASSUME p.gt \in {0, 10}, all = {now}
        PROVE  /\ p.gt = 0 => NameIs(m_ps', now)
               /\ p.gt = 10 => NameIs(m_ptyn', now)
    <3>1. OneGroup(blk, ok, p, {now})
      BY <1>3, <2>2, <2>5
    <3>2. QED
      BY <1>1, <1>4, <2>3, <2>5, <3>1, NameHeard
  <2>6. ASSUME p.gt = 2
        PROVE  TextFrom(m_rt', said) /\ (all = {now} => TextOf(m_rt', now))
    <3>1. TextFrom(m_rt, said)
      BY <1>4, <2>1, <2>6, MoreTextFrom
    <3>2. said \in SUBSET p.msgs
      BY <1>2
    <3>3. /\ TextFrom(m_rt', said)
          /\ \A msg \in p.msgs : said = {msg} /\ TextOf(m_rt, msg) => TextOf(m_rt', msg)
      BY <1>1, <2>2, <2>3, <2>6, <3>1, <3>2, TextHeard
    <3>4. QED
      BY <1>1, <1>3, <1>4, <2>6, <3>3
  <2>7. QED
    BY <2>4, <2>5, <2>6
<1>8. QED
  BY <1>5, <1>6, <1>7, PushTells DEF now

\* Nothing is told at first, and each step tells what was sent.
LEMMA ToldAtFirst == DecoderInit => Told
<1> SUFFICES ASSUME DecoderInit PROVE Told
  OBVIOUS
<1>1. Whole
  BY WholeAtFirst
<1>2. AirOK
  BY <1>1 DEF Whole
<1>3. /\ air.seg = 0 /\ heard = {air.msg} /\ sent = {air.msg} /\ m_state = "Acquire"
      /\ m_ps = EmptyName /\ m_ptyn = EmptyName /\ m_rt = EmptyText /\ m_ct_iso = NoClock
  BY DEF DecoderInit
<1>4. Segments(air.prog, air.msg) \in Nat \ {0} /\ air.msg \in air.prog.msgs
  BY <1>2, Stations DEF AirOK
<1>5. InMessage
  BY <1>3, <1>4 DEF InMessage
<1>6. Hearing
  BY <1>3, <1>4 DEF Hearing
<1>7. Following
  BY <1>3 DEF Following
<1>8. NameIs(EmptyName, air.msg)
  BY DEF EmptyName, NameIs
<1>9. TextFrom(EmptyText, heard) /\ TextOf(EmptyText, air.msg)
  BY DEF EmptyText, EmptyBank, TextFrom, TextOf
<1>10. TextsTold(air.prog, air.msg, sent, heard)
  BY <1>3, <1>8, <1>9 DEF TextsTold, ClockFrom
<1>11. QED
  BY <1>1, <1>5, <1>6, <1>7, <1>10 DEF Told

LEMMA ToldStep == Told /\ [DecoderNext]_decoderVars => Told'
<1> SUFFICES ASSUME Told, [DecoderNext]_decoderVars PROVE Told'
  OBVIOUS
<1>1. /\ Whole /\ InMessage /\ Hearing /\ AirOK /\ SyncOK
      /\ NoneByChance => Following /\ TextsTold(air.prog, air.msg, sent, heard)
  BY DEF Told, Whole
<1>2. Whole'
  BY <1>1, WholeStep
<1>3. ASSUME DecoderNext PROVE InMessage' /\ sent' = sent \cup {air'.msg}
  BY <1>1, <1>3, Sends DEF Hearing
<1>4. ASSUME DecoderNext,
             NEW adv \in 0 .. 2, NEW good \in BOOLEAN, NEW oi \in -1 .. 4, NEW data,
             Passes(adv, good), block_sync_push(oi, data),
             Honest(good, oi, data) \/ Chance(adv)
      PROVE  Told'
  <2>1. InMessage' /\ sent' = sent \cup {air'.msg}
    BY <1>3, <1>4
  <2>2. /\ air'.prog = air.prog /\ air'.msg \in air.prog.msgs
    BY <1>4 DEF Passes, AirOK
  <2>3. heard' = heard \cup {air'.msg} \/ (heard' = {air'.msg} /\ m_state = "Acquire")
    <3>1. \/ heard' = heard \cup {air'.msg}
          \/ Starts
      BY <1>1, <1>4, PushTells
    <3>2. QED
      BY <3>1 DEF Starts
  <2>4. Hearing'
    BY <1>1, <2>1, <2>2, <2>3 DEF Hearing
  <2>5. ASSUME NoneByChance' PROVE (Following /\ TextsTold(air.prog, air.msg, sent, heard))'
    <3>1. NoneByChance
      BY <2>2, <2>5 DEF NoneByChance
    <3>2. Honest(good, oi, data)
      BY <1>1, <1>4, <3>1 DEF NoneByChance, Chance, AirOK, Airs, Mishaps
    <3>3. Following /\ TextsTold(air.prog, air.msg, sent, heard)
      BY <1>1, <3>1
    <3>4. m_state = "Sync" => heard \subseteq heard'
      BY <2>3
    <3>5. Following'
      BY <1>1, <1>4, <3>2, <3>3, <3>4, FollowingStays DEF Hearing
    <3>6. TextsTold(air.prog, air.msg, sent, heard)'
      BY <1>1, <1>4, <2>1, <3>1, <3>2, <3>3, TextsStay
    <3>7. QED
      BY <3>5, <3>6
  <2>6. QED
    BY <1>2, <2>1, <2>4, <2>5 DEF Told
<1>5. ASSUME DecoderNext, Fades PROVE Told'
  <2>1. /\ air'.prog = air.prog /\ air'.msg = air.msg /\ air'.ab = air.ab
        /\ air'.seg = air.seg /\ air'.phase = air.phase
    BY <1>1, <1>5 DEF Fades, AirOK, Airs
  <2>2. UNCHANGED <<sync, texts, heard, sent>>
    BY <1>5 DEF Fades
  <2>3. InMessage' /\ Hearing' /\ (NoneByChance' <=> NoneByChance)
    BY <1>1, <1>3, <1>5, <2>1, <2>2 DEF Hearing, NoneByChance
  <2>4. Following => Following'
    BY <2>1, <2>2 DEF Following, Gone, Group, sync
  <2>5. TextsTold(air.prog, air.msg, sent, heard) => TextsTold(air.prog, air.msg, sent, heard)'
    BY <2>1, <2>2 DEF TextsTold, texts
  <2>6. QED
    BY <1>1, <1>2, <2>3, <2>4, <2>5 DEF Told
<1>6. CASE UNCHANGED decoderVars
  <2>1. UNCHANGED <<air, heard, sent, m_state, m_blockpos, m_bit_since, m_blk, m_blk_ok>>
        /\ UNCHANGED texts
    BY <1>6 DEF decoderVars, sync
  <2>2. InMessage' /\ Hearing' /\ (NoneByChance' <=> NoneByChance)
    BY <1>1, <2>1 DEF InMessage, Hearing, NoneByChance
  <2>3. Following => Following'
    BY <2>1 DEF Following, Gone, Group
  <2>4. TextsTold(air.prog, air.msg, sent, heard) => TextsTold(air.prog, air.msg, sent, heard)'
    BY <2>1 DEF TextsTold, texts
  <2>5. QED
    BY <1>1, <1>2, <2>2, <2>3, <2>4 DEF Told
<1>7. QED
  BY <1>1, <1>4, <1>5, <1>6, Steps

\* The clocks of the stations are of days the code's arithmetic is meant for.
UntilLastDay == \A p \in Programmes : p.gt = 4 => \A c \in p.msgs : c.mjd <= LastDay

\* What has been told is what may be shown.
LEMMA ToldIsSent ==
  ASSUME UntilLastDay, Told, NoneByChance
  PROVE  ShownIsSent
<1>1. /\ AirOK /\ air.msg \in air.prog.msgs /\ air.prog \in Programmes
      /\ TextsTold(air.prog, air.msg, sent, heard)
  BY Stations DEF Told, Whole, AirOK
<1>2. ClockIsTrue
  <2> SUFFICES ASSUME m_ct_iso # NoClock
               PROVE  /\ m_ct_iso.day \in 1 .. MonthDays(m_ct_iso.year, m_ct_iso.month)
                      /\ \E c \in sent : /\ c.mjd = DayNumber(m_ct_iso)
                                         /\ c.hour = m_ct_iso.hour
                                         /\ c.minute = m_ct_iso.minute
    BY DEF ClockIsTrue
  <2>1. air.prog.gt = 4 /\ \E c \in sent : m_ct_iso = parse_ct(NoClock, c)
    BY <1>1 DEF TextsTold, ClockFrom
  <2>2. PICK c \in sent : m_ct_iso = parse_ct(NoClock, c)
    BY <2>1
  <2>3. c \in air.prog.msgs
    BY DEF Told, Hearing
  <2>4. c.mjd \in Nat /\ c.mjd <= LastDay
    BY <1>1, <2>1, <2>3, RdsDecoderAssumption DEF UntilLastDay
  <2>5. QED
    BY <2>2, <2>4, CalendarHolds
<1>3. TextStartsClean
  <2> SUFFICES ASSUME air.prog.gt = 2, NEW i \in DOMAIN snapshot.rt
               PROVE  \E msg \in heard : snapshot.rt[i] = sanitize(msg[i])
    BY DEF TextStartsClean
  <2>1. snapshot.rt \in {<<>>, m_rt.pub}
    BY DEF snapshot
  <2>2. TextFrom(m_rt, heard)
    BY <1>1 DEF TextsTold
  <2>3. QED
    BY <2>1, <2>2 DEF TextFrom
<1>4. OneMessage
  <2> SUFFICES ASSUME air.prog.gt \in {0, 2, 10}, sent = {air.msg}
               PROVE  Shown \in {<<>>} \cup (IF air.prog.gt = 2 THEN Parts(Text(air.msg))
                                             ELSE {Text(air.msg)})
    BY DEF OneMessage
  <2>1. CASE air.prog.gt \in {0, 10}
    <3>1. air.msg \in Seq(STRING) /\ Len(air.msg) = NameLen /\ NameLen \in Nat
      BY <1>1, <2>1, RdsDecoderAssumption
    <3>2. DOMAIN air.msg = 1 .. NameLen
      BY <3>1
    <3>3. Text(air.msg) = Reads(air.msg)
      <4>1. air.prog.gt # 2
        BY <2>1
      <4>2. Text(air.msg) = rstrip([i \in DOMAIN air.msg |-> sanitize(air.msg[i])])
        BY <4>1, Zenon DEF Text
      <4>3. QED
        BY <3>2, <4>2 DEF Reads
    <3>4. CASE air.prog.gt = 0
      <4>1. Shown = snapshot.ps /\ snapshot.ps \in {<<>>, m_ps.pub}
        BY <3>4 DEF Shown, snapshot
      <4>2. m_ps.pub \in {<<>>, Reads(air.msg)}
        BY <1>1, <3>4 DEF TextsTold, NameIs
      <4>3. QED
        BY <3>3, <3>4, <4>1, <4>2
    <3>5. CASE air.prog.gt = 10
      <4>1. Shown = m_ptyn.pub
        BY <3>5 DEF Shown, snapshot
      <4>2. m_ptyn.pub \in {<<>>, Reads(air.msg)}
        BY <1>1, <3>5 DEF TextsTold, NameIs
      <4>3. QED
        BY <3>3, <3>5, <4>1, <4>2
    <3>6. QED
      BY <2>1, <3>4, <3>5
  <2>2. CASE air.prog.gt = 2
    <3>1. Text(air.msg) = Plain(air.msg)
      BY <2>2 DEF Text, Plain
    <3>2. Shown = snapshot.rt /\ snapshot.rt \in {<<>>, m_rt.pub}
      BY <2>2 DEF Shown, snapshot
    <3>3. m_rt.pub \in {<<>>} \cup Parts(Plain(air.msg))
      BY <1>1, <2>2 DEF TextsTold, TextOf
    <3>4. QED
      BY <2>2, <3>1, <3>2, <3>3
  <2>3. QED
    BY <2>1, <2>2
<1>5. QED
  BY <1>2, <1>3, <1>4 DEF ShownIsSent

\* Whatever is shown of a station was sent by it, and the day of its clock is the one it
\* sent, until the end of February 2100; for every length of a block, every message, and
\* every number of errors, slips, fades and changes of the message, without chance matches.
THEOREM ShownWasSent ==
  ASSUME UntilLastDay
  PROVE  DecoderSpec => [](air.prog.may.false = 0 => ShownIsSent)
<1>1. Told => (air.prog.may.false = 0 => ShownIsSent)
  BY ToldIsSent DEF NoneByChance
<1>2. QED
  BY <1>1, ToldAtFirst, ToldStep, PTL DEF DecoderSpec
=============================================================================

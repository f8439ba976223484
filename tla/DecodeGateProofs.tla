--------------------------- MODULE DecodeGateProofs ---------------------------
(***************************************************************************)
(* Proofs about DecodeGate, for any number of stations, listeners and POSTs*)
(* under way, and any timing constants.                                    *)
(*                                                                         *)
(* The argument for the bound on silence: a POST that leaves a listened-to *)
(* station out was sent before the listener came, so it is at least as old *)
(* as the silence (Posted).  When it takes effect the silence is therefore *)
(* at most PostLife, and from then on it grows with the age of the stamp   *)
(* (Masked), unless the handler of a POST that does name the station is    *)
(* half-way; and a stale stamp opens every station.                        *)
(***************************************************************************)
EXTENDS DecodeGate, TLAPS

\* Nobody is listening: nothing to be silent about.
Counted == \A k \in Stations : ~Listened(k) => silent[k] = 0

Posted ==
  \A p \in Posts, k \in Stations :
    post[p] # None /\ k \notin post[p].ports => silent[k] <= post[p].age

HalfWay(k) == \E p \in Posts : post[p] # None /\ k \in post[p].ports /\ post[p].stores = {"mask"}

Masked ==
  \A k \in Stations : Fresh /\ k \notin mask => silent[k] <= PostLife + age \/ HalfWay(k)

\* A mask that another POST has overwritten before its own stamp was stored.
Stamping ==
  \A p \in Posts, k \in Stations :
    post[p] # None /\ post[p].stores = {"stamp"} /\ k \in post[p].ports /\ k \notin mask
      => silent[k] <= PostLife

\* The loop decodes the last set it acted on, or every station.
Synced ==
  /\ live = seen \/ (seen = Sentinel /\ live = Stations)
  /\ bins = IF live = {} THEN {0} ELSE live

IInv == TypeOK /\ Counted /\ Posted /\ Masked /\ Stamping /\ SilenceBounded /\ Synced
-----------------------------------------------------------------------------

Whole == {"mask", "stamp"}

\* A POST under way is a record of its kind.
LEMMA PostFacts ==
  ASSUME TypeOK, NEW p \in Posts, post[p] # None
  PROVE  /\ post[p] \in PostType
         /\ post[p].ports \in SUBSET Stations /\ post[p].age \in 0 .. PostLife
         /\ post[p].stores \in {Whole, {"mask"}, {"stamp"}}
<1>1. post[p] \in PostType
  BY Zenon DEF TypeOK
<1>2. QED
  BY <1>1 DEF PostType, Whole

LEMMA StoresChanged ==
  ASSUME NEW r \in PostType, NEW x \in {Whole, {"mask"}, {"stamp"}}
  PROVE  LET q == [r EXCEPT !.stores = x]
         IN  q \in PostType /\ q # None /\ q.ports = r.ports /\ q.age = r.age /\ q.stores = x
<1> DEFINE q == [r EXCEPT !.stores = x]
<1>1. q \in PostType /\ q.ports = r.ports /\ q.age = r.age /\ q.stores = x
  BY DEF PostType, Whole
<1>2. QED
  BY <1>1, DecodeGateAssumption

LEMMA InitOK == Init => IInv
<1> SUFFICES ASSUME Init PROVE IInv
  OBVIOUS
<1>1. TypeOK
  <2>1. tuned \in [Listeners -> Stations \cup {None}] /\ post \in [Posts -> PostType \cup {None}]
    BY Zenon DEF Init
  <2>2. linger \in [Stations -> 0 .. Linger] /\ silent \in [Stations -> 0 .. SilenceBound + 1]
    <3>1. 0 \in 0 .. Linger /\ 0 \in 0 .. SilenceBound + 1
      BY DecodeGateAssumption DEF SilenceBound
    <3>2. QED
      BY <3>1, Zenon DEF Init
  <2>3. timer \in 0 .. KeepAlive + PostTimeout /\ age \in 0 .. FailOpen + 1
    BY DecodeGateAssumption DEF Init
  <2>4. /\ mask \in SUBSET Stations /\ live \in SUBSET Stations /\ bins \in SUBSET Stations
        /\ seen \in (SUBSET Stations) \cup {Sentinel}
    BY Zenon DEF Init
  <2>5. /\ relayUp \in BOOLEAN /\ listed \in BOOLEAN /\ dirty \in BOOLEAN
        /\ client \in {"wait", "post"} /\ rt \in {"head", "fresh"}
    BY DEF Init
  <2>6. QED
    BY <2>1, <2>2, <2>3, <2>4, <2>5, Zenon DEF TypeOK
<1>2. Counted /\ Posted /\ Stamping
  BY DEF Init, Counted, Posted, Stamping
<1>3. Masked
  BY DEF Init, Masked
<1>4. SilenceBounded
  BY DecodeGateAssumption DEF Init, SilenceBounded, SilenceBound
<1>5. Synced
  <2>1. Stations # {}
    BY DecodeGateAssumption DEF Stations
  <2>2. QED
    BY <2>1 DEF Init, Synced
<1>6. QED
  BY <1>1, <1>2, <1>3, <1>4, <1>5 DEF IInv

\* Only Tick lengthens a silence, and the relay's actions touch neither the set
\* in force nor the loop.
LEMMA JoinLeave ==
  ASSUME IInv, NEW c \in Listeners, Leave(c) \/ \E k \in Stations : Join(c, k)
  PROVE  IInv'
<1>0. TypeOK /\ Counted /\ Posted /\ Masked /\ Stamping /\ SilenceBounded /\ Synced
  BY DEF IInv
<1>1. UNCHANGED <<relayUp, listed, client, timer, post, mask, age, rt, seen, live, bins>>
  BY DEF Leave, Join, set, loop
<1>2. TypeOK'
  <2>1. /\ tuned \in [Listeners -> Stations \cup {None}]
        /\ linger \in [Stations -> 0 .. Linger]
        /\ silent \in [Stations -> 0 .. SilenceBound + 1]
        /\ 0 \in 0 .. Linger /\ Linger \in 0 .. Linger /\ 0 \in 0 .. SilenceBound + 1
    BY <1>0, DecodeGateAssumption DEF TypeOK, SilenceBound
  <2>2. /\ tuned' \in [Listeners -> Stations \cup {None}]
        /\ linger' \in [Stations -> 0 .. Linger]
        /\ silent' \in [Stations -> 0 .. SilenceBound + 1]
    BY <2>1 DEF Leave, Join
  <2>3. dirty' \in BOOLEAN
    BY DEF Leave, Join
  <2>4. QED
    BY <1>0, <1>1, <2>2, <2>3, Zenon DEF TypeOK
<1>3. \A k \in Stations : silent'[k] = silent[k] \/ silent'[k] = 0
  BY <1>0 DEF Leave, Join, TypeOK
<1>4. Counted'
  <2> SUFFICES ASSUME NEW k \in Stations, ~Listened(k)' PROVE silent'[k] = 0
    BY DEF Counted
  <2>1. CASE Leave(c)
    <3>1. CASE tuned[c] = k
      BY <1>0, <2>1, <3>1 DEF Leave, Listened, TypeOK
    <3>2. CASE tuned[c] # k
      <4>1. ~Listened(k)
        BY <1>0, <2>1, <3>2 DEF Leave, Listened, TypeOK
      <4>2. QED
        BY <1>0, <1>3, <4>1 DEF Counted
    <3>3. QED
      BY <3>1, <3>2
  <2>2. CASE \E j \in Stations : Join(c, j)
    <3>1. ~Listened(k)
      BY <1>0, <2>2, DecodeGateAssumption DEF Join, Listened, TypeOK, Stations
    <3>2. QED
      BY <1>0, <2>2, <3>1 DEF Join, Counted
  <2>3. QED
    BY <2>1, <2>2
<1>5. Posted'
  BY <1>0, <1>1, <1>3, PostFacts DEF Posted, TypeOK
<1>6. Masked'
  <2> SUFFICES ASSUME NEW k \in Stations, Fresh', k \notin mask'
               PROVE  silent'[k] <= PostLife + age' \/ HalfWay(k)'
    BY DEF Masked
  <2>1. silent[k] <= PostLife + age \/ HalfWay(k)
    BY <1>0, <1>1 DEF Masked, Fresh
  <2>2. QED
    BY <1>0, <1>1, <1>3, <2>1, DecodeGateAssumption DEF HalfWay, TypeOK
<1>7. SilenceBounded' /\ Synced'
  BY <1>0, <1>1, <1>3, DecodeGateAssumption DEF SilenceBounded, SilenceBound, Synced
<1>8. Stamping'
  BY <1>0, <1>1, <1>3, DecodeGateAssumption DEF Stamping
<1>9. QED
  BY <1>2, <1>4, <1>5, <1>6, <1>7, <1>8 DEF IInv

\* A POST that is sent names every station with a listener.
LEMMA SendOK ==
  ASSUME IInv, Send(DecodePorts), UNCHANGED <<tuned, linger, set, loop, silent>>
  PROVE  /\ post' \in [Posts -> PostType \cup {None}]
         /\ Counted' /\ Posted' /\ Masked' /\ Stamping' /\ SilenceBounded' /\ Synced'
<1>0. TypeOK /\ Counted /\ Posted /\ Masked /\ Stamping /\ SilenceBounded /\ Synced
  BY DEF IInv
<1>1. UNCHANGED <<tuned, linger, mask, age, rt, seen, live, bins, silent>>
  BY DEF set, loop
<1>2. Counted' /\ SilenceBounded' /\ Synced'
  BY <1>0, <1>1 DEF Counted, Listened, SilenceBounded, Synced
<1>3. CASE UNCHANGED post
  BY <1>0, <1>1, <1>2, <1>3 DEF TypeOK, Posted, Masked, Stamping, Fresh, HalfWay
<1>4. ASSUME NEW p \in Posts, post[p] = None,
             post' = [post EXCEPT ![p] = [ports |-> DecodePorts, age |-> 0, stores |-> Whole]]
      PROVE  post' \in [Posts -> PostType \cup {None}] /\ Posted' /\ Masked' /\ Stamping'
  <2> DEFINE r == [ports |-> DecodePorts, age |-> 0, stores |-> Whole]
  <2>1. r \in PostType
    BY DecodeGateAssumption DEF PostType, DecodePorts, Whole
  <2>2. post' = [post EXCEPT ![p] = r] /\ post \in [Posts -> PostType \cup {None}]
    BY <1>0, <1>4 DEF TypeOK
  <2>3. r.ports = DecodePorts /\ r.age = 0 /\ r.stores = Whole
    OBVIOUS
  <2> HIDE DEF r
  <2>4. post' \in [Posts -> PostType \cup {None}]
    BY <2>1, <2>2
  <2>5. Posted'
    <3> SUFFICES ASSUME NEW q \in Posts, NEW k \in Stations, post'[q] # None, k \notin post'[q].ports
                 PROVE  silent[k] <= post'[q].age
      BY <1>1 DEF Posted
    <3>1. CASE q = p
      BY <1>0, <2>2, <2>3, <3>1 DEF DecodePorts, Counted
    <3>2. CASE q # p
      BY <1>0, <2>2, <3>2 DEF Posted
    <3>3. QED
      BY <3>1, <3>2
  <2>6. Masked'
    <3> SUFFICES ASSUME NEW k \in Stations, Fresh, k \notin mask
                 PROVE  silent[k] <= PostLife + age \/ HalfWay(k)'
      BY <1>1 DEF Masked, Fresh
    <3>1. HalfWay(k) => HalfWay(k)'
      BY <1>4, <2>2 DEF HalfWay
    <3>2. QED
      BY <1>0, <3>1 DEF Masked
  <2>7. Stamping'
    <3>1. \A q \in Posts : post'[q] # None /\ post'[q].stores = {"stamp"} => post'[q] = post[q]
      BY <2>2, <2>3 DEF Whole
    <3>2. QED
      BY <1>0, <1>1, <3>1 DEF Stamping
  <2>8. QED
    BY <2>4, <2>5, <2>6, <2>7
<1>5. QED
  BY <1>2, <1>3, <1>4 DEF Send, Whole

LEMMA PushLoop ==
  ASSUME IInv, Wake \/ PushDone \/ RelayStart \/ Refresh
  PROVE  IInv'
<1>0. TypeOK /\ Counted /\ Posted /\ Masked /\ Stamping /\ SilenceBounded /\ Synced
  BY DEF IInv
<1>1. UNCHANGED <<tuned, linger, mask, age, rt, seen, live, bins, silent>>
  BY DEF Wake, PushDone, RelayStart, Refresh, set, loop
<1>2. /\ post' \in [Posts -> PostType \cup {None}]
      /\ Counted' /\ Posted' /\ Masked' /\ Stamping' /\ SilenceBounded' /\ Synced'
  <2>1. Send(DecodePorts)
    BY DEF Wake, PushDone, RelayStart, Refresh, Send
  <2>2. QED
    BY <1>1, <2>1, SendOK DEF set, loop
<1>3. /\ relayUp' \in BOOLEAN /\ listed' \in BOOLEAN /\ dirty' \in BOOLEAN
      /\ client' \in {"wait", "post"}
  BY <1>0 DEF TypeOK, Wake, PushDone, RelayStart, Refresh
<1>4. timer' \in 0 .. KeepAlive + PostTimeout
  BY <1>0, DecodeGateAssumption DEF TypeOK, Wake, PushDone, RelayStart, Refresh
<1>5. TypeOK'
  BY <1>0, <1>1, <1>2, <1>3, <1>4, Zenon DEF TypeOK
<1>6. QED
  BY <1>2, <1>5 DEF IInv

LEMMA Stop ==
  ASSUME IInv, RelayStop
  PROVE  IInv'
<1>0. TypeOK /\ Counted /\ Posted /\ Masked /\ Stamping /\ SilenceBounded /\ Synced
  BY DEF IInv
<1>1. UNCHANGED <<post, mask, age, rt, seen, live, bins>> /\ \A k \in Stations : silent'[k] = 0
  BY DEF RelayStop, set, loop
<1>2. TypeOK'
  <2>1. 0 \in 0 .. Linger /\ 0 \in 0 .. SilenceBound + 1 /\ KeepAlive \in 0 .. KeepAlive + PostTimeout
    BY DecodeGateAssumption DEF SilenceBound
  <2>2. /\ tuned' \in [Listeners -> Stations \cup {None}] /\ linger' \in [Stations -> 0 .. Linger]
        /\ silent' \in [Stations -> 0 .. SilenceBound + 1] /\ timer' \in 0 .. KeepAlive + PostTimeout
        /\ relayUp' \in BOOLEAN /\ listed' \in BOOLEAN /\ dirty' \in BOOLEAN
        /\ client' \in {"wait", "post"}
    BY <2>1, Zenon DEF RelayStop
  <2>3. QED
    BY <1>0, <1>1, <2>2, Zenon DEF TypeOK
<1>3. Counted' /\ Synced'
  BY <1>0, <1>1 DEF Counted, Synced
<1>4. SilenceBounded'
  BY <1>1, DecodeGateAssumption DEF SilenceBounded, SilenceBound
<1>5. Posted'
  BY <1>0, <1>1, PostFacts DEF Posted
<1>6. Masked'
  BY <1>0, <1>1, DecodeGateAssumption DEF Masked, TypeOK
<1>7. Stamping'
  BY <1>1, DecodeGateAssumption DEF Stamping
<1>8. QED
  BY <1>2, <1>3, <1>4, <1>5, <1>6, <1>7 DEF IInv

\* The handler's two stores, and a POST that comes to nothing.
LEMMA HandlerOK ==
  ASSUME IInv, NEW p \in Posts, StoreMask(p) \/ StoreStamp(p) \/ Lose(p)
  PROVE  IInv'
<1>0. TypeOK /\ Counted /\ Posted /\ Masked /\ Stamping /\ SilenceBounded /\ Synced
  BY DEF IInv
<1>1. UNCHANGED <<relayUp, listed, tuned, linger, dirty, client, timer, rt, seen, live, bins, silent>>
  BY DEF StoreMask, StoreStamp, Lose, relay, loop
<1>2. /\ post[p] # None /\ post[p] \in PostType /\ post \in [Posts -> PostType \cup {None}]
      /\ post[p].stores \in {Whole, {"mask"}, {"stamp"}}
      /\ post[p].ports \in SUBSET Stations /\ post[p].age \in 0 .. PostLife
  BY <1>0, PostFacts DEF StoreMask, StoreStamp, Lose, Stored, TypeOK
<1>3. ASSUME NEW s \in Whole, Stored(p, s)
      PROVE  \E n \in PostType \cup {None} :
               /\ post' = [post EXCEPT ![p] = n]
               /\ n # None => /\ n.ports = post[p].ports /\ n.age = post[p].age
                              /\ n.stores = Whole \ {s}
               /\ post[p].stores = Whole => n # None
  <2>1. CASE post[p].stores = {s}
    <3>1. post[p].stores # Whole
      BY <1>3, <2>1 DEF Whole
    <3>2. post' = [post EXCEPT ![p] = None]
      BY <1>3, <2>1 DEF Stored
    <3>3. QED
      BY <3>1, <3>2, Zenon
  <2>2. CASE post[p].stores # {s}
    <3> DEFINE x == post[p].stores \ {s}
               q == [post[p] EXCEPT !.stores = x]
    <3>1. post[p].stores = Whole /\ x \in {Whole, {"mask"}, {"stamp"}} /\ x = Whole \ {s}
      BY <1>2, <1>3, <2>2 DEF Stored, Whole
    <3>2. q \in PostType /\ q # None /\ q.ports = post[p].ports /\ q.age = post[p].age /\ q.stores = x
      BY <1>2, <3>1, StoresChanged
    <3>3. post' = [post EXCEPT ![p] = q]
      BY <1>3, <2>2 DEF Stored
    <3> HIDE DEF q, x
    <3>4. QED
      BY <3>1, <3>2, <3>3
  <2>3. QED
    BY <2>1, <2>2
<1>4. PICK n \in PostType \cup {None} :
        /\ post' = [post EXCEPT ![p] = n]
        /\ n # None => n.ports = post[p].ports /\ n.age = post[p].age
        /\ n # None /\ n.stores = {"stamp"} => StoreMask(p)
  <2>1. CASE Lose(p)
    BY <2>1 DEF Lose
  <2>2. CASE StoreMask(p)
    BY <1>3, <2>2 DEF StoreMask, Whole
  <2>3. CASE StoreStamp(p)
    <3>1. "stamp" \in Whole /\ Whole \ {"stamp"} # {"stamp"} /\ Stored(p, "stamp")
      BY <2>3 DEF StoreStamp, Whole
    <3>2. QED
      BY <1>3, <3>1
  <2>4. QED
    BY <2>1, <2>2, <2>3
<1>5. \A q \in Posts :
        /\ q # p => post'[q] = post[q]
        /\ post'[q] # None => post[q] # None /\ post'[q].ports = post[q].ports /\ post'[q].age = post[q].age
        /\ post'[q] # None /\ post'[q].stores = {"stamp"} => post[q].stores = {"stamp"} \/ StoreMask(q)
  BY <1>2, <1>4
<1>6. Counted' /\ SilenceBounded' /\ Synced'
  BY <1>0, <1>1 DEF Counted, Listened, SilenceBounded, Synced
<1>7. Posted'
  BY <1>0, <1>1, <1>5 DEF Posted
<1>8. post' \in [Posts -> PostType \cup {None}]
  BY <1>2, <1>4
<1>9. CASE Lose(p)
  <2>1. mask' = mask /\ age' = age /\ post[p].stores = Whole
    BY <1>9 DEF Lose, set, Whole
  <2>2. TypeOK'
    BY <1>0, <1>1, <1>8, <2>1, Zenon DEF TypeOK
  <2>3. ASSUME NEW k \in Stations, HalfWay(k) PROVE HalfWay(k)'
    BY <1>5, <2>1, <2>3 DEF HalfWay, Whole
  <2>4. Masked'
    BY <1>0, <1>1, <2>1, <2>3 DEF Masked, Fresh
  <2>5. Stamping'
    <3> SUFFICES ASSUME NEW q \in Posts, NEW k \in Stations, post'[q] # None,
                        post'[q].stores = {"stamp"}, k \in post'[q].ports, k \notin mask
                 PROVE  silent[k] <= PostLife
      BY <1>1, <2>1 DEF Stamping
    <3>1. q # p
      BY <1>4, <1>9 DEF Lose
    <3>2. QED
      BY <1>0, <1>5, <3>1 DEF Stamping
  <2>6. QED
    BY <1>6, <1>7, <2>2, <2>4, <2>5 DEF IInv
<1>10. CASE StoreMask(p)
  <2>1. mask' = post[p].ports /\ age' = age
    BY <1>10 DEF StoreMask
  <2>2. mask' \in SUBSET Stations
    BY <1>2, <2>1
  <2>3. TypeOK'
    BY <1>0, <1>1, <1>8, <2>1, <2>2, Zenon DEF TypeOK
  <2>4. Masked'
    <3> SUFFICES ASSUME NEW k \in Stations, k \notin post[p].ports
                 PROVE  silent[k] <= PostLife + age
      BY <1>1, <2>1 DEF Masked
    <3>1. silent[k] <= post[p].age /\ post[p].age <= PostLife /\ post[p].age \in Nat
      BY <1>0, <1>2, DecodeGateAssumption DEF Posted
    <3>2. silent[k] \in Nat /\ age \in Nat
      BY <1>0, DecodeGateAssumption DEF TypeOK, SilenceBound
    <3>3. QED
      BY <3>1, <3>2, DecodeGateAssumption
  <2>5. Stamping'
    <3> SUFFICES ASSUME NEW k \in Stations, k \notin post[p].ports
                 PROVE  silent[k] <= PostLife
      <4>1. \A q \in Posts, j \in Stations : j \in post'[q].ports /\ j \notin mask' => j \notin post[p].ports
        BY <2>1
      <4>2. QED
        BY <1>1, <4>1 DEF Stamping
    <3>1. silent[k] <= post[p].age /\ post[p].age <= PostLife /\ post[p].age \in Nat
      BY <1>0, <1>2, DecodeGateAssumption DEF Posted
    <3>2. QED
      BY <1>0, <3>1, DecodeGateAssumption DEF TypeOK, SilenceBound
  <2>6. QED
    BY <1>6, <1>7, <2>3, <2>4, <2>5 DEF IInv
<1>11. CASE StoreStamp(p)
  <2>1. mask' = mask /\ age' = 0 /\ Stored(p, "stamp")
    BY <1>11 DEF StoreStamp
  <2>2. age' \in 0 .. FailOpen + 1
    BY <2>1, DecodeGateAssumption
  <2>3. TypeOK'
    BY <1>0, <1>1, <1>8, <2>1, <2>2, Zenon DEF TypeOK
  <2>4. Masked'
    <3> SUFFICES ASSUME NEW k \in Stations, k \notin mask
                 PROVE  silent[k] <= PostLife + 0 \/ HalfWay(k)'
      BY <1>1, <2>1 DEF Masked
    <3>1. CASE k \notin post[p].ports
      <4>1. silent[k] <= post[p].age /\ post[p].age <= PostLife /\ post[p].age \in Nat
        BY <1>0, <1>2, <3>1, DecodeGateAssumption DEF Posted
      <4>2. QED
        BY <1>0, <4>1, DecodeGateAssumption DEF TypeOK, SilenceBound
    <3>2. CASE k \in post[p].ports /\ post[p].stores = Whole
      <4>1. post'[p] # None /\ post'[p].stores = {"mask"} /\ post'[p].ports = post[p].ports
        BY <1>2, <1>3, <2>1, <3>2 DEF Whole
      <4>2. QED
        BY <3>2, <4>1 DEF HalfWay
    <3>3. CASE k \in post[p].ports /\ post[p].stores # Whole
      \* The mask was stored before the stamp: another handler has overwritten it.
      <4>1. post[p].stores = {"stamp"}
        BY <1>2, <2>1, <3>3 DEF Stored
      <4>2. QED
        BY <1>0, <1>2, <3>3, <4>1, DecodeGateAssumption DEF Stamping, TypeOK, SilenceBound
    <3>4. QED
      BY <3>1, <3>2, <3>3
  <2>5. Stamping'
    <3>1. \A q \in Posts : post'[q] # None /\ post'[q].stores = {"stamp"} =>
            /\ post[q] # None /\ post[q].stores = {"stamp"} /\ post'[q].ports = post[q].ports
      <4>1. ASSUME NEW r \in PostType, r.stores = {"stamp"}, post' = [post EXCEPT ![p] = r]
            PROVE  FALSE
        BY <1>2, <1>3, <2>1, <4>1, DecodeGateAssumption DEF Stored, Whole
      <4>2. post'[p] # None => post'[p].stores # {"stamp"}
        BY <1>2, <1>4, <4>1
      <4>3. QED
        BY <1>5, <4>2
    <3>2. QED
      BY <1>0, <1>1, <2>1, <3>1 DEF Stamping
  <2>6. QED
    BY <1>6, <1>7, <2>3, <2>4, <2>5 DEF IInv
<1>12. QED
  BY <1>9, <1>10, <1>11

\* The real-time loop acts on a set of stations.
LEMMA SyncOK ==
  ASSUME IInv, NEW eff \in SUBSET Stations, Sync(eff), rt' \in {"head", "fresh"},
         UNCHANGED <<relay, post, set, silent>>
  PROVE  IInv'
<1>0. TypeOK /\ Counted /\ Posted /\ Masked /\ Stamping /\ SilenceBounded /\ Synced
  BY DEF IInv
<1>1. UNCHANGED <<relayUp, listed, tuned, linger, dirty, client, timer, post, mask, age, silent>>
  BY DEF relay, set
<1>2. /\ seen' \in (SUBSET Stations) \cup {Sentinel} /\ live' \in SUBSET Stations
      /\ bins' \in SUBSET Stations
  <2>1. {0} \in SUBSET Stations
    BY DecodeGateAssumption DEF Stations
  <2>2. QED
    BY <1>0, <2>1, Zenon DEF Sync, TypeOK
<1>3. TypeOK'
  BY <1>0, <1>1, <1>2, Zenon DEF TypeOK
<1>4. Synced'
  BY <1>0 DEF Sync, Synced
<1>5. Counted' /\ Posted' /\ Masked' /\ Stamping' /\ SilenceBounded'
  BY <1>0, <1>1 DEF Counted, Listened, Posted, Masked, Fresh, HalfWay, Stamping, SilenceBounded
<1>6. QED
  BY <1>3, <1>4, <1>5 DEF IInv

LEMMA Loop ==
  ASSUME IInv, LoadStamp \/ LoadMask
  PROVE  IInv'
<1>0. TypeOK /\ Counted /\ Posted /\ Masked /\ Stamping /\ SilenceBounded /\ Synced
  BY DEF IInv
<1>1. CASE LoadMask
  <2>1. mask \in SUBSET Stations
    BY <1>0 DEF TypeOK
  <2>2. QED
    BY <1>1, <2>1, SyncOK DEF LoadMask
<1>2. CASE LoadStamp /\ ~Fresh
  BY <1>2, SyncOK DEF LoadStamp
<1>3. CASE LoadStamp /\ Fresh
  <2>1. /\ UNCHANGED <<relayUp, listed, tuned, linger, dirty, client, timer, post, mask, age>>
        /\ UNCHANGED <<seen, live, bins, silent>> /\ rt' \in {"head", "fresh"}
    BY <1>3 DEF LoadStamp, relay, set
  <2>2. TypeOK'
    BY <1>0, <2>1, Zenon DEF TypeOK
  <2>3. Counted' /\ Posted' /\ Masked' /\ Stamping' /\ SilenceBounded' /\ Synced'
    BY <1>0, <2>1 DEF Counted, Listened, Posted, Masked, Fresh, HalfWay, Stamping,
                      SilenceBounded, Synced
  <2>4. QED
    BY <2>2, <2>3 DEF IInv
<1>4. QED
  BY <1>1, <1>2, <1>3

LEMMA Restart ==
  ASSUME IInv, DaemonRestart
  PROVE  IInv'
<1>0. TypeOK /\ Counted /\ SilenceBounded
  BY DEF IInv
<1>1. /\ UNCHANGED <<relayUp, listed, tuned, linger, dirty, client, timer, silent>>
      /\ \A p \in Posts : post'[p] = None
      /\ mask' = Stations /\ seen' = Sentinel /\ live' = Stations /\ bins' = Stations
  BY DEF DaemonRestart, relay
<1>2. TypeOK'
  <2>1. post' \in [Posts -> PostType \cup {None}] /\ rt' \in {"head", "fresh"}
    BY DEF DaemonRestart
  <2>2. age' \in 0 .. FailOpen + 1
    BY DecodeGateAssumption DEF DaemonRestart
  <2>3. /\ mask' \in SUBSET Stations /\ live' \in SUBSET Stations /\ bins' \in SUBSET Stations
        /\ seen' \in (SUBSET Stations) \cup {Sentinel}
    BY <1>1, Zenon
  <2>4. QED
    BY <1>0, <1>1, <2>1, <2>2, <2>3, Zenon DEF TypeOK
<1>3. Stations # {}
  BY DecodeGateAssumption DEF Stations
<1>4. Counted' /\ Posted' /\ Masked' /\ Stamping' /\ SilenceBounded' /\ Synced'
  BY <1>0, <1>1, <1>3 DEF Counted, Listened, Posted, Masked, Stamping, SilenceBounded, Synced
<1>5. QED
  BY <1>2, <1>4 DEF IInv

\* A tick lengthens a silence only while the set in force leaves the station out.
LEMMA TickOK ==
  ASSUME IInv, Tick
  PROVE  IInv'
<1>0. TypeOK /\ Counted /\ Posted /\ Masked /\ Stamping /\ SilenceBounded /\ Synced
  BY DEF IInv
<1>1. UNCHANGED <<relayUp, listed, tuned, dirty, client, mask, rt, seen, live, bins>>
  BY DEF Tick, loop
<1>2. /\ seen = Effective /\ (relayUp => timer # 0)
      /\ \A p \in Posts : post[p] # None => post[p].age # PostLife /\ post[p].stores = Whole
  BY DEF Tick, Due, Whole
<1>3. ASSUME NEW p \in Posts, post[p] # None
      PROVE  /\ post'[p] \in PostType /\ post'[p] # None
             /\ post'[p].ports = post[p].ports /\ post'[p].stores = Whole
             /\ post'[p].age = post[p].age + 1 /\ post[p].age \in Nat
  <2> DEFINE r == [post[p] EXCEPT !.age = post[p].age + 1]
  <2>1. /\ post[p] \in PostType /\ post[p].age \in Nat /\ post[p].age + 1 \in 0 .. PostLife
        /\ post[p].stores = Whole
    BY <1>0, <1>2, <1>3, PostFacts, DecodeGateAssumption
  <2>2. r \in PostType /\ r.ports = post[p].ports /\ r.stores = Whole /\ r.age = post[p].age + 1
    BY <2>1 DEF PostType
  <2>3. post'[p] = r
    BY <1>3 DEF Tick
  <2>4. QED
    BY <2>1, <2>2, <2>3, DecodeGateAssumption
<1>4. \A p \in Posts : post[p] = None => post'[p] = None
  BY DEF Tick
<1>5. post' \in [Posts -> PostType \cup {None}]
  <2>1. \A p \in Posts : post'[p] \in PostType \cup {None}
    BY <1>3, <1>4
  <2>2. post' = [p \in Posts |-> post'[p]]
    BY DEF Tick
  <2>3. QED
    BY <2>1, <2>2
<1>6. \A k \in Stations : silent[k] \in Nat /\ silent[k] <= SilenceBound
  BY <1>0, DecodeGateAssumption DEF TypeOK, SilenceBounded, SilenceBound
<1>7. \A k \in Stations :
        \/ silent'[k] = 0
        \/ silent'[k] = silent[k] + 1 /\ Listened(k) /\ Fresh /\ k \notin mask
  <2> SUFFICES ASSUME NEW k \in Stations, silent'[k] # 0
               PROVE  silent'[k] = silent[k] + 1 /\ Listened(k) /\ Fresh /\ k \notin mask
    OBVIOUS
  <2>1. /\ Listened(k) /\ k \notin live
        /\ silent'[k] = IF silent[k] > SilenceBound THEN silent[k] ELSE silent[k] + 1
    BY DEF Tick
  <2>2. silent'[k] = silent[k] + 1
    BY <1>6, <2>1, DecodeGateAssumption DEF SilenceBound
  <2>3. k \notin Effective
    BY <1>0, <1>2, <2>1 DEF Synced
  <2>4. QED
    BY <2>1, <2>2, <2>3 DEF Effective
<1>8. \A k \in Stations : silent'[k] # 0 => silent[k] <= PostLife + age
  BY <1>0, <1>2, <1>7 DEF Masked, HalfWay, Whole
<1>9. \A k \in Stations : silent'[k] # 0 => silent'[k] <= PostLife + age'
  BY <1>0, <1>6, <1>7, <1>8, DecodeGateAssumption DEF Tick, Fresh, TypeOK
<1>10. SilenceBounded'
  BY <1>0, <1>6, <1>7, <1>8, DecodeGateAssumption DEF SilenceBounded, SilenceBound, Fresh, TypeOK
<1>11. TypeOK'
  <2>1. timer' \in 0 .. KeepAlive + PostTimeout
    BY <1>0, <1>2, DecodeGateAssumption DEF Tick, TypeOK
  <2>2. linger' \in [Stations -> 0 .. Linger]
    <3>1. \A k \in Stations : Down(linger[k]) \in 0 .. Linger
      BY <1>0, DecodeGateAssumption DEF TypeOK, Down
    <3>2. QED
      BY <3>1 DEF Tick
  <2>3. age' \in 0 .. FailOpen + 1
    BY <1>0, DecodeGateAssumption DEF Tick, TypeOK, Fresh
  <2>4. silent' \in [Stations -> 0 .. SilenceBound + 1]
    <3>1. \A k \in Stations : silent'[k] \in 0 .. SilenceBound + 1
      BY <1>6, <1>7, DecodeGateAssumption DEF SilenceBound
    <3>2. silent' = [k \in Stations |-> silent'[k]]
      BY DEF Tick
    <3>3. QED
      BY <3>1, <3>2
  <2>5. QED
    BY <1>0, <1>1, <1>5, <2>1, <2>2, <2>3, <2>4, Zenon DEF TypeOK
<1>12. Counted'
  BY <1>1, <1>7 DEF Counted, Listened
<1>13. Posted'
  BY <1>0, <1>3, <1>4, <1>6, <1>7, DecodeGateAssumption DEF Posted
<1>14. Masked'
  BY <1>1, <1>9, <1>11, DecodeGateAssumption DEF Masked, TypeOK
<1>15. Stamping'
  BY <1>3, <1>4 DEF Stamping, Whole
<1>16. Synced'
  BY <1>0, <1>1 DEF Synced
<1>17. QED
  BY <1>10, <1>11, <1>12, <1>13, <1>14, <1>15, <1>16 DEF IInv

LEMMA StutterOK == IInv /\ UNCHANGED vars => IInv'
<1> SUFFICES ASSUME IInv, UNCHANGED vars PROVE IInv'
  OBVIOUS
<1>0. TypeOK /\ Counted /\ Posted /\ Masked /\ Stamping /\ SilenceBounded /\ Synced
  BY DEF IInv
<1>1. UNCHANGED <<relayUp, listed, tuned, linger, dirty, client, timer, post, mask, age,
                  rt, seen, live, bins, silent>>
  BY DEF vars, relay, set, loop
<1>2. TypeOK'
  BY <1>0, <1>1, Zenon DEF TypeOK
<1>3. Counted' /\ Posted' /\ Masked' /\ Stamping' /\ SilenceBounded' /\ Synced'
  BY <1>0, <1>1 DEF Counted, Listened, Posted, Masked, Fresh, HalfWay, Stamping,
                    SilenceBounded, Synced
<1>4. QED
  BY <1>2, <1>3 DEF IInv

\* The inductive invariant holds in every reachable state.
THEOREM Invariance == Spec => []IInv
<1>1. IInv /\ [Next]_vars => IInv'
  <2> SUFFICES ASSUME IInv, [Next]_vars PROVE IInv'
    OBVIOUS
  <2>1. CASE Relay
    BY <2>1, JoinLeave, PushLoop, Stop DEF Relay
  <2>2. CASE Daemon
    BY <2>2, HandlerOK, Loop, Restart DEF Daemon, Handler
  <2>3. CASE Tick
    BY <2>3, TickOK
  <2>4. CASE UNCHANGED vars
    BY <2>4, StutterOK
  <2>5. QED
    BY <2>1, <2>2, <2>3, <2>4 DEF Next
<1>2. QED
  BY InitOK, <1>1, PTL DEF Spec

\* Every variable keeps to its kind: no timer or age leaves its range.
THEOREM TypeCorrect == Spec => []TypeOK
<1>1. IInv => TypeOK
  BY DEF IInv
<1>2. QED
  BY Invariance, <1>1, PTL

\* The fail-open window bounds every silence (active_set.hpp's promise), for any
\* timing of the relay and whatever POSTs are lost, late or overtaken.
THEOREM SilenceIsBounded == Spec => []SilenceBounded
<1>1. IInv => SilenceBounded
  BY DEF IInv
<1>2. QED
  BY Invariance, <1>1, PTL

\* The channelizer copies out the bins of the live stations, and one bin when
\* no station is live.
THEOREM CopyOutIsLive == Spec => []CopyOutFollows
<1>1. IInv => CopyOutFollows
  <2> SUFFICES ASSUME IInv PROVE CopyOutFollows
    OBVIOUS
  <2>1. live \in SUBSET Stations /\ Synced /\ 0 \in Stations
    BY DecodeGateAssumption DEF IInv, TypeOK, Stations
  <2>2. CASE live = {}
    BY <2>1, <2>2 DEF CopyOutFollows, Copied, Synced
  <2>3. CASE live # {}
    BY <2>1, <2>3 DEF CopyOutFollows, Copied, Synced
  <2>4. QED
    BY <2>2, <2>3
<1>2. QED
  BY Invariance, <1>1, PTL

\* With fewer stations than bits, live_mask_seen's initial value is no set of
\* stations, and every block decodes the set it has loaded.
THEOREM LoopDecodesLoadedSet ==
  ASSUME NStations < WordSize
  PROVE  Spec => SentinelForcesSync
<1>1. Sentinel \notin SUBSET Stations
  <2>1. WordSize - 1 \in Sentinel /\ WordSize - 1 \notin Stations
    BY DecodeGateAssumption DEF Sentinel, Stations
  <2>2. QED
    BY <2>1
<1>2. IInv /\ [Next]_vars => [LoadMask => live' = mask]_vars
  <2> SUFFICES ASSUME IInv, LoadMask PROVE live' = mask
    OBVIOUS
  <2>1. mask \in SUBSET Stations /\ Synced
    BY DEF IInv, TypeOK
  <2>2. QED
    BY <1>1, <2>1 DEF LoadMask, Sync, Synced
<1>3. QED
  BY Invariance, <1>2, PTL DEF Spec, SentinelForcesSync
===============================================================================

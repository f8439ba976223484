------------------------------ MODULE DecodeGate ------------------------------
(***************************************************************************)
(* Listener-gated decode (decode.listener_gated on), end to end: the       *)
(* relay's DecodeGateClient (webui/relay.py), which pushes the stations    *)
(* with a listener to POST /active; the daemon's HTTP handler and ActiveSet*)
(* (rx/src/active_set.hpp); and the real-time loop (rx/src/main.cpp),      *)
(* which decodes the stations of the set in force and fails open to all of *)
(* them when no recent push stands.                                        *)
(*                                                                         *)
(* A POST may be lost, or handled late: the client gives up on it after    *)
(* two seconds, but the daemon's queue may still hold it.  Time is a Tick. *)
(* Whatever is due now (an expired timer, a pending wake-up, the handler's *)
(* second store, the next block) happens before the tick ends.             *)
(***************************************************************************)
EXTENDS Naturals

CONSTANTS
  NStations,     \* nsta
  WordSize,      \* bits of the mask: kMaxStations
  Listeners,     \* listener connections: websockets of the relay
  None,          \* tuned to nothing; an unused slot
  Posts,         \* slots for POST requests that are under way
  KeepAlive,     \* ACTIVE_PUSH_KEEPALIVE_SEC, in ticks
  PostTimeout,   \* the client's timeout, in ticks
  PostLife,      \* how long a POST can linger in the network and the daemon's queue
  Linger,        \* DECODE_LINGER_SEC, in ticks
  FailOpen       \* kFailOpenMs, in ticks

\* A mask is the set of its bits; all_on().
Stations == 0 .. NStations - 1

\* A POST: what it carries, how old it is, and the stores still to be made.
PostType == [ports : SUBSET Stations, age : 0 .. PostLife,
             stores : {{"mask", "stamp"}, {"mask"}, {"stamp"}}]

ASSUME DecodeGateAssumption ==
  /\ NStations \in Nat \ {0} /\ WordSize \in Nat /\ NStations <= WordSize
  /\ None \notin Nat /\ None \notin PostType
  /\ KeepAlive \in Nat \ {0} /\ PostTimeout \in Nat \ {0}
  /\ PostLife \in Nat /\ Linger \in Nat /\ FailOpen \in Nat

\* live_mask_seen's initial value: every bit of the word but bit 0.
Sentinel == 1 .. WordSize - 1

VARIABLES
  relayUp,   \* the relay process runs
  listed,    \* it has fetched the station list (and the status port) once
  tuned,     \* the station each listener is subscribed to
  linger,    \* ticks left of each port's linger timer, 0 when not armed
  dirty,     \* _dirty
  client,    \* _loop(): "wait" for a kick or the keepalive, or in a "post"
  timer,     \* ticks left of that wait or of the POST's timeout
  post,      \* the POSTs under way: ports, age, and the stores not yet made
  mask,      \* m_mask
  age,       \* ticks since m_last_post_ms; FailOpen + 1: stale, or never posted
  rt,        \* the real-time loop: "head" of a block, or has seen a "fresh" stamp
  seen,      \* live_mask_seen
  live,      \* station_live
  bins,      \* the channelizer's m_active, as the stations the bins feed
  silent     \* history: for how many ticks each station's listeners have heard nothing

relay == <<relayUp, listed, tuned, linger, dirty, client, timer>>
set == <<mask, age>>
loop == <<rt, seen, live, bins>>
vars == <<relay, post, set, loop, silent>>

Init ==
  /\ relayUp = FALSE /\ listed = FALSE
  /\ tuned = [c \in Listeners |-> None]
  /\ linger = [k \in Stations |-> 0]
  /\ dirty = FALSE /\ client = "wait" /\ timer = KeepAlive
  /\ post = [p \in Posts |-> None]
  /\ mask = Stations /\ age = FailOpen + 1
  /\ rt = "head" /\ seen = Sentinel /\ live = Stations /\ bins = Stations
  /\ silent = [k \in Stations |-> 0]

-----------------------------------------------------------------------------
(* The relay.                                                              *)

Listened(k) == \E c \in Listeners : tuned[c] = k

\* subscribe(): the port's linger ends, the push loop is kicked.
Join(c, k) ==
  /\ listed /\ tuned[c] = None
  /\ tuned' = [tuned EXCEPT ![c] = k]
  /\ linger' = [linger EXCEPT ![k] = 0]
  /\ dirty' = TRUE
  /\ UNCHANGED <<relayUp, listed, client, timer, post, set, loop, silent>>

\* unsubscribe(): the last listener of a port arms its linger.
Leave(c) ==
  /\ tuned[c] # None
  /\ tuned' = [tuned EXCEPT ![c] = None]
  /\ IF \E d \in Listeners \ {c} : tuned[d] = tuned[c] THEN UNCHANGED <<linger, silent>>
     ELSE /\ linger' = [linger EXCEPT ![tuned[c]] = Linger]
          /\ silent' = [silent EXCEPT ![tuned[c]] = 0]
  /\ dirty' = TRUE
  /\ UNCHANGED <<relayUp, listed, client, timer, post, set, loop>>

\* Mutant: only the lingering ports are pushed.
DecodePortsForgets == {k \in Stations : linger[k] > 0}

\* _decode_ports().
DecodePorts == {k \in Stations : Listened(k) \/ linger[k] > 0}

\* http.post(): the request is lost, or it is on its way.
Send(ports) ==
  \/ UNCHANGED post
  \/ \E p \in Posts :
       /\ post[p] = None
       /\ post' = [post EXCEPT ![p] = [ports |-> ports, age |-> 0, stores |-> {"mask", "stamp"}]]

\* _loop() wakes on a kick or the keepalive, clears the event and calls _push(),
\* which has nowhere to push to until the station list has been fetched.
Wake ==
  /\ relayUp /\ client = "wait" /\ (dirty \/ timer = 0)
  /\ dirty' = FALSE
  /\ \/ listed /\ client' = "post" /\ timer' = PostTimeout /\ Send(DecodePorts)
     \/ ~listed /\ timer' = KeepAlive /\ UNCHANGED <<client, post>>
  /\ UNCHANGED <<relayUp, listed, tuned, linger, set, loop, silent>>

\* The POST is answered, fails or times out: in each case the loop goes on.
PushDone ==
  /\ client = "post"
  /\ client' = "wait" /\ timer' = KeepAlive
  /\ UNCHANGED <<relayUp, listed, tuned, linger, dirty, post, set, loop, silent>>

\* start(): the first refresh_once() may fail; then the push loop starts.
RelayStart ==
  /\ ~relayUp
  /\ relayUp' = TRUE
  /\ listed' \in BOOLEAN
  /\ dirty' = TRUE
  /\ UNCHANGED <<tuned, linger, client, timer, post, set, loop, silent>>

\* refresh_once() gets the station list at last, and kicks the push loop.
Refresh ==
  /\ relayUp /\ ~listed
  /\ listed' = TRUE
  /\ dirty' = TRUE
  /\ UNCHANGED <<relayUp, tuned, linger, client, timer, post, set, loop, silent>>

\* stop(), or a crash: no final POST is made and every listener is cut off.
RelayStop ==
  /\ relayUp
  /\ relayUp' = FALSE /\ listed' = FALSE
  /\ tuned' = [c \in Listeners |-> None]
  /\ linger' = [k \in Stations |-> 0]
  /\ dirty' = FALSE /\ client' = "wait" /\ timer' = KeepAlive
  /\ silent' = [k \in Stations |-> 0]
  /\ UNCHANGED <<post, set, loop>>

-----------------------------------------------------------------------------
(* The daemon.                                                             *)

\* A POST that was sent is lost, or refused: POST /active answers 4xx.
Lose(p) ==
  /\ post[p] # None /\ post[p].stores = {"mask", "stamp"}
  /\ post' = [post EXCEPT ![p] = None]
  /\ UNCHANGED <<relay, set, loop, silent>>

\* The slot once store s is made.
Stored(p, s) ==
  /\ post[p] # None /\ s \in post[p].stores
  /\ post' = [post EXCEPT ![p] = IF post[p].stores = {s} THEN None
                                 ELSE [post[p] EXCEPT !.stores = @ \ {s}]]

\* ActiveSet::post(): the two stores are relaxed, so they can take effect in
\* either order; that also stands for the two loads of effective().
StoreMask(p) ==
  /\ Stored(p, "mask")
  /\ mask' = post[p].ports
  /\ UNCHANGED <<relay, age, loop, silent>>

\* Mutant: the time of the POST is not stored.
StoreStampForgotten(p) ==
  /\ Stored(p, "stamp")
  /\ UNCHANGED <<relay, set, loop, silent>>

StoreStamp(p) ==
  /\ Stored(p, "stamp")
  /\ age' = 0
  /\ UNCHANGED <<relay, mask, loop, silent>>

\* Mutant: the copy-out is narrowed to the empty list, which means all bins.
SyncAllBins(eff) ==
  IF eff = seen THEN UNCHANGED <<seen, live, bins>>
  ELSE /\ seen' = eff
       /\ live' = eff
       /\ bins' = eff

\* The loop acts on a set that differs from the last one.  An empty bin list
\* would mean all bins: station 0's is kept.
Sync(eff) ==
  IF eff = seen THEN UNCHANGED <<seen, live, bins>>
  ELSE /\ seen' = eff
       /\ live' = eff
       /\ bins' = IF eff = {} THEN {0} ELSE eff

\* Mutant: a mask stands until the next one is posted.
FreshForever == TRUE

\* A recent POST stands.
Fresh == age <= FailOpen

\* effective() reads the stamp: no recent POST stands, every station is on ...
LoadStamp ==
  /\ rt = "head"
  /\ \/ Fresh /\ rt' = "fresh" /\ UNCHANGED <<seen, live, bins>>
     \/ ~Fresh /\ rt' = "head" /\ Sync(Stations)
  /\ UNCHANGED <<relay, post, set, silent>>

\* ... or the mask is in force.
LoadMask ==
  /\ rt = "fresh"
  /\ rt' = "head"
  /\ Sync(mask)
  /\ UNCHANGED <<relay, post, set, silent>>

\* The daemon re-execs itself, or crashes and is started again.
DaemonRestart ==
  /\ post' = [p \in Posts |-> None]
  /\ mask' = Stations /\ age' = FailOpen + 1
  /\ rt' = "head" /\ seen' = Sentinel /\ live' = Stations /\ bins' = Stations
  /\ UNCHANGED <<relay, silent>>

Effective == IF Fresh THEN mask ELSE Stations

-----------------------------------------------------------------------------
(* Time.                                                                   *)

Due ==
  \/ seen # Effective \/ (rt = "fresh" /\ ~Fresh)
  \/ relayUp /\ (timer = 0 \/ (dirty /\ client = "wait"))
  \/ \E p \in Posts : post[p] # None /\ (post[p].age = PostLife \/ post[p].stores # {"mask", "stamp"})

\* A linger timer, which is no longer armed once it has fired.
Down(n) == IF n = 0 THEN 0 ELSE n - 1

\* The longest silence there can be (SilenceBounded), which bounds the history.
SilenceBound == PostLife + FailOpen + 1

Tick ==
  /\ ~Due
  /\ timer' = IF relayUp THEN timer - 1 ELSE timer
  /\ linger' = [k \in Stations |-> Down(linger[k])]
  /\ post' = [p \in Posts |-> IF post[p] = None THEN None ELSE [post[p] EXCEPT !.age = @ + 1]]
  /\ age' = IF age <= FailOpen THEN age + 1 ELSE age
  /\ silent' = [k \in Stations |->
       IF Listened(k) /\ k \notin live THEN IF silent[k] > SilenceBound THEN silent[k] ELSE silent[k] + 1
       ELSE 0]
  /\ UNCHANGED <<relayUp, listed, tuned, dirty, client, mask, loop>>

-----------------------------------------------------------------------------

Relay ==
  \/ \E c \in Listeners : Leave(c) \/ \E k \in Stations : Join(c, k)
  \/ Wake \/ PushDone \/ RelayStart \/ Refresh \/ RelayStop

Handler(p) == StoreMask(p) \/ StoreStamp(p)

Daemon == (\E p \in Posts : Handler(p) \/ Lose(p)) \/ LoadStamp \/ LoadMask \/ DaemonRestart

Next == Relay \/ Daemon \/ Tick

\* Only finitely much happens in a tick (it can always be completed), so time
\* goes on: ticks happen, or could happen and change nothing.
TimePasses == []<><<Tick>>_vars \/ []<>(~Due /\ ~ENABLED <<Tick>>_vars)

\* The loop runs, the relay's event loop serves its timers, and a POST that has
\* begun to be handled is handled.  Nobody has to start the relay.
Fairness ==
  /\ TimePasses
  /\ WF_vars(LoadStamp) /\ WF_vars(LoadMask) /\ WF_vars(Wake) /\ WF_vars(PushDone)
  /\ \A p \in Posts : WF_vars(Handler(p))

Spec == Init /\ [][Next]_vars /\ Fairness

-----------------------------------------------------------------------------
(* Properties.                                                             *)

\* Every variable holds a value of its kind.
TypeOK ==
  /\ relayUp \in BOOLEAN /\ listed \in BOOLEAN /\ dirty \in BOOLEAN
  /\ tuned \in [Listeners -> Stations \cup {None}]
  /\ linger \in [Stations -> 0 .. Linger]
  /\ client \in {"wait", "post"} /\ timer \in 0 .. KeepAlive + PostTimeout
  /\ post \in [Posts -> PostType \cup {None}]
  /\ mask \in SUBSET Stations /\ age \in 0 .. FailOpen + 1
  /\ rt \in {"head", "fresh"}
  /\ seen \in (SUBSET Stations) \cup {Sentinel}
  /\ live \in SUBSET Stations /\ bins \in SUBSET Stations
  /\ silent \in [Stations -> 0 .. SilenceBound + 1]

\* Whatever is lost, delayed, reordered or restarted, a station someone listens
\* to through the relay is never silent for longer than the fail-open window
\* plus the life of a POST that was sent before the listener came.
SilenceBounded == \A k \in Stations : silent[k] <= SilenceBound

\* The bins copied out are those of the live stations: every live station's is,
\* and with no station live the copy-out is down to one bin.
Copied == IF bins = {} THEN Stations ELSE bins

CopyOutFollows == live \subseteq Copied /\ (live = {} => \E k \in Stations : Copied = {k})

\* A station someone keeps listening to ends up decoded and stays so.
ListenedIsServed == \A k \in Stations : <>[]Listened(k) => <>[](k \in live)

\* Gating saves work: once POSTs get through and nobody listens to a station,
\* the loop stops decoding it.
Lost == (\E p \in Posts : Lose(p)) \/ (Wake /\ client' = "post" /\ post' = post)

Reliable == <>[][~Lost /\ ~DaemonRestart]_vars

UnlistenedIsGated ==
  \A k \in Stations : Reliable /\ <>[](listed /\ ~Listened(k)) => <>[](k \notin live)

\* What main.cpp says of live_mask_seen's initial value: no set in force equals
\* it, so the first block synchronises the stations; every later block decodes
\* the set it has loaded.
SentinelForcesSync == [][LoadMask => live' = mask]_vars
=============================================================================

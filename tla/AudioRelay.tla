------------------------------ MODULE AudioRelay ------------------------------
(***************************************************************************)
(* The station list of webui/relay.py: refresh_once(), run by the poll and *)
(* by the admin proxy after a save, applies the list the daemon serves     *)
(* while listeners come and go (webui/routes/listener.py).                 *)
(*                                                                         *)
(* Everything runs on one event loop: a coroutine is interrupted only where*)
(* it awaits.  "turn" is the refresh that is between two awaits, during    *)
(* which nothing else of the relay runs.  A listener is a websocket, or,   *)
(* with codec aac, an endless response fed by the station's encoder, which *)
(* lingers when the last one leaves.  UDP sockets, audio, and the pages'   *)
(* status sockets are left out.                                            *)
(***************************************************************************)
EXTENDS Integers, FiniteSets

CONSTANTS
  Ports,       \* a station is its port
  Formats,     \* what else a StationInfo holds: mono or stereo
  Listeners,   \* PCM websockets, or audio.aac responses
  Poll, Save,  \* who calls refresh_once(): _refresh_loop(), proxy_to_rx()
  None,
  MaxPlans     \* bound: how often the plan changes

Codecs == {"pcm", "aac"}
Refreshers == {Poll, Save}

ASSUME AudioRelayAssumption ==
  /\ None \notin Formats \cup Ports \cup Refreshers
  /\ IsFiniteSet(Listeners)
  /\ MaxPlans \in Nat

Plans == [stations : [Ports -> Formats \cup {None}], codec : Codecs]

PortsOf(stations) == {p \in Ports : stations[p] # None}

VARIABLES
  plan,      \* what the daemon answers to GET /api/stations/active
  plans,     \* how often it has changed
  active,    \* _active
  codec,     \* listener["codec"]
  subs,      \* _subscribers
  aac,       \* _aac_subs: the responses, each with its queue
  enc,       \* _encoders: the ports that have one
  linger,    \* _linger: the ports whose encoder waits for a listener to return
  refresh,   \* each refresh_once() under way, with its locals
  turn,      \* the refresh that runs, or None at an await
  listener   \* each listener's station_audio(), or station_audio_aac(): where it is, its port

daemon == <<plan, plans>>
pool == <<aac, enc, linger>>
relay == <<active, codec, subs, pool>>
vars == <<daemon, relay, refresh, turn, listener>>

\* The sections of _apply_active_stations(), in order.
Sections == [flip |-> 1, removed |-> 2, kept |-> 3, added |-> 4]

\* The locals of refresh_once() and _apply_active_stations(): the list fetched
\* and the ports each section has yet to visit; and of the loop over the
\* websockets of one port (job), an iterator over the set it fetched: those still
\* to be closed, those that may be, whether the map still holds that set, and how
\* many more websockets are in it than at the start.
Idle == [at |-> "idle", new |-> None, todo |-> {},
         job |-> None, who |-> {}, may |-> {}, own |-> FALSE, grown |-> 0]

Away == [at |-> "off", port |-> None]

\* start() has got the list, or failed to.
Init ==
  /\ plan \in Plans /\ plans = 0
  /\ \/ active = plan.stations /\ codec = plan.codec
     \/ active = [p \in Ports |-> None] /\ codec = "pcm"
  /\ subs = [p \in Ports |-> {}] /\ aac = [p \in Ports |-> {}]
  /\ enc = {} /\ linger = {}
  /\ refresh = [t \in Refreshers |-> Idle]
  /\ turn = None
  /\ listener = [l \in Listeners |-> Away]

-----------------------------------------------------------------------------
(* The daemon: a save and its re-exec change the plan.                     *)

PlanChanges ==
  /\ plans < MaxPlans
  /\ plan' \in Plans \ {plan}
  /\ plans' = plans + 1
  /\ UNCHANGED <<relay, refresh, turn, listener>>

-----------------------------------------------------------------------------
(* refresh_once(), by t.                                                   *)

Set(t, r) == refresh' = [refresh EXCEPT ![t] = r]

\* The poll's sleep is over, or a save has succeeded: the list is asked for.
Begin(t) ==
  /\ turn = None /\ refresh[t].at = "idle"
  /\ Set(t, [Idle EXCEPT !.at = "fetch"])
  /\ UNCHANGED <<daemon, relay, turn, listener>>

\* The daemon's answer is on its way ...
Answer(t) ==
  /\ turn = None /\ refresh[t].at = "fetch"
  /\ Set(t, [Idle EXCEPT !.at = "answered", !.new = plan])
  /\ UNCHANGED <<daemon, relay, turn, listener>>

\* ... or there is none, or no plan in it: the list stays as it is.
FetchFails(t) ==
  /\ turn = None /\ refresh[t].at = "fetch"
  /\ Set(t, Idle)
  /\ UNCHANGED <<daemon, relay, turn, listener>>

\* The codec is taken over, the open pages are told of what changes (an await),
\* and every section has its ports.
Receive(t) ==
  LET new == refresh[t].new
      from == PortsOf(active)
      to == PortsOf(new.stations)
      flip == new.codec # codec
      tell == flip \/ from # to
  IN  /\ turn = None /\ refresh[t].at = "answered"
      /\ codec' = new.codec
      /\ Set(t, [refresh[t] EXCEPT !.at = "visit", !.todo =
           (IF flip THEN {"flip"} \X from ELSE {}) \cup ({"removed"} \X (from \ to))
             \cup ({"kept"} \X (from \cap to)) \cup ({"added"} \X (to \ from))])
      /\ turn' = IF tell THEN None ELSE t
      /\ UNCHANGED <<daemon, active, subs, pool, listener>>

-----------------------------------------------------------------------------
(* _apply_active_stations().                                               *)

Running(t, at) == turn \in {t, None} /\ refresh[t].at = at

\* The loop over the websockets of a port begins: over the map's own set, or one
\* that has been taken out of it.
Looping(t, job, own) ==
  [refresh[t] EXCEPT !.at = "close", !.job = job, !.who = subs[job[2]], !.own = own]

\* The port has been dealt with.
Visited(t, job) ==
  [Idle EXCEPT !.at = "visit", !.new = refresh[t].new, !.todo = refresh[t].todo \ {job}]

\* u iterates over the set that the map holds for p.
Iterates(u, p) == refresh[u].at = "close" /\ refresh[u].own /\ refresh[u].job[2] = p

\* t goes on with r, and takes the set of p from the map: whoever iterates over it
\* keeps it as it is, for nobody else can reach it any more.
Detach(t, r, p) ==
  refresh' = [u \in Refreshers |->
    IF u = t THEN r ELSE IF Iterates(u, p) THEN [refresh[u] EXCEPT !.own = FALSE] ELSE refresh[u]]

\* An exception ends the refresh: it is logged.
Raise(t) == Set(t, Idle) /\ turn' = None

\* A station that stays: its listeners go if its format changed.  Another
\* refresh may have removed it meanwhile: a KeyError.
VisitKept(t, job) ==
  LET was == active[job[2]]
      is == refresh[t].new.stations[job[2]]
  IN  \/ was = None /\ Raise(t)
      \/ was = is /\ Set(t, Visited(t, job)) /\ turn' = t
      \/ was \notin {None, is} /\ Set(t, Looping(t, job, TRUE)) /\ turn' = t

\* Nobody stays on the old codec; the set of a station that is gone is taken out
\* of the map first; a new station's datagram endpoint is an await.
Visit(t) ==
  /\ Running(t, "visit")
  /\ \E job \in refresh[t].todo :
       /\ \A j \in refresh[t].todo : Sections[job[1]] <= Sections[j[1]]
       /\ \/ job[1] = "flip" /\ Set(t, Looping(t, job, TRUE)) /\ turn' = t
          \/ job[1] = "removed" /\ Detach(t, Looping(t, job, FALSE), job[2]) /\ turn' = t
          \/ job[1] = "kept" /\ VisitKept(t, job)
          \/ job[1] = "added" /\ Set(t, Visited(t, job)) /\ turn' = None
       /\ subs' = IF job[1] = "removed" THEN [subs EXCEPT ![job[2]] = {}] ELSE subs
  /\ UNCHANGED <<daemon, active, codec, pool, listener>>

\* The set has another size than at the start: a RuntimeError at the next turn of
\* the loop, the last one included.
Resized(r) == r.grown # 0

\* The loop's next websocket is closed, which is awaited.
CloseNext(t) ==
  LET r == refresh[t]
  IN  /\ Running(t, "close") /\ ~Resized(r)
      /\ \E l \in r.who \cup r.may :
           /\ listener' = [listener EXCEPT ![l].at = "closed"]
           /\ Set(t, [r EXCEPT !.who = @ \ {l}, !.may = @ \ {l}])
      /\ turn' = None
      /\ UNCHANGED <<daemon, relay>>

\* AacEncoderPool.drop(): the port's responses are told to end, and its encoder
\* goes, lingering or not.  Nobody reads the mark of a response that never began.
drop(p) ==
  /\ aac' = [aac EXCEPT ![p] = {}]
  /\ enc' = enc \ {p} /\ linger' = linger \ {p}
  /\ listener' = [l \in Listeners |->
       IF l \notin aac[p] THEN listener[l]
       ELSE IF listener[l].at = "leaked" THEN Away ELSE [listener[l] EXCEPT !.at = "closed"]]

\* The loop is through: the port starts again with no listener.  The log line of
\* a station that stays reads the list anew: a KeyError, if another refresh has
\* removed the station by now.
CloseEnds(t) ==
  LET r == refresh[t]
      p == r.job[2]
      gone == r.job[1] = "kept" /\ active[p] = None
      after == IF gone THEN Idle ELSE Visited(t, r.job)
  IN  /\ Running(t, "close") /\ ~Resized(r) /\ r.who = {}
      /\ IF r.job[1] = "removed" THEN Set(t, after) /\ UNCHANGED subs
         ELSE Detach(t, after, p) /\ subs' = [subs EXCEPT ![p] = {}]
      /\ drop(p)
      /\ turn' = IF gone THEN None ELSE t
      /\ UNCHANGED <<daemon, active, codec>>

CloseRaises(t) ==
  /\ Running(t, "close") /\ Resized(refresh[t])
  /\ Raise(t)
  /\ UNCHANGED <<daemon, relay, listener>>

\* Mutant: a change of format alone is not recorded.
CommitPorts(t) ==
  /\ Running(t, "visit") /\ refresh[t].todo = {}
  /\ active' = IF PortsOf(refresh[t].new.stations) = PortsOf(active) THEN active
               ELSE refresh[t].new.stations
  /\ Set(t, Idle) /\ turn' = None
  /\ UNCHANGED <<daemon, codec, subs, pool, listener>>

\* The new list takes effect.
Commit(t) ==
  /\ Running(t, "visit") /\ refresh[t].todo = {}
  /\ active' = refresh[t].new.stations
  /\ Set(t, Idle) /\ turn' = None
  /\ UNCHANGED <<daemon, codec, subs, pool, listener>>

Proceed(t) ==
  \/ Answer(t) \/ FetchFails(t) \/ Receive(t) \/ Visit(t)
  \/ CloseNext(t) \/ CloseEnds(t) \/ CloseRaises(t) \/ Commit(t)

-----------------------------------------------------------------------------
(* station_audio(), for websocket l.                                       *)

\* The station is looked up; the accept and stream_info are awaited ...
Open(l, p) ==
  /\ turn = None /\ listener[l].at = "off" /\ active[p] # None
  /\ listener' = [listener EXCEPT ![l] = [at |-> "opening", port |-> p]]
  /\ UNCHANGED <<daemon, relay, refresh, turn>>

\* A loop over the set that l joins may come to l, or have passed its slot; and if
\* the table is rebuilt to make room, it may have passed anybody's.
Joined(r, l, rebuilt) ==
  [r EXCEPT !.grown = @ + 1,
            !.who = IF rebuilt THEN {} ELSE @,
            !.may = @ \cup {l} \cup (IF rebuilt THEN r.who ELSE {})]

\* ... and the websocket is subscribed, or the client has gone.
Subscribe(l) ==
  LET p == listener[l].port
  IN  /\ turn = None /\ listener[l].at = "opening"
      /\ listener' = [listener EXCEPT ![l].at = "open"]
      /\ subs' = [subs EXCEPT ![p] = @ \cup {l}]
      /\ \E rebuilt \in BOOLEAN :
           refresh' = [u \in Refreshers |->
             IF Iterates(u, p) THEN Joined(refresh[u], l, rebuilt) ELSE refresh[u]]
      /\ UNCHANGED <<daemon, active, codec, pool, turn>>

GiveUp(l) ==
  /\ turn = None /\ listener[l].at = "opening"
  /\ listener' = [listener EXCEPT ![l] = Away]
  /\ UNCHANGED <<daemon, relay, refresh, turn>>

\* A loop that was still to come to l finds it gone, or closes it to no effect: a
\* client that comes back is another websocket.
Forget(l) ==
  LET p == listener[l].port
  IN  refresh' = [u \in Refreshers |->
        [refresh[u] EXCEPT !.who = @ \ {l}, !.may = @ \ {l},
                           !.grown = IF Iterates(u, p) /\ l \in subs[p] THEN @ - 1 ELSE @]]

\* The pool's unsubscribe(): the encoder is kept for a while when its last
\* response goes.  A response that was dropped is in no set any more.
Unlisten(l) ==
  LET p == listener[l].port
  IN  /\ aac' = [aac EXCEPT ![p] = @ \ {l}]
      /\ linger' = IF aac[p] = {l} THEN linger \cup ({p} \cap enc) ELSE linger

\* Mutant: the handler ends without unsubscribe() when the relay closed it.
LeaveUncleanly(l) ==
  /\ turn = None /\ listener[l].at \in {"open", "streaming", "closed"}
  /\ listener' = [listener EXCEPT ![l] = Away]
  /\ IF listener[l].at = "closed" THEN UNCHANGED <<subs, refresh>>
     ELSE subs' = [subs EXCEPT ![listener[l].port] = @ \ {l}] /\ Forget(l)
  /\ Unlisten(l)
  /\ UNCHANGED <<daemon, active, codec, enc, turn>>

\* The client has gone, or finds itself closed: unsubscribe(), unsubscribe_aac().
Leave(l) ==
  /\ turn = None /\ listener[l].at \in {"open", "streaming", "closed"}
  /\ listener' = [listener EXCEPT ![l] = Away]
  /\ subs' = [subs EXCEPT ![listener[l].port] = @ \ {l}]
  /\ Unlisten(l) /\ Forget(l)
  /\ UNCHANGED <<daemon, active, codec, enc, turn>>

-----------------------------------------------------------------------------
(* station_audio_aac(), for response l; nothing of it is awaited before it *)
(* is subscribed.                                                          *)

\* Mutant: the timer of an encoder that lingers is left running.
TuneOverLinger(l, p) ==
  /\ turn = None /\ listener[l].at = "off" /\ active[p] # None /\ codec = "aac"
  /\ \E at \in {"streaming", "leaked"} :
       listener' = [listener EXCEPT ![l] = [at |-> at, port |-> p]]
  /\ aac' = [aac EXCEPT ![p] = @ \cup {l}]
  /\ enc' = enc \cup {p}
  /\ UNCHANGED <<daemon, active, codec, subs, linger, refresh, turn>>

\* The response is subscribed, the linger over, and an encoder made unless there
\* is one.  If the client goes before gen() has begun, its finally never runs.
Tune(l, p) ==
  /\ turn = None /\ listener[l].at = "off" /\ active[p] # None /\ codec = "aac"
  /\ \E at \in {"streaming", "leaked"} :
       listener' = [listener EXCEPT ![l] = [at |-> at, port |-> p]]
  /\ aac' = [aac EXCEPT ![p] = @ \cup {l}]
  /\ linger' = linger \ {p}
  /\ enc' = enc \cup {p}
  /\ UNCHANGED <<daemon, active, codec, subs, refresh, turn>>

\* The timer of LingerSet: teardown().
LingerExpires(p) ==
  /\ turn = None /\ p \in linger
  /\ linger' = linger \ {p} /\ enc' = enc \ {p}
  /\ UNCHANGED <<daemon, active, codec, subs, aac, refresh, turn, listener>>

Listener(l) == Subscribe(l) \/ GiveUp(l) \/ Leave(l) \/ \E p \in Ports : Open(l, p) \/ Tune(l, p)

Next ==
  \/ PlanChanges
  \/ \E t \in Refreshers : Begin(t) \/ Proceed(t)
  \/ \E l \in Listeners : Listener(l)
  \/ \E p \in Ports : LingerExpires(p)

\* The event loop serves what is ready in turn, and a close, an endpoint and a
\* fetch end or time out.  The poll goes on; nobody has to save.
Fairness ==
  /\ SF_vars(Begin(Poll) \/ Proceed(Poll))
  /\ SF_vars(Proceed(Save))

Spec == Init /\ [][Next]_vars /\ Fairness

-----------------------------------------------------------------------------
(* Properties.                                                             *)

Jobs == (DOMAIN Sections) \X Ports

RefreshType ==
  [at : {"idle", "fetch", "answered", "visit", "close"}, new : Plans \cup {None},
   todo : SUBSET Jobs, job : Jobs \cup {None},
   who : SUBSET Listeners, may : SUBSET Listeners, own : BOOLEAN, grown : Int]

\* Every variable holds a value of its kind.
TypeOK ==
  /\ plan \in Plans /\ plans \in 0 .. MaxPlans
  /\ active \in [Ports -> Formats \cup {None}] /\ codec \in Codecs
  /\ subs \in [Ports -> SUBSET Listeners]
  /\ refresh \in [Refreshers -> RefreshType]
  /\ turn \in Refreshers \cup {None}
  /\ aac \in [Ports -> SUBSET Listeners] /\ enc \in SUBSET Ports /\ linger \in SUBSET Ports
  /\ listener \in [Listeners -> [at : {"off", "opening", "open", "streaming", "leaked", "closed"},
                                 port : Ports \cup {None}]]

\* The fan-out never refers to a websocket whose handler has ended, or to one of
\* another station, whatever sets the refreshes have replaced or taken away in
\* the meantime.
NoDeadSubscriber ==
  \A p \in Ports : \A l \in subs[p] :
    listener[l].port = p /\ listener[l].at \in {"open", "closed"}

\* A response that has begun is subscribed until the relay ends it, its station
\* has an encoder, and no timer runs against that encoder, whatever refreshes drop
\* and timers tear down in between.  An encoder with no such response waits out
\* its linger; or a response that never began holds it.  (The documents know no
\* such case: relay.py:245-247, listener.py:178-180.)
Streaming(p) == {l \in Listeners : listener[l].port = p /\ listener[l].at = "streaming"}
Leaked(p) == {l \in Listeners : listener[l].port = p /\ listener[l].at = "leaked"}

StreamsAreFed ==
  \A p \in Ports :
    /\ Streaming(p) \subseteq aac[p]
    /\ Streaming(p) # {} => p \in enc /\ p \notin linger
    /\ p \in enc => Streaming(p) # {} \/ p \in linger \/ Leaked(p) \cap aac[p] # {}

\* The relay ends with the list and the codec the daemon serves, although
\* refreshes overlap, apply answers out of order and fail half way: once the
\* daemon answers and no websocket joins, the poll puts everything right.
Quiet == \A t \in Refreshers : ~FetchFails(t)

NobodyJoins == \A l \in Listeners : ~Subscribe(l)

EventuallyCurrent ==
  <>[][Quiet /\ NobodyJoins]_vars
    => <>[](active = plan.stations /\ codec = plan.codec)

=============================================================================

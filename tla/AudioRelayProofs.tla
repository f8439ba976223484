-------------------------- MODULE AudioRelayProofs --------------------------
(***************************************************************************)
(* Theorems about AudioRelay, for every number of stations and listeners,  *)
(* and for any sequence of plans.                                          *)
(***************************************************************************)
EXTENDS AudioRelay, FiniteSetTheorems, TLAPS

USE AudioRelayAssumption

\* A refresh that has its answer has a plan, and one that closes is at a port.
Equipped ==
  \A t \in Refreshers :
    /\ refresh[t].at \in {"answered", "visit", "close"} => refresh[t].new \in Plans
    /\ refresh[t].at = "close" => refresh[t].job \in Jobs

\* What a refresh is still to close, or may close, are websockets: a response
\* never is.
Sockets == {l \in Listeners : listener[l].at \in {"open", "closed"}}

Closable == \A t \in Refreshers : refresh[t].who \cup refresh[t].may \subseteq Sockets

\* The same of the locals after a step, and the listeners before it.
StaysClosable == \A t \in Refreshers : refresh'[t].who \cup refresh'[t].may \subseteq Sockets

\* A port's subscriptions are the responses that are not told to end, those that
\* never began among them, and its encoder is there for them or lingers.
Pooled ==
  \A p \in Ports :
    /\ aac[p] = {l \in Listeners : listener[l].port = p /\ listener[l].at \in {"streaming", "leaked"}}
    /\ p \in enc <=> aac[p] # {} \/ p \in linger
    /\ p \in linger => aac[p] = {}

IInv == TypeOK /\ Equipped /\ NoDeadSubscriber /\ Closable /\ Pooled

LEMMA IdleType == Idle \in RefreshType /\ Idle.who \cup Idle.may = {} /\ Idle.at = "idle"
  BY DEF Idle, RefreshType

LEMMA JobsAre == Jobs = {"flip", "removed", "kept", "added"} \X Ports
  BY DEF Jobs, Sections

LEMMA InitOK == Init => IInv
  BY IdleType DEF Init, IInv, TypeOK, Equipped, NoDeadSubscriber, Closable, Pooled, Plans,
                  PortsOf, Away, Codecs, Idle

\* A refresh may put any locals of the right type in place of its own.
LEMMA SetKeeps ==
  ASSUME NEW t \in Refreshers, NEW r \in RefreshType, Set(t, r),
         refresh \in [Refreshers -> RefreshType], Equipped, Closable,
         r.at \in {"answered", "visit", "close"} => r.new \in Plans,
         r.at = "close" => r.job \in Jobs,
         r.who \cup r.may \subseteq Sockets
  PROVE  refresh' \in [Refreshers -> RefreshType] /\ Equipped' /\ StaysClosable
  BY DEF Set, Equipped, Closable, StaysClosable

\* The others may lose the map's set under their iterators.
LEMMA DetachKeeps ==
  ASSUME NEW t \in Refreshers, NEW r \in RefreshType, NEW p, Detach(t, r, p),
         refresh \in [Refreshers -> RefreshType], Equipped, Closable,
         r.at \in {"answered", "visit", "close"} => r.new \in Plans,
         r.at = "close" => r.job \in Jobs,
         r.who \cup r.may \subseteq Sockets
  PROVE  refresh' \in [Refreshers -> RefreshType] /\ Equipped' /\ StaysClosable
<1>1. ASSUME NEW s \in RefreshType
      PROVE  LET d == [s EXCEPT !.own = FALSE]
             IN  /\ d \in RefreshType /\ d.at = s.at /\ d.new = s.new /\ d.job = s.job
                 /\ d.who = s.who /\ d.may = s.may
  BY DEF RefreshType
<1>2. ASSUME NEW u \in Refreshers, u # t
      PROVE  /\ refresh'[u] \in RefreshType /\ refresh'[u].at = refresh[u].at
             /\ refresh'[u].new = refresh[u].new /\ refresh'[u].job = refresh[u].job
             /\ refresh'[u].who = refresh[u].who /\ refresh'[u].may = refresh[u].may
  <2>1. refresh'[u] = refresh[u] \/ refresh'[u] = [refresh[u] EXCEPT !.own = FALSE]
    BY <1>2 DEF Detach
  <2>2. QED
    BY <1>1, <2>1
<1>3. refresh'[t] = r /\ refresh' = [u \in Refreshers |-> refresh'[u]]
  BY DEF Detach
<1>4. QED
  BY <1>2, <1>3 DEF Equipped, Closable, StaysClosable

\* A step that touches neither listeners nor pool keeps what is said of both.
LEMMA BothKept ==
  ASSUME IInv, UNCHANGED <<pool, listener>>, StaysClosable
  PROVE  Closable' /\ Pooled'
  BY DEF IInv, Closable, StaysClosable, Sockets, Pooled, pool

\* A loop over websockets begins with the locals it needs.
LEMMA LoopFits ==
  ASSUME IInv, NEW t \in Refreshers, NEW job \in refresh[t].todo, NEW own \in BOOLEAN,
         refresh[t].at = "visit"
  PROVE  LET r == Looping(t, job, own)
         IN  /\ r \in RefreshType /\ r.new \in Plans /\ r.job \in Jobs
             /\ r.who \cup r.may \subseteq Sockets
<1> DEFINE who == subs[job[2]]
           r == [refresh[t] EXCEPT !.at = "close", !.job = job, !.who = who, !.own = own]
<1>1. /\ refresh[t] \in RefreshType /\ refresh[t].new \in Plans
      /\ refresh[t].may \subseteq Sockets
      /\ job \in Jobs /\ job[2] \in Ports
  BY JobsAre DEF IInv, TypeOK, Equipped, Closable, RefreshType
<1>2. who \in SUBSET Listeners /\ who \subseteq Sockets
  BY <1>1 DEF IInv, TypeOK, NoDeadSubscriber, Sockets
<1>3. /\ r \in RefreshType /\ r.job = job /\ r.new = refresh[t].new
      /\ r.who = who /\ r.may = refresh[t].may
  <2> HIDE DEF who
  <2>1. QED  BY <1>1, <1>2 DEF RefreshType
<1>4. r = Looping(t, job, own)
  BY DEF Looping
<1>5. QED
  <2> HIDE DEF r, who
  <2>1. QED  BY <1>1, <1>2, <1>3, <1>4

\* A port that has been dealt with leaves nothing of its loop behind.
LEMMA VisitedFits ==
  ASSUME IInv, NEW t \in Refreshers, NEW job, refresh[t].at \in {"visit", "close"}
  PROVE  LET r == Visited(t, job)
         IN  r \in RefreshType /\ r.at = "visit" /\ r.new \in Plans /\ r.who \cup r.may \subseteq Sockets
<1>1. refresh[t] \in RefreshType /\ refresh[t].new \in Plans
  BY DEF IInv, TypeOK, Equipped
<1>2. ASSUME NEW new \in Plans, NEW todo \in SUBSET Jobs
      PROVE  LET r == [Idle EXCEPT !.at = "visit", !.new = new, !.todo = todo]
             IN  r \in RefreshType /\ r.at = "visit" /\ r.new = new /\ r.who \cup r.may = {}
  BY IdleType DEF Idle, RefreshType
<1> DEFINE todo == refresh[t].todo \ {job}
           r == [Idle EXCEPT !.at = "visit", !.new = refresh[t].new, !.todo = todo]
<1>3. todo \in SUBSET Jobs
  BY <1>1 DEF RefreshType
<1>4. r \in RefreshType /\ r.at = "visit" /\ r.new = refresh[t].new /\ r.who \cup r.may = {}
  <2> HIDE DEF todo
  <2>1. QED  BY <1>1, <1>2, <1>3
<1>5. r = Visited(t, job)
  BY DEF Visited
<1>6. QED
  <2> HIDE DEF r
  <2>1. QED  BY <1>1, <1>4, <1>5

LEMMA RaiseKeeps ==
  ASSUME IInv, NEW t \in Refreshers, Set(t, Idle)
  PROVE  refresh' \in [Refreshers -> RefreshType] /\ Equipped' /\ StaysClosable
  BY IdleType, SetKeeps DEF IInv, TypeOK

\* Fetching: the locals change, and nothing else does.
LEMMA FetchPreserves ==
  ASSUME IInv, NEW t \in Refreshers, Begin(t) \/ Answer(t) \/ FetchFails(t)
  PROVE  IInv'
<1>1. refresh' \in [Refreshers -> RefreshType] /\ Equipped' /\ StaysClosable
  <2>1. CASE Begin(t)
    <3> DEFINE r == [Idle EXCEPT !.at = "fetch"]
    <3>1. r \in RefreshType /\ r.at = "fetch" /\ r.who \cup r.may = {}
      BY IdleType DEF Idle, RefreshType
    <3>2. Set(t, r)
      BY <2>1 DEF Begin
    <3>3. QED
      <4> HIDE DEF r
      <4>1. QED  BY <3>1, <3>2, SetKeeps DEF IInv, TypeOK
  <2>2. CASE Answer(t)
    <3> DEFINE r == [Idle EXCEPT !.at = "answered", !.new = plan]
    <3>1. r \in RefreshType /\ r.at = "answered" /\ r.new \in Plans /\ r.who \cup r.may = {}
      BY IdleType DEF Idle, RefreshType, IInv, TypeOK
    <3>2. Set(t, r)
      BY <2>2 DEF Answer
    <3>3. QED
      <4> HIDE DEF r
      <4>1. QED  BY <3>1, <3>2, SetKeeps DEF IInv, TypeOK
  <2>3. CASE FetchFails(t)
    BY <2>3, RaiseKeeps DEF FetchFails
  <2>4. QED
    BY <2>1, <2>2, <2>3
<1>2. UNCHANGED <<daemon, relay, turn, listener>>
  BY DEF Begin, Answer, FetchFails
<1>3. QED
  BY <1>1, <1>2, BothKept DEF IInv, TypeOK, NoDeadSubscriber, daemon, relay, pool

LEMMA ReceivePreserves ==
  ASSUME IInv, NEW t \in Refreshers, Receive(t)
  PROVE  IInv'
<1> DEFINE new == refresh[t].new
           from == PortsOf(active)
           to == PortsOf(new.stations)
           flip == new.codec # codec
           todo == (IF flip THEN {"flip"} \X from ELSE {}) \cup ({"removed"} \X (from \ to))
                     \cup ({"kept"} \X (from \cap to)) \cup ({"added"} \X (to \ from))
           r == [refresh[t] EXCEPT !.at = "visit", !.todo = todo]
<1>1. /\ refresh[t] \in RefreshType /\ new \in Plans
      /\ refresh[t].who \cup refresh[t].may \subseteq Sockets
  BY DEF IInv, TypeOK, Equipped, Closable, Receive
<1>2. todo \in SUBSET Jobs
  BY JobsAre DEF PortsOf
<1>3. /\ r \in RefreshType /\ r.at = "visit" /\ r.new = new
      /\ r.who = refresh[t].who /\ r.may = refresh[t].may
  <2> HIDE DEF todo
  <2>1. QED  BY <1>1, <1>2 DEF RefreshType
<1>4. Set(t, r)
  BY DEF Receive
<1>5. refresh' \in [Refreshers -> RefreshType] /\ Equipped' /\ StaysClosable
  <2> HIDE DEF r
  <2>1. QED  BY <1>1, <1>3, <1>4, SetKeeps DEF IInv, TypeOK
<1>6. codec' \in Codecs
  BY <1>1 DEF Receive, Plans
<1>7. turn' \in Refreshers \cup {None} /\ UNCHANGED <<daemon, active, subs, pool, listener>>
  BY DEF Receive
<1>8. QED
  BY <1>5, <1>6, <1>7, BothKept DEF IInv, TypeOK, NoDeadSubscriber, daemon, pool

LEMMA VisitPreserves ==
  ASSUME IInv, NEW t \in Refreshers, Visit(t)
  PROVE  IInv'
<1>1. PICK job \in refresh[t].todo :
        /\ \/ job[1] = "flip" /\ Set(t, Looping(t, job, TRUE)) /\ turn' = t
           \/ job[1] = "removed" /\ Detach(t, Looping(t, job, FALSE), job[2]) /\ turn' = t
           \/ job[1] = "kept" /\ VisitKept(t, job)
           \/ job[1] = "added" /\ Set(t, Visited(t, job)) /\ turn' = None
        /\ subs' = IF job[1] = "removed" THEN [subs EXCEPT ![job[2]] = {}] ELSE subs
  BY DEF Visit
<1>2. refresh[t].at = "visit"
  BY DEF Visit, Running
<1>3. refresh' \in [Refreshers -> RefreshType] /\ Equipped' /\ StaysClosable
        /\ turn' \in Refreshers \cup {None}
  <2>0. refresh \in [Refreshers -> RefreshType] /\ Equipped /\ Closable
    BY DEF IInv, TypeOK
  <2>1. CASE Set(t, Looping(t, job, TRUE)) /\ turn' = t
    BY <1>2, <2>0, <2>1, LoopFits, SetKeeps
  <2>2. CASE Detach(t, Looping(t, job, FALSE), job[2]) /\ turn' = t
    BY <1>2, <2>0, <2>2, LoopFits, DetachKeeps
  <2>3. CASE Set(t, Visited(t, job)) /\ turn' \in {t, None}
    <3>1. /\ Visited(t, job) \in RefreshType /\ Visited(t, job).at = "visit"
          /\ Visited(t, job).new \in Plans
          /\ Visited(t, job).who \cup Visited(t, job).may \subseteq Sockets
      BY <1>2, VisitedFits
    <3>2. QED
      BY <2>0, <2>3, <3>1, SetKeeps
  <2>4. CASE Raise(t)
    BY <2>4, RaiseKeeps DEF Raise
  <2>5. QED
    BY <1>1, <2>1, <2>2, <2>3, <2>4 DEF VisitKept
<1>4. subs' \in [Ports -> SUBSET Listeners] /\ \A p \in Ports : subs'[p] \subseteq subs[p]
  BY <1>1 DEF IInv, TypeOK
<1>5. UNCHANGED <<daemon, active, codec, pool, listener>>
  BY DEF Visit
<1>6. QED
  BY <1>3, <1>4, <1>5, BothKept DEF IInv, TypeOK, NoDeadSubscriber, daemon, pool

\* The responses of a port that are dropped are those it has: no websocket goes,
\* and no other port's.
LEMMA DropKeeps ==
  ASSUME IInv, NEW p \in Ports, drop(p), UNCHANGED <<daemon, active, codec>>,
         subs' \in [Ports -> SUBSET Listeners], refresh' \in [Refreshers -> RefreshType],
         turn' \in Refreshers \cup {None}
  PROVE  /\ TypeOK' /\ Pooled' /\ Sockets \subseteq Sockets'
         /\ \A l \in Sockets : listener'[l] = listener[l]
<1> USE DEF IInv
<1>1. \A l \in Listeners : l \in aac[p] =>
        listener[l].port = p /\ listener[l].at \in {"streaming", "leaked"}
  BY DEF TypeOK, Pooled
<1>2. /\ \A l \in Listeners : l \notin aac[p] => listener'[l] = listener[l]
      /\ \A l \in aac[p] : listener'[l].at \in {"off", "closed"}
      /\ listener' \in [Listeners -> [at : {"off", "opening", "open", "streaming", "leaked", "closed"},
                                     port : Ports \cup {None}]]
  BY <1>1 DEF TypeOK, drop, Away
<1>3. TypeOK'
  BY <1>2 DEF TypeOK, drop, daemon
<1>4. Pooled'
  <2> SUFFICES ASSUME NEW q \in Ports
               PROVE  /\ aac'[q] = {m \in Listeners : listener'[m].port = q
                                        /\ listener'[m].at \in {"streaming", "leaked"}}
                      /\ q \in enc' <=> aac'[q] # {} \/ q \in linger'
                      /\ q \in linger' => aac'[q] = {}
    BY DEF Pooled
  <2>1. /\ aac[q] = {m \in Listeners : listener[m].port = q /\ listener[m].at \in {"streaming", "leaked"}}
        /\ q \in enc <=> aac[q] # {} \/ q \in linger
        /\ q \in linger => aac[q] = {}
    BY DEF Pooled
  <2>2. /\ aac'[q] = IF q = p THEN {} ELSE aac[q]
        /\ enc' = enc \ {p} /\ linger' = linger \ {p}
    BY DEF TypeOK, drop
  <2>3. \A m \in Listeners : m \in aac[p] => listener[m].port = p
    BY <1>1
  <2>4. aac'[q] = {m \in Listeners : listener'[m].port = q /\ listener'[m].at \in {"streaming", "leaked"}}
    <3>1. CASE q = p
      BY <1>2, <2>1, <2>2, <3>1
    <3>2. CASE q # p
      BY <1>2, <2>1, <2>2, <2>3, <3>2
    <3>3. QED
      BY <3>1, <3>2
  <2>5. QED
    BY <2>1, <2>2, <2>4
<1>5. \A l \in Sockets : l \notin aac[p]
  BY <1>1 DEF Sockets
<1>6. QED
  BY <1>2, <1>3, <1>4, <1>5 DEF Sockets

LEMMA ClosePreserves ==
  ASSUME IInv, NEW t \in Refreshers, CloseNext(t) \/ CloseEnds(t) \/ CloseRaises(t)
  PROVE  IInv'
<1> DEFINE r == refresh[t]
<1>1. r \in RefreshType /\ r.at = "close" /\ r.new \in Plans /\ r.job \in Jobs
  BY DEF IInv, TypeOK, Equipped, CloseNext, CloseEnds, CloseRaises, Running
<1>2. r.job[2] \in Ports
  BY <1>1, JobsAre
<1>3. CASE CloseNext(t)
  <2>1. PICK l \in r.who \cup r.may :
          /\ listener' = [listener EXCEPT ![l].at = "closed"]
          /\ Set(t, [r EXCEPT !.who = @ \ {l}, !.may = @ \ {l}])
    BY <1>3 DEF CloseNext
  <2>2. l \in Sockets
    BY <2>1 DEF IInv, Closable
  <2> DEFINE s == [r EXCEPT !.who = @ \ {l}, !.may = @ \ {l}]
  <2>3. /\ s \in RefreshType /\ s.at = "close"
        /\ s.new = r.new /\ s.job = r.job /\ s.who \subseteq r.who /\ s.may \subseteq r.may
    BY <1>1, <2>2 DEF RefreshType, Sockets
  <2>4. refresh' \in [Refreshers -> RefreshType] /\ Equipped' /\ StaysClosable
    <3>1. Set(t, s) /\ s.who \cup s.may \subseteq Sockets
      BY <2>1, <2>3 DEF IInv, Closable
    <3> HIDE DEF s, r
    <3>2. QED  BY <1>1, <2>3, <3>1, SetKeeps DEF IInv, TypeOK
  <2>5. turn' = None /\ UNCHANGED <<daemon, relay>>
    BY <1>3 DEF CloseNext
  <2>6. TypeOK'
    <3>1. listener' \in [Listeners -> [at : {"off", "opening", "open", "streaming", "leaked", "closed"},
                                      port : Ports \cup {None}]]
      BY <2>1, <2>2 DEF IInv, TypeOK, Sockets
    <3>2. QED
      BY <2>4, <2>5, <3>1 DEF IInv, TypeOK, daemon, relay, pool
  <2>7. NoDeadSubscriber'
    BY <2>1, <2>2, <2>5 DEF IInv, TypeOK, NoDeadSubscriber, Sockets, relay
  <2>8. Closable'
    BY <2>1, <2>2, <2>4 DEF IInv, TypeOK, Closable, StaysClosable, Sockets
  <2>9. Pooled'
    BY <2>1, <2>2, <2>5 DEF IInv, TypeOK, Pooled, Sockets, relay, pool
  <2>10. QED
    BY <2>4, <2>6, <2>7, <2>8, <2>9 DEF IInv
<1>4. CASE CloseEnds(t)
  <2>1. PICK after \in {Idle, Visited(t, r.job)} :
          \/ r.job[1] = "removed" /\ Set(t, after) /\ subs' = subs
          \/ Detach(t, after, r.job[2]) /\ subs' = [subs EXCEPT ![r.job[2]] = {}]
    BY <1>4 DEF CloseEnds
  <2>2. /\ turn' \in Refreshers \cup {None} /\ UNCHANGED <<daemon, active, codec>>
        /\ drop(r.job[2])
    BY <1>4 DEF CloseEnds
  <2>3. refresh' \in [Refreshers -> RefreshType] /\ Equipped' /\ StaysClosable
    <3>1. /\ after \in RefreshType /\ after.at \in {"idle", "visit"}
          /\ after.at = "visit" => after.new \in Plans
          /\ after.who \cup after.may \subseteq Sockets
      BY <1>1, IdleType, VisitedFits
    <3>2. refresh \in [Refreshers -> RefreshType] /\ Equipped /\ Closable
      BY DEF IInv, TypeOK
    <3>3. QED
      BY <2>1, <3>1, <3>2, SetKeeps, DetachKeeps
  <2>4. subs' \in [Ports -> SUBSET Listeners] /\ \A p \in Ports : subs'[p] \subseteq subs[p]
    BY <1>2, <2>1 DEF IInv, TypeOK
  <2>5. /\ TypeOK' /\ Pooled' /\ Sockets \subseteq Sockets'
        /\ \A l \in Sockets : listener'[l] = listener[l]
    BY <1>2, <2>2, <2>3, <2>4, DropKeeps
  <2>6. NoDeadSubscriber'
    BY <2>4, <2>5 DEF IInv, TypeOK, NoDeadSubscriber, Sockets
  <2>7. Closable'
    BY <2>3, <2>5 DEF Closable, StaysClosable
  <2>8. QED
    BY <2>3, <2>5, <2>6, <2>7 DEF IInv
<1>5. CASE CloseRaises(t)
  <2>1. refresh' \in [Refreshers -> RefreshType] /\ Equipped' /\ StaysClosable
    BY <1>5, RaiseKeeps DEF CloseRaises, Raise
  <2>2. QED
    BY <1>5, <2>1, BothKept DEF CloseRaises, Raise, IInv, TypeOK, NoDeadSubscriber, daemon, relay, pool
<1>6. QED
  BY <1>3, <1>4, <1>5

LEMMA CommitPreserves ==
  ASSUME IInv, NEW t \in Refreshers, Commit(t)
  PROVE  IInv'
<1>1. refresh[t].new \in Plans
  BY DEF Commit, Running, IInv, Equipped
<1>2. active' \in [Ports -> Formats \cup {None}]
  BY <1>1 DEF Commit, Plans
<1>3. refresh' \in [Refreshers -> RefreshType] /\ Equipped' /\ StaysClosable
  BY RaiseKeeps DEF Commit
<1>4. QED
  BY <1>2, <1>3, BothKept DEF Commit, IInv, TypeOK, NoDeadSubscriber, daemon, pool

\* A listener that is away, or on its way in, is in no set.
LEMMA Unlisted ==
  ASSUME IInv, NEW l \in Listeners, listener[l].at \in {"off", "opening"}
  PROVE  /\ \A p \in Ports : l \notin subs[p] /\ l \notin aac[p]
         /\ \A t \in Refreshers : l \notin refresh[t].who \cup refresh[t].may
  BY DEF IInv, NoDeadSubscriber, Pooled, Closable, Sockets

\* A step of one listener that is in no set and enters none, or enters a fan-out;
\* the loops over that fan-out may come to it.
LEMMA AsidePreserves ==
  ASSUME IInv, NEW l \in Listeners, listener[l].at \in {"off", "opening"},
         NEW p \in Ports \cup {None}, NEW at \in {"off", "opening", "open"},
         listener' = [listener EXCEPT ![l] = [at |-> at, port |-> p]],
         \A t \in Refreshers :
           /\ refresh'[t].who \subseteq refresh[t].who
           /\ refresh'[t].may \subseteq refresh[t].who \cup refresh[t].may
                                          \cup (IF at = "open" THEN {l} ELSE {}),
         UNCHANGED pool
  PROVE  /\ listener' \in [Listeners -> [at : {"off", "opening", "open", "streaming", "leaked", "closed"},
                                        port : Ports \cup {None}]]
         /\ \A m \in Listeners \ {l} : listener'[m] = listener[m]
         /\ Closable' /\ Pooled'
<1>1. \A m \in Listeners \ {l} : listener'[m] = listener[m]
  BY DEF IInv, TypeOK
<1>2. listener'[l].at = at
  BY DEF IInv, TypeOK
<1>3. Closable'
  <2> SUFFICES ASSUME NEW t \in Refreshers, NEW m \in refresh'[t].who \cup refresh'[t].may
               PROVE  m \in Sockets'
    BY DEF Closable
  <2>1. CASE m = l
    <3>1. l \notin refresh[t].who \cup refresh[t].may
      BY Unlisted
    <3>2. at = "open"
      BY <2>1, <3>1
    <3>3. QED
      BY <1>2, <2>1, <3>2 DEF Sockets
  <2>2. CASE m # l
    <3>1. m \in refresh[t].who \cup refresh[t].may
      BY <2>2
    <3>2. m \in Sockets
      BY <3>1 DEF IInv, Closable
    <3>3. QED
      BY <1>1, <2>2, <3>2 DEF Sockets
  <2>3. QED
    BY <2>1, <2>2
<1>4. Pooled'
  <2>1. \A q \in Ports, m \in Listeners :
          (listener'[m].port = q /\ listener'[m].at \in {"streaming", "leaked"})
            <=> (listener[m].port = q /\ listener[m].at \in {"streaming", "leaked"})
    BY <1>1, <1>2
  <2>2. QED
    BY <2>1 DEF IInv, Pooled, pool
<1>5. QED
  BY <1>1, <1>3, <1>4 DEF IInv, TypeOK

\* The loops over the set a websocket joins keep their place, and may come to it.
LEMMA JoinedFits ==
  ASSUME NEW r \in RefreshType, NEW l \in Listeners, NEW rebuilt \in BOOLEAN
  PROVE  LET j == Joined(r, l, rebuilt)
         IN  /\ j \in RefreshType /\ j.at = r.at /\ j.new = r.new /\ j.job = r.job
             /\ j.who \subseteq r.who /\ j.may \subseteq r.who \cup r.may \cup {l}
<1> DEFINE who == IF rebuilt THEN {} ELSE r.who
           may == r.may \cup {l} \cup (IF rebuilt THEN r.who ELSE {})
           grown == r.grown + 1
           j == [r EXCEPT !.grown = grown, !.who = who, !.may = may]
<1>1. who \in SUBSET Listeners /\ who \subseteq r.who
  BY DEF RefreshType
<1>2. may \in SUBSET Listeners /\ may \subseteq r.who \cup r.may \cup {l}
  BY DEF RefreshType
<1>3. grown \in Int
  BY DEF RefreshType
<1>4. j = Joined(r, l, rebuilt)
  BY DEF Joined
<1>5. /\ j \in RefreshType /\ j.at = r.at /\ j.new = r.new /\ j.job = r.job
      /\ j.who = who /\ j.may = may
  <2> HIDE DEF who, may, grown
  <2>1. QED  BY <1>1, <1>2, <1>3 DEF RefreshType
<1>6. QED
  <2> HIDE DEF j, who, may
  <2>1. QED  BY <1>1, <1>2, <1>4, <1>5

LEMMA OpenPreserves ==
  ASSUME IInv, NEW l \in Listeners, (\E p \in Ports : Open(l, p)) \/ Subscribe(l) \/ GiveUp(l)
  PROVE  IInv'
<1>1. CASE \E p \in Ports : Open(l, p)
  <2>1. PICK p \in Ports : Open(l, p)
    BY <1>1
  <2>2. /\ listener' = [listener EXCEPT ![l] = [at |-> "opening", port |-> p]]
        /\ listener[l].at = "off" /\ UNCHANGED <<daemon, active, codec, subs, pool, refresh, turn>>
    BY <2>1 DEF Open, relay
  <2>3. Closable' /\ Pooled' /\ TypeOK' /\ \A m \in Listeners \ {l} : listener'[m] = listener[m]
    BY <2>2, AsidePreserves DEF IInv, TypeOK, daemon, pool
  <2>4. NoDeadSubscriber'
    BY <2>2, <2>3, Unlisted DEF IInv, TypeOK, NoDeadSubscriber
  <2>5. QED
    BY <2>2, <2>3, <2>4 DEF IInv, Equipped
<1>2. CASE Subscribe(l)
  <2> DEFINE Record == [at : {"off", "opening", "open", "streaming", "leaked", "closed"},
                        port : Ports \cup {None}]
  <2>0. \A r \in Record : [r EXCEPT !.at = "open"] = [at |-> "open", port |-> r.port]
    OBVIOUS
  <2>1. /\ listener[l].at = "opening"
        /\ listener' = [listener EXCEPT ![l] = [at |-> "open", port |-> listener[l].port]]
        /\ subs' = [subs EXCEPT ![listener[l].port] = @ \cup {l}]
        /\ UNCHANGED <<daemon, active, codec, pool, turn>>
    BY <1>2, <2>0 DEF Subscribe, IInv, TypeOK
  <2>2. listener[l].port \in Ports \cup {None}
    BY DEF IInv, TypeOK
  <2>3. PICK rebuilt \in BOOLEAN :
          refresh' = [u \in Refreshers |->
            IF Iterates(u, listener[l].port) THEN Joined(refresh[u], l, rebuilt) ELSE refresh[u]]
    BY <1>2 DEF Subscribe
  <2>4. ASSUME NEW u \in Refreshers
        PROVE  /\ refresh'[u] \in RefreshType /\ refresh'[u].at = refresh[u].at
               /\ refresh'[u].new = refresh[u].new /\ refresh'[u].job = refresh[u].job
               /\ refresh'[u].who \subseteq refresh[u].who
               /\ refresh'[u].may \subseteq refresh[u].who \cup refresh[u].may \cup {l}
    <3>1. refresh[u] \in RefreshType
      BY DEF IInv, TypeOK
    <3>2. refresh'[u] = refresh[u] \/ refresh'[u] = Joined(refresh[u], l, rebuilt)
      BY <2>3
    <3>3. QED
      BY <3>1, <3>2, JoinedFits
  <2>5. refresh' \in [Refreshers -> RefreshType] /\ Equipped'
    BY <2>3, <2>4 DEF IInv, Equipped
  <2>6. /\ Closable' /\ Pooled' /\ TypeOK'
        /\ \A m \in Listeners \ {l} : listener'[m] = listener[m]
    <3>1. subs' \in [Ports -> SUBSET Listeners]
      BY <2>1 DEF IInv, TypeOK
    <3>2. /\ Closable' /\ Pooled' /\ listener' \in [Listeners -> Record]
          /\ \A m \in Listeners \ {l} : listener'[m] = listener[m]
      <4>1. "open" \in {"off", "opening", "open"} /\ UNCHANGED pool
        BY <2>1
      <4>2. \A u \in Refreshers :
              /\ refresh'[u].who \subseteq refresh[u].who
              /\ refresh'[u].may \subseteq refresh[u].who \cup refresh[u].may
                                             \cup (IF "open" = "open" THEN {l} ELSE {})
        BY <2>4
      <4>3. QED
        BY <2>1, <2>2, <4>1, <4>2, AsidePreserves
    <3>3. QED
      BY <2>1, <2>5, <3>1, <3>2 DEF IInv, TypeOK, daemon, pool
  <2>7. listener'[l] = [at |-> "open", port |-> listener[l].port]
    BY <2>1 DEF IInv, TypeOK
  <2>8. NoDeadSubscriber'
    <3> SUFFICES ASSUME NEW p \in Ports, NEW m \in subs'[p]
                 PROVE  listener'[m].port = p /\ listener'[m].at \in {"open", "closed"}
      BY DEF NoDeadSubscriber
    <3>1. CASE m \in subs[p]
      <4>1. m \in Listeners \ {l}
        BY <2>1, <3>1, Unlisted DEF IInv, TypeOK
      <4>2. QED
        BY <2>6, <3>1, <4>1 DEF IInv, NoDeadSubscriber
    <3>2. CASE m \notin subs[p]
      <4>1. m = l /\ listener[l].port = p
        BY <2>1, <3>2 DEF IInv, TypeOK
      <4>2. QED
        BY <2>7, <4>1
    <3>3. QED
      BY <3>1, <3>2
  <2>9. QED
    BY <2>5, <2>6, <2>8 DEF IInv
<1>3. CASE GiveUp(l)
  <2>1. /\ listener[l].at = "opening"
        /\ listener' = [listener EXCEPT ![l] = [at |-> "off", port |-> None]]
        /\ UNCHANGED <<daemon, active, codec, subs, pool, refresh, turn>>
    BY <1>3 DEF GiveUp, Away, relay
  <2>2. Closable' /\ Pooled' /\ TypeOK' /\ \A m \in Listeners \ {l} : listener'[m] = listener[m]
    BY <2>1, AsidePreserves DEF IInv, TypeOK, daemon, pool
  <2>3. NoDeadSubscriber'
    BY <2>1, <2>2, Unlisted DEF IInv, TypeOK, NoDeadSubscriber
  <2>4. QED
    BY <2>1, <2>2, <2>3 DEF IInv, Equipped
<1>4. QED
  BY <1>1, <1>2, <1>3

LEMMA LeavePreserves ==
  ASSUME IInv, NEW l \in Listeners, Leave(l)
  PROVE  IInv'
<1> DEFINE p == listener[l].port
<1>1. /\ listener' = [listener EXCEPT ![l] = Away]
      /\ subs' = [subs EXCEPT ![p] = @ \ {l}]
      /\ aac' = [aac EXCEPT ![p] = @ \ {l}]
      /\ linger' = IF aac[p] = {l} THEN linger \cup ({p} \cap enc) ELSE linger
      /\ UNCHANGED <<plan, plans, active, codec, enc, turn>>
  BY DEF Leave, Unlisten, daemon
<1>2. ASSUME NEW t \in Refreshers
      PROVE  /\ refresh'[t] \in RefreshType
             /\ refresh'[t].at = refresh[t].at
             /\ refresh'[t].new = refresh[t].new
             /\ refresh'[t].job = refresh[t].job
             /\ refresh'[t].who = refresh[t].who \ {l}
             /\ refresh'[t].may = refresh[t].may \ {l}
  <2>1. refresh[t] \in RefreshType
    BY DEF IInv, TypeOK
  <2>2. \/ refresh'[t] = [refresh[t] EXCEPT !.who = @ \ {l}, !.may = @ \ {l}, !.grown = @]
        \/ refresh'[t] = [refresh[t] EXCEPT !.who = @ \ {l}, !.may = @ \ {l}, !.grown = @ - 1]
    BY DEF Leave, Forget
  <2>3. ASSUME NEW r \in RefreshType, NEW g \in {r.grown, r.grown - 1}
        PROVE  LET s == [r EXCEPT !.who = @ \ {l}, !.may = @ \ {l}, !.grown = g]
               IN  /\ s \in RefreshType /\ s.at = r.at /\ s.new = r.new /\ s.job = r.job
                   /\ s.who = r.who \ {l} /\ s.may = r.may \ {l}
    <3>1. g \in Int
      BY DEF RefreshType
    <3>2. QED
      BY <3>1 DEF RefreshType
  <2>4. QED
    BY <2>1, <2>2, <2>3
<1>3. refresh' \in [Refreshers -> RefreshType] /\ Equipped'
  BY <1>2 DEF IInv, Equipped, Leave, Forget
<1>4. \A m \in Listeners \ {l} : listener'[m] = listener[m]
  BY <1>1 DEF IInv, TypeOK
<1>5. listener'[l].at = "off"
  BY <1>1 DEF IInv, TypeOK, Away
<1>6. NoDeadSubscriber'
  <2> SUFFICES ASSUME NEW q \in Ports, NEW m \in subs'[q]
               PROVE  listener'[m].port = q /\ listener'[m].at \in {"open", "closed"}
    BY DEF NoDeadSubscriber
  <2>1. m \in subs[q] /\ m # l /\ m \in Listeners
    BY <1>1 DEF IInv, TypeOK, NoDeadSubscriber
  <2>2. QED
    BY <1>4, <2>1 DEF IInv, NoDeadSubscriber
<1>7. Closable'
  BY <1>2, <1>4 DEF IInv, TypeOK, Closable, Sockets, RefreshType
<1>8. TypeOK'
  <2>1. subs' \in [Ports -> SUBSET Listeners] /\ aac' \in [Ports -> SUBSET Listeners]
    BY <1>1 DEF IInv, TypeOK
  <2>2. linger' \in SUBSET Ports
    BY <1>1 DEF IInv, TypeOK
  <2>3. QED
    BY <1>1, <1>3, <2>1, <2>2 DEF IInv, TypeOK, Away
<1>9. Pooled'
  <2> SUFFICES ASSUME NEW q \in Ports
               PROVE  /\ aac'[q] = {m \in Listeners : listener'[m].port = q
                                        /\ listener'[m].at \in {"streaming", "leaked"}}
                      /\ q \in enc' <=> aac'[q] # {} \/ q \in linger'
                      /\ q \in linger' => aac'[q] = {}
    BY DEF Pooled
  <2>1. /\ aac[q] = {m \in Listeners : listener[m].port = q /\ listener[m].at \in {"streaming", "leaked"}}
        /\ q \in enc <=> aac[q] # {} \/ q \in linger
        /\ q \in linger => aac[q] = {}
    BY DEF IInv, Pooled
  <2>2. aac'[q] = aac[q] \ {l}
    BY <1>1, <2>1 DEF IInv, TypeOK
  <2>3. aac'[q] = {m \in Listeners : listener'[m].port = q /\ listener'[m].at \in {"streaming", "leaked"}}
    BY <1>4, <1>5, <2>1, <2>2
  <2>4. l \in aac[q] => q = p
    BY <2>1
  <2>5. QED
    BY <1>1, <2>1, <2>2, <2>3, <2>4
<1>10. QED
  BY <1>3, <1>6, <1>7, <1>8, <1>9 DEF IInv

LEMMA TunePreserves ==
  ASSUME IInv, NEW l \in Listeners, NEW p \in Ports, Tune(l, p)
  PROVE  IInv'
<1>1. PICK at \in {"streaming", "leaked"} :
        /\ listener[l].at = "off"
        /\ listener' = [listener EXCEPT ![l] = [at |-> at, port |-> p]]
        /\ aac' = [aac EXCEPT ![p] = @ \cup {l}]
        /\ linger' = linger \ {p} /\ enc' = enc \cup {p}
        /\ UNCHANGED <<daemon, active, codec, subs, refresh, turn>>
  BY DEF Tune
<1>2. /\ \A m \in Listeners \ {l} : listener'[m] = listener[m]
      /\ listener'[l] = [at |-> at, port |-> p]
  BY <1>1 DEF IInv, TypeOK
<1>3. TypeOK'
  BY <1>1 DEF IInv, TypeOK, daemon
<1>4. NoDeadSubscriber'
  BY <1>1, <1>2, Unlisted DEF IInv, TypeOK, NoDeadSubscriber
<1>5. Closable'
  BY <1>1, <1>2, Unlisted DEF IInv, Closable, Sockets
<1>6. Pooled'
  <2> SUFFICES ASSUME NEW q \in Ports
               PROVE  /\ aac'[q] = {m \in Listeners : listener'[m].port = q
                                        /\ listener'[m].at \in {"streaming", "leaked"}}
                      /\ q \in enc' <=> aac'[q] # {} \/ q \in linger'
                      /\ q \in linger' => aac'[q] = {}
    BY DEF Pooled
  <2>1. /\ aac[q] = {m \in Listeners : listener[m].port = q /\ listener[m].at \in {"streaming", "leaked"}}
        /\ q \in enc <=> aac[q] # {} \/ q \in linger
        /\ q \in linger => aac[q] = {}
    BY DEF IInv, Pooled
  <2>2. aac'[q] = IF q = p THEN aac[q] \cup {l} ELSE aac[q]
    BY <1>1 DEF IInv, TypeOK
  <2>3. l \notin aac[q]
    BY <1>1, <2>1
  <2>4. QED
    BY <1>1, <1>2, <2>1, <2>2, <2>3
<1>7. QED
  BY <1>1, <1>3, <1>4, <1>5, <1>6 DEF IInv, Equipped

LEMMA LingerPreserves ==
  ASSUME IInv, NEW p \in Ports, LingerExpires(p)
  PROVE  IInv'
  BY DEF LingerExpires, IInv, TypeOK, Equipped, NoDeadSubscriber, Closable, Sockets, Pooled, daemon

LEMMA ListenerPreserves ==
  ASSUME IInv, NEW l \in Listeners, Listener(l)
  PROVE  IInv'
  BY OpenPreserves, LeavePreserves, TunePreserves DEF Listener

THEOREM Invariance == Spec => []IInv
<1>1. IInv /\ [Next]_vars => IInv'
  <2> SUFFICES ASSUME IInv, [Next]_vars  PROVE IInv'
    OBVIOUS
  <2>1. CASE PlanChanges
    BY <2>1 DEF PlanChanges, IInv, TypeOK, Equipped, NoDeadSubscriber, Closable, Sockets,
                Pooled, relay, pool
  <2>2. ASSUME NEW t \in Refreshers, Begin(t) \/ Proceed(t)  PROVE IInv'
    BY <2>2, FetchPreserves, ReceivePreserves, VisitPreserves, ClosePreserves, CommitPreserves DEF Proceed
  <2>3. ASSUME NEW l \in Listeners, Listener(l)  PROVE IInv'
    BY <2>3, ListenerPreserves
  <2>4. ASSUME NEW p \in Ports, LingerExpires(p)  PROVE IInv'
    BY <2>4, LingerPreserves
  <2>5. CASE UNCHANGED vars
    BY <2>5 DEF vars, daemon, relay, pool, IInv, TypeOK, Equipped, NoDeadSubscriber, Closable,
                Sockets, Pooled
  <2>6. QED
    BY <2>1, <2>2, <2>3, <2>4, <2>5 DEF Next
<1>2. QED
  BY InitOK, <1>1, PTL DEF Spec

\* The types are right in every reachable state.
THEOREM TypeCorrect == Spec => []TypeOK
<1>1. IInv => TypeOK  BY DEF IInv
<1>2. QED  BY <1>1, Invariance, PTL

\* No refresh, however it overlaps with another or fails half way, leaves a
\* websocket in the fan-out whose handler has ended.
THEOREM FanOutIsAlive == Spec => []NoDeadSubscriber
<1>1. IInv => NoDeadSubscriber  BY DEF IInv
<1>2. QED  BY <1>1, Invariance, PTL

\* Every open response is subscribed and its encoder is up, with no timer running
\* against it; and no other encoder runs but one that lingers, or one that a
\* response that never began holds. For any number of listeners and of lists.
THEOREM StreamsStayFed == Spec => []StreamsAreFed
<1>1. IInv => StreamsAreFed
  <2> SUFFICES ASSUME Pooled, NEW p \in Ports
               PROVE  /\ Streaming(p) \subseteq aac[p]
                      /\ Streaming(p) # {} => p \in enc /\ p \notin linger
                      /\ p \in enc => Streaming(p) # {} \/ p \in linger \/ Leaked(p) \cap aac[p] # {}
    BY DEF IInv, StreamsAreFed
  <2>1. /\ aac[p] = Streaming(p) \cup Leaked(p)
        /\ p \in enc <=> aac[p] # {} \/ p \in linger
        /\ p \in linger => aac[p] = {}
    BY DEF Pooled, Streaming, Leaked
  <2>2. QED
    BY <2>1
<1>2. QED  BY <1>1, Invariance, PTL
=============================================================================

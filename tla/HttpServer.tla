------------------------------ MODULE HttpServer ------------------------------
(***************************************************************************)
(* rx/src/http_server.hpp: the status port's accept thread, its bounded    *)
(* queue of accepted connections, the workers that serve them, and the     *)
(* destructor that the daemon runs on its way out.                         *)
(*                                                                         *)
(* A critical section of m_queue_mtx is one action, with one exception: a  *)
(* worker whose wait predicate is false is "blocking", still holding the   *)
(* mutex, before it is "asleep".  The destructor's store to m_stop and its *)
(* notify_all() do not take the mutex, so they may come in between.        *)
(*                                                                         *)
(* The handlers of BandScan run on these workers; the specifications have  *)
(* no name in common, so that one module can extend both.                  *)
(***************************************************************************)
EXTENDS Naturals, Sequences

CONSTANTS
  WorkerThreads,     \* kWorkers threads
  Conns,       \* connections that clients make
  None,        \* no connection
  MaxQueued    \* kMaxQueued

ASSUME HttpServerAssumption ==
  /\ None \notin Conns
  /\ MaxQueued \in Nat

VARIABLES
  conn,       \* what became of each connection
  closes,     \* history: how often each connection's fd was closed
  queue,      \* m_queue
  listening,  \* m_fd is open
  stop,       \* m_stop
  acceptor,   \* where accept_loop() is
  held,       \* its c
  at,         \* where each worker_loop() is
  serving,    \* each worker's c
  dtor        \* where ~HttpServer() is

portVars == <<conn, closes, queue, listening, stop, acceptor, held, at, serving, dtor>>

PortInit ==
  /\ conn = [c \in Conns |-> "new"]
  /\ closes = [c \in Conns |-> 0]
  /\ queue = <<>>
  /\ listening = TRUE /\ stop = FALSE
  /\ acceptor = "test" /\ held = None
  /\ at = [w \in WorkerThreads |-> "test"]
  /\ serving = [w \in WorkerThreads |-> None]
  /\ dtor = "idle"

Backlog == {c \in Conns : conn[c] = "backlog"}

Close(c) ==
  /\ closes' = [closes EXCEPT ![c] = @ + 1]
  /\ conn' = [conn EXCEPT ![c] = "closed"]

-----------------------------------------------------------------------------
(* Clients and the kernel.                                                 *)

Connect(c) ==
  /\ listening /\ conn[c] = "new"
  /\ conn' = [conn EXCEPT ![c] = "backlog"]
  /\ UNCHANGED <<closes, queue, listening, stop, acceptor, held, at, serving, dtor>>

-----------------------------------------------------------------------------
(* The accept thread.                                                      *)

\* while (!m_stop.load())
AcceptTest ==
  /\ acceptor = "test"
  /\ acceptor' = IF stop THEN "exit" ELSE "poll"
  /\ UNCHANGED <<conn, closes, queue, listening, stop, held, at, serving, dtor>>

\* poll() reports a connection or a socket that was shut down, or it times out.
Poll ==
  /\ acceptor = "poll"
  /\ acceptor' = IF Backlog # {} \/ ~listening THEN "accept" ELSE "test"
  /\ UNCHANGED <<conn, closes, queue, listening, stop, held, at, serving, dtor>>

\* accept4() takes a connection ...
Accept ==
  /\ acceptor = "accept"
  /\ \E c \in Backlog : held' = c /\ conn' = [conn EXCEPT ![c] = "accepted"]
  /\ acceptor' = "push"
  /\ UNCHANGED <<closes, queue, listening, stop, at, serving, dtor>>

\* ... or fails: the socket is closed, or the peer has gone.
AcceptFails ==
  /\ acceptor = "accept"
  /\ \/ Backlog = {} /\ UNCHANGED conn
     \/ \E c \in Backlog : conn' = [conn EXCEPT ![c] = "reset"]
  /\ acceptor' = "test"
  /\ UNCHANGED <<closes, queue, listening, stop, held, at, serving, dtor>>

\* m_queue_mtx is free: no worker is about to sleep with it.
MutexFree == \A w \in WorkerThreads : at[w] # "blocking"

Waiters == {w \in WorkerThreads : at[w] = "asleep"}

\* Mutant: nobody is told.
EnqueueSilently ==
  /\ queue' = Append(queue, held)
  /\ conn' = [conn EXCEPT ![held] = "queued"]
  /\ UNCHANGED <<closes, at>>

\* The connection is queued and one waiting worker, if any, is woken.
Enqueue ==
  /\ queue' = Append(queue, held)
  /\ conn' = [conn EXCEPT ![held] = "queued"]
  /\ IF Waiters = {} THEN UNCHANGED at
     ELSE \E w \in Waiters : at' = [at EXCEPT ![w] = "test"]
  /\ UNCHANGED closes

\* The queue is full: the connection is refused.
Refuse ==
  /\ Len(queue) >= MaxQueued
  /\ Close(held)
  /\ UNCHANGED <<queue, at>>

Push ==
  /\ acceptor = "push" /\ MutexFree
  /\ Refuse \/ (Len(queue) < MaxQueued /\ Enqueue)
  /\ held' = None
  /\ acceptor' = "test"
  /\ UNCHANGED <<listening, stop, serving, dtor>>

Acceptor == AcceptTest \/ Poll \/ Accept \/ AcceptFails \/ Push

-----------------------------------------------------------------------------
(* Worker w.                                                               *)

Goto(w, from, to) == at[w] = from /\ at' = [at EXCEPT ![w] = to]

\* Mutant: the connection is looked at, not taken.
PopPeeks(w) ==
  /\ MutexFree /\ queue # <<>>
  /\ Goto(w, "test", "handle")
  /\ serving' = [serving EXCEPT ![w] = Head(queue)]
  /\ conn' = [conn EXCEPT ![Head(queue)] = "handled"]
  /\ UNCHANGED <<closes, queue, listening, stop, acceptor, held, dtor>>

\* The wait predicate holds: take the oldest connection ...
Pop(w) ==
  /\ MutexFree /\ queue # <<>>
  /\ Goto(w, "test", "handle")
  /\ serving' = [serving EXCEPT ![w] = Head(queue)]
  /\ conn' = [conn EXCEPT ![Head(queue)] = "handled"]
  /\ queue' = Tail(queue)
  /\ UNCHANGED <<closes, listening, stop, acceptor, held, dtor>>

\* ... or leave, when the server stops and nothing is queued.
Leave(w) ==
  /\ MutexFree /\ queue = <<>> /\ stop
  /\ Goto(w, "test", "exit")
  /\ UNCHANGED <<conn, closes, queue, listening, stop, acceptor, held, serving, dtor>>

\* It does not hold: block ...
StartWait(w) ==
  /\ MutexFree /\ queue = <<>> /\ ~stop
  /\ Goto(w, "test", "blocking")
  /\ UNCHANGED <<conn, closes, queue, listening, stop, acceptor, held, serving, dtor>>

\* ... and release the mutex.
Wait(w) ==
  /\ Goto(w, "blocking", "asleep")
  /\ UNCHANGED <<conn, closes, queue, listening, stop, acceptor, held, serving, dtor>>

\* Condition variables wake spuriously.
Wake(w) ==
  /\ Goto(w, "asleep", "test")
  /\ UNCHANGED <<conn, closes, queue, listening, stop, acceptor, held, serving, dtor>>

\* handle() answers, or gives the peer up; the fd is closed.
Handle(w) ==
  /\ Goto(w, "handle", "test")
  /\ Close(serving[w])
  /\ serving' = [serving EXCEPT ![w] = None]
  /\ UNCHANGED <<queue, listening, stop, acceptor, held, dtor>>

WorkerQueues(w) == Pop(w) \/ Leave(w) \/ StartWait(w) \/ Wait(w)

Worker(w) == WorkerQueues(w) \/ Handle(w)

-----------------------------------------------------------------------------
(* The destructor.                                                         *)

DtorStep(from, to) == dtor = from /\ dtor' = to

SetStop ==
  /\ DtorStep("idle", "shut")
  /\ stop' = TRUE
  /\ UNCHANGED <<conn, closes, queue, listening, acceptor, held, at, serving>>

\* shutdown() and close(): the kernel drops what has not been accepted.
Shut ==
  /\ DtorStep("shut", "join accept")
  /\ listening' = FALSE
  /\ conn' = [c \in Conns |-> IF c \in Backlog THEN "reset" ELSE conn[c]]
  /\ UNCHANGED <<closes, queue, stop, acceptor, held, at, serving>>

JoinAcceptor ==
  /\ acceptor = "exit"
  /\ DtorStep("join accept", "notify")
  /\ UNCHANGED <<conn, closes, queue, listening, stop, acceptor, held, at, serving>>

\* notify_all(), without the mutex: a worker that is blocking is not asleep yet.
NotifyAll ==
  /\ DtorStep("notify", "join workers")
  /\ at' = [w \in WorkerThreads |-> IF w \in Waiters THEN "test" ELSE at[w]]
  /\ UNCHANGED <<conn, closes, queue, listening, stop, acceptor, held, serving>>

JoinWorkers ==
  /\ \A w \in WorkerThreads : at[w] = "exit"
  /\ DtorStep("join workers", "drain")
  /\ UNCHANGED <<conn, closes, queue, listening, stop, acceptor, held, at, serving>>

Queued == {queue[i] : i \in 1 .. Len(queue)}

\* Connections still queued are closed.
Drain ==
  /\ DtorStep("drain", "done")
  /\ queue' = <<>>
  /\ closes' = [c \in Conns |-> IF c \in Queued THEN closes[c] + 1 ELSE closes[c]]
  /\ conn' = [c \in Conns |-> IF c \in Queued THEN "closed" ELSE conn[c]]
  /\ UNCHANGED <<listening, stop, acceptor, held, at, serving>>

Destructor == SetStop \/ Shut \/ JoinAcceptor \/ NotifyAll \/ JoinWorkers \/ Drain

-----------------------------------------------------------------------------

PortNext ==
  \/ \E c \in Conns : Connect(c)
  \/ Acceptor
  \/ \E w \in WorkerThreads : Worker(w) \/ Wake(w)
  \/ Destructor

\* Threads that can run do run, and poll() times out.  Nobody has to stop the
\* daemon; and a client that does not read may hold a worker for good, for recv()
\* has a timeout and send() has none.
Fairness ==
  /\ WF_portVars(Acceptor)
  /\ \A w \in WorkerThreads : WF_portVars(WorkerQueues(w))
  /\ WF_portVars(Shut \/ JoinAcceptor \/ NotifyAll \/ JoinWorkers \/ Drain)

PortSpec == PortInit /\ [][PortNext]_portVars /\ Fairness

-----------------------------------------------------------------------------
(* Properties.                                                             *)

\* Every variable holds a value of its kind, and the queue keeps to its bound.
PortTypeOK ==
  /\ conn \in [Conns -> {"new", "backlog", "accepted", "queued", "handled", "closed", "reset"}]
  /\ closes \in [Conns -> Nat]
  /\ queue \in Seq(Conns) /\ Len(queue) <= MaxQueued
  /\ listening \in BOOLEAN /\ stop \in BOOLEAN
  /\ acceptor \in {"test", "poll", "accept", "push", "exit"}
  /\ held \in Conns \cup {None}
  /\ at \in [WorkerThreads -> {"test", "blocking", "asleep", "handle", "exit"}]
  /\ serving \in [WorkerThreads -> Conns \cup {None}]
  /\ dtor \in {"idle", "shut", "join accept", "notify", "join workers", "drain", "done"}

\* Who holds an accepted connection: the accept thread, the queue or a worker.
Owned(c) == held = c \/ c \in Queued \/ \E w \in WorkerThreads : serving[w] = c

\* An accepted connection has exactly one owner until it is closed, and is closed
\* exactly once, refused, served or left over: no two workers serve it, it is not
\* queued while it is served, nobody drops it open, and none is owned when the
\* destructor is done; and no more wait than the queue's limit (in PortTypeOK).
OneOwner ==
  /\ PortTypeOK
  /\ \A c \in Conns :
       /\ closes[c] <= 1
       /\ Owned(c) => closes[c] = 0
       /\ conn[c] \in {"accepted", "queued", "handled"} => Owned(c)
  /\ dtor = "done" => \A c \in Conns : ~Owned(c)
  /\ \A v, w \in WorkerThreads : serving[v] = serving[w] /\ v # w => serving[v] = None
  /\ \A i, j \in 1 .. Len(queue) : queue[i] = queue[j] => i = j
  /\ \A w \in WorkerThreads : serving[w] \notin Queued \cup ({held} \ {None})
  /\ held \notin Queued

\* handle() always ends, in worker w.
ComesBack(w) == []<>(at[w] # "handle")

\* A queued connection is taken up as long as one worker still comes back, though
\* clients hold all the others: no wake-up is lost between the accept thread and
\* the workers, however many of them are busy.
Served ==
  (\E w \in WorkerThreads : ComesBack(w))
    => \A c \in Conns : conn[c] = "queued" ~> conn[c] # "queued" \/ stop

\* What the destructor's comment says of its unlocked notify_all(): the wait's
\* predicate is tested again before a worker blocks, so no worker misses it and,
\* if no client holds one, the joins return.
DestructorReturns ==
  (\A w \in WorkerThreads : ComesBack(w)) => (stop ~> dtor = "done")
=============================================================================

# FeedMyFM in TLA+

FeedMyFM receives a whole slice of the FM band with one SDR, demodulates up to
64 stations at once, and serves them to browsers. A C++ daemon (`rx/`) owns the
radio: it captures, channelizes, decodes, and sends every station's PCM as UDP
datagrams; its HTTP port serves status, scans and configuration. A Python
process (`webui/`) relays the PCM to listeners (WebSocket or AAC) and proxies the
administration. Both are real-time programs full of threads, locks, deadlines and
queues, with few tests that interleave them. This directory models them in TLA+,
checks the models with TLC, and proves what matters most with TLAPS.

Paths below are relative to the repository root; line numbers are those of the
commit this was written against. `PROJECT.json` maps every definition to its lines.

## 1. Inventory

### The daemon

| Component | State | Operations | Interacts with |
|---|---|---|---|
| **SDR source** `rx/src/pluto_source.hpp` | pool of six block buffers (`kPoolDepth`; `m_free`, `m_ready`, `m_current`), overruns, `m_link_up`, `m_rx_phy`, `m_gain_cmd` | reader thread: refill, queue, reconnect with silence; `next_block()`; `set_hardware_gain()`, attribute reads; destructor | real-time loop (blocks), status workers (attributes), libiio |
| **Real-time loop** `run_live()`, `rx/src/main.cpp:452-921` | live set, gate, AGC, meters, status cadence | per block: peak scan, AGC, band scan, gate, channelizer, pool, status publication | everything in the daemon |
| **Front-end AGC** `main.cpp:794-849` | `agc_gain`, EMAs, warm-up, interval | attack/release with a floor and a ceiling | source, loop |
| **Station pool** `rx/src/station_pool.hpp` | generation, done count, stop | `run_block()`, worker, destructor | loop, stations |
| **Listener-gated decode** `rx/src/active_set.hpp`, `main.cpp:568-581, 873-898` | mask and its time, `live_mask_seen` | `POST /active`, `effective()`, per-block synchronisation, fail-open | relay, channelizer, pool |
| **HTTP server** `rx/src/http_server.hpp` | listening socket, bounded queue, workers | accept, queue or refuse, serve, stop | browsers, relay, admin proxy |
| **Band scan** `main.cpp:596-645, 769-786`, `spectrum.hpp`, `scan.hpp` | request and done counters, accumulation, published PSD | `GET /api/scan`, accumulate, publish | HTTP workers, loop |
| **Admin routes** `rx/src/admin_routes.hpp` | the two YAML files, the running plan | GET, validate, PUT, active plan | files, watch, proxy |
| **Config watch** `main.cpp:57-123` | stamps of the files | watch thread, re-exec | files, daemon |
| **Plan resolution** `resolve.hpp`, `plan.hpp`, `yaml.hpp` | none (a function of the two files) | derive channelizer, bins, ports, limits | admin routes, `main()` |
| **Channelizer** `channelizer.hpp` | filter history, active bins | `set_active()`, process | loop, stations |
| **Station chain** `mono_station.hpp`, `stereo_decoder.hpp`, `dsp_util.hpp` | squelch, mute, AGC, high-cut, AFC, metrics | per block chain, `mark_idle()` | pool, UDP, status |
| **RDS decoder** `rds_decoder.hpp` | shift register, sync, groups, PS/RT | bits to groups to text, snapshot | station chain, status |
| **UDP audio** `udp_sink.hpp` | frame accumulator | push, send | station chain, relay |

### The web side

| Component | State | Operations | Interacts with |
|---|---|---|---|
| **Relay: stations, PCM listeners** `webui/relay.py:510-861` | station list, formats, subscribers, bounded queues | refresh, apply a station list, datagram, subscribe | daemon status, UDP, listeners |
| **Relay: decode gate** `relay.py:141-187, 409-507` | lingering ports, dirty event | push loop, linger timers | `POST /active` |
| **Relay: AAC encoders** `relay.py:243-406`, `aac_encoder.py` | encoder per station, listener queues, idle timers | acquire, feed, release, teardown | executor, listeners |
| **Admin proxy** `webui/routes/admin.py` | session | forward GET/PUT, refresh after a save | daemon admin routes, relay |
| **Listener and admin pages** `webui/static/js` | player state machine, editor state | reconnect, jitter buffer, save | relay, proxy |

### How they meet, and what is hard

* **Reader and loop** share a pool of six buffers: the reader recycles the oldest queued
  block under overload, and must never take the one in use. It feeds silence while
  the device is away, because the loop has no other clock.
* **Loop and station workers** alternate a serial section and a parallel one over
  the same arrays, block after block, on condition variables.
* **Relay and daemon** agree on which stations to decode by POSTs that may be
  lost, repeated, or handled long after the client gave them up, with either side
  restarting. A wrong order silences a listener.
* **HTTP threads and the destructor**: a descriptor handed from thread to thread
  must be closed once, and a shutdown waits for the joins.
* **Scan handlers and loop** communicate by two counters and a published array;
  overlapping requests restart one another, against a timeout.
* **Gain writes, status reads and reconnects** contend for the phy channel; a
  context is destroyed while pointers into it exist.
* **Config saves, the watch, the re-exec and the relay's refresh** form a loop of
  four asynchronous steps over two files.
* **Relay coroutines** interleave at every `await`: a station list is applied
  while listeners come and go and encoders run in an executor.

`PROJECT.json` lists these as hazards at their lines, each with the properties
that would catch it, or the reason none does yet.

### What makes each component correct

| Component | Correct when |
|---|---|
| SDR source | no buffer leaks or is shared; order kept; drops counted; never stalls; shuts down |
| Station pool | each station once per block, never in a serial section; no lost wake-up |
| Decode gate | a listener's station is decoded within a bounded time, whatever is lost; unlistened ones are not |
| HTTP server | one owner and one close per connection; queued is served; the destructor returns |
| Band scan | answers are whole and fresh; refusal only for a real stall; always an answer |
| Front-end AGC | no use after destruction; reconnect seeds the last gain; the loop never waits |
| Admin/watch | what is on disk resolves; an edit is always picked up; the relay ends with the new plan |
| Plan resolution | a plan that is accepted is one the chain can run; stations in it do not depend on each other; nothing is lost without a finding |
| RDS | what is shown was transmitted; groups are never mixed; sync is lost and found, and never taken where there is none |
| Station chain | mute and squelch never stick; the hang is honoured; noise never tunes the mixer |
| Relay | subscribers follow the station list; the queue keeps the newest; every stream ends; an encoder is closed once, never while it runs |

## 2. Order of work

From the behaviour everything hangs on outwards:

1. `SampleSource`: the capture path.
2. `StationPool`, with `BlockBarrier` as its abstract specification.
3. `DecodeGate`: relay, network, daemon and loop in one module.
4. `HttpServer`, 5. `BandScan` (the handlers and the loop), 6. `GainControl` (loop,
   source, reconnect, status reads).
7. `AudioRelay`: `_apply_active_stations()` with its awaits, twice at once, against
   websockets and AAC responses.
8. `ConfigReload`: the two files under saves, an editor, the watch, `execv()`, start-up.
9. `PlanResolution`: what the two files resolve to.
10. `RdsDecoder`, with its block code in `RdsCode`.
11. `StationControl`: what decides in a station's chain.

A module named `...Proofs` holds the theorems of the module it is named for, an
`MC...` module the values of its constants that a `.cfg` cannot write. Three hold those of
two modules that meet in one part of the daemon: `StatusPortProofs` (`HttpServer` and
`BandScan`), `FrontEndProofs` (`PlanResolution` and `GainControl`) and
`StationChainProofs` (`StationControl` and `RdsDecoder`).

## 3. The modules

### SampleSource — the capture path

`free`, `ready`, `current`, `filling` are `m_free`, `m_ready`, `m_current` and the
reader's local `buf`; `content` says which block a buffer holds and whether it came
from the device. The reader's control points (`reader`) are the gaps between its
lock operations: `ReaderHead` (the tests of `m_stop`), `RefillOk`/`RefillFail`,
`TakeBuffer` (`TakeFree` or `DropOldest`), `Fill` (outside the lock), `Push`, and
in `reconnect()` `StillAway`/`Reopened`. The consumer's are `NextBlock`, `Wake`,
`Process`, `Shutdown`, `Joined`. Sample values are abstracted; order,
ownership and counters are kept. `produced` and `delivered` are history.

The last resort of `take_buffer()`, allocating a buffer, is not an action:
its condition is never met with two buffers or more (`NeverAllocates`), so leaving
it out loses no behaviour.

### StationPool and BlockBarrier

`BlockBarrier` is what `run_block()` promises: serial section, every station once,
serial section. `StationPool` is the code: generation counter, done counter, two
condition variables, the slices by integer division. A critical section of `m_mtx`
is one action; the test of a wait predicate and going to sleep are one, since the
wait releases the mutex as it blocks; a notification outside the mutex is a step;
any sleeper may wake spuriously. `ImplementsBarrier` is the refinement.

### DecodeGate — relay, network, daemon and loop

The relay's half has the subscriptions, the linger timers, `_dirty` and the push
loop; the daemon's half the two relaxed atomics of `ActiveSet` (stored in either
order), the two loads of `effective()`, the loop's `live_mask_seen`,
`station_live` and the channelizer's copied bins. Between them POSTs that may be
lost, or handled at any time within `PostLife` ticks though the client gave up.
Either process may restart at any time. `silent` is history: how long a station
someone listens to has not been decoded.

### HttpServer

The accept thread, queue, workers and destructor, with the descriptor of each
connection followed from hand to hand. `MutexFree` keeps others out while a worker
is between the test of its predicate and its sleep ("blocking"); the destructor's
store and `notify_all()` do not take the mutex, and so may come there. Parsing,
routing and replying are one action, `Handle`. The socket is bound and listening at the
start: a constructor that cannot bind or listen says so and starts no thread, which is
left out.

### BandScan

`Request`, `Complete`, `Sleep`, `GiveUp`, `Copy`, `Reply` are the handler;
`Block`, `Publish`, `Done` the loop's part of a block. `Tick` is the length of a
block, in which the loop processes one block, or none when the source stalls;
`stalled` is history. The PSD is abstracted to the request it answers and the
number of blocks in it.

### GainControl

The reader's retire, destroy, open, seed, publish around a reconnect; the control
law over a signal that goes wherever it likes (`level`); the write to the chip and
its record as two steps; attribute reads that hold the channel as long as they
like. `m_phy_mtx` is `holder`; sections of the reader that do nothing else under it
are one action.

### AudioRelay — a station list is applied while listeners come and go

`refresh_once()` is run by the poll every few seconds and by the admin proxy after
a save, so two may be under way (`refresh[Poll]`, `refresh[Save]`), each with the
list it fetched and the sets of ports it computed before its awaits. All of the
relay runs on one event loop: `turn` names the refresh that is between two awaits,
and nothing else of the relay steps meanwhile. The sections of
`_apply_active_stations()` (codec flip, removed, kept, added) are the `todo` set,
visited in order; the ports within a section come in any order, as from a Python
set.

* A loop over websockets (`close`) is an iterator over the set object it fetched, held
  across the await of each `close()`: `who` is still to come, `may` may come (a websocket
  that joined lands in a slot the loop has passed or not; when the table is rebuilt, so
  may the others), `grown` is the difference in size. If the size is another at the next
  step, Python raises (`CloseRaises`), the exception is logged and the rest of the apply
  is lost. If a websocket has come for one that went, the size is the same.
* `own` says that the map still holds that object. The loop over a removed station's
  websockets has taken it out first; any other loses it when another refresh puts a new
  set in its place or removes the port (`Detach`). From then on nobody joins or leaves that
  object: the loop goes on, and replaces the newer set, drops the encoder and commits its
  own, possibly older, answer.
* `self._active[port]` is a `KeyError` when another refresh has removed the port, in the
  comparison (`VisitKept`) and in the log line after the closes and the drop
  (`CloseEnds`): the rest of the refresh is lost too.
* `station_audio()` looks the station up, awaits the accept and `stream_info`, and
  then subscribes: `Open`, then `Subscribe` or `GiveUp`.
* `station_audio_aac()` subscribes with no await in between (`Tune`): it stops the
  linger, and makes an encoder unless there is one. A client that goes before the
  generator has begun leaves its subscription behind ("leaked"), until the station is
  dropped: `StreamsAreFed` tells such responses from open ones, and excepts by name an
  encoder that only they hold. The last response to leave arms the linger (`Unlisten`), whose timer
  (`LingerExpires`) tears the encoder down; `drop` ends what a refresh removes.
* What is pushed to the pages is an await and nothing else: the pages are left out.

`EventuallyCurrent` promises that the relay ends with the daemon's list only if
fetches stop failing and websockets stop joining: with a websocket that joins and
leaves at every close, a refresh can raise for ever. An abandoned codec flip is not
taken up again, because `listener` already has the new codec: its websockets stay
until they leave. Left out are the UDP sockets and the audio; among what that hides is a
station whose removal was begun by an apply that then raised: it stays in `_active`
without a transport, and no later apply that keeps it opens one. Of the encoders,
the frames, their queues and the executor are left out, and so is the format an
encoder is made with: see section 4 for what the code leaves open there.

### ConfigReload and MCConfigReload — the two files

`text` and `stamp` are what the two files hold and what `stat_file()` says of them;
every write leaves another stamp (size and nanoseconds of the last change; two
writes of one size in one tick of the clock are not told apart by the code, and are
not modelled). `proc` is where `main()` is, with `plan` what it has read: `resolve()`
reads the files one after the other, in an order C++ leaves open. A file is read in
one step. `watch` is the watch thread, with its stamps and what it has read. `put`
has a PUT for each worker: `Accept` reads the other file and validates,
`Truncate` and `Write` are the two halves of `write_inplace()`, each of which may
fail; a draft that is refused changes nothing and is no action. Two workers may hold the
same file, each writing from its start: the shorter leaves the tail of the longer
(`Over`, `Mixed`). `Boot` is `execv()` or a crash: every thread ends where it is, a
half-made save included. Which pairs resolve is the parameter `Resolving`; the texts
are otherwise opaque. `overlooked` and `orderly` are history.

`EditsPickedUp` excepts two cases by name, as the code cannot promise them: an edit
between `main()`'s reading of the files and the first stamps of the watch, which the
watch takes for old; and an `execv()` that failed, after which the stamps are up to
date and nothing tries again. `OrderlySaves` excepts saves that overlap (two drafts,
each valid with the file the other replaces), saves that fail or are cut short, and
the editor.

### PlanResolution and MCPlanResolution — what the two files come to

`resolve_text()` is a function of two texts. The state is the two files, parsed, and
the actions are edits: a value of `config.yml` (`EditConfig`), a value of a station,
a station more or less. `ConfigOk` and `ListOk` are the refusals of the two halves in
the code's terms, `StationOk` those of each station that is kept; `Planned` is the
plan, `findings` what is reported beside it. All arithmetic is the code's, in integer
Hz, with the truncations of its divisions; levels the code holds as floating-point
numbers are whole here, and the one comparison of such (the loop of the PLL) is scaled.
`RdsFront`, `RdsDecim`, `sym_len` and `m_step` are what the constructors of the RDS
decoder and the UDP sink make of a plan, which they take on trust: `ChainFits` says it is
theirs to trust.

`Kept` filters a list by the places it keeps, in their order (`Rank`, `Nth`), so that the
proofs can speak of it.

`Resolves`, `Planned` and `findings` were compared with the compiled `resolve.hpp` on
18,846 pairs of files, all that edits of the first two of the run's three reach, with no
difference.

### RdsCode, RdsDecoder and MCRdsDecoder — bits to text

`RdsCode` is the (26,16) code as the code computes it, bit by bit, at its real size;
`LongDivision` is the same remainder by the definition of polynomials. `RdsDecoder` is
the decoder behind it and the station before it. `air` is the station: what it sends,
which segment, which bit; `may` what may still go wrong. A bit is `Clean`, wrong
(`Error`), lost or doubled (`Slip`), noise that happens to match an offset word
(`FalseMatch`), or within a fade; after the last of a group the station may go on to
another message. `block_sync_push()` is `Acquire`, with the matches of the last 130 bits,
and `Track`, with the flywheel; `on_group()`, `put_ps()`, `put_rt()`, `put_ptyn()` and
`parse_ct()` are operators of their names; `snapshot` is what the status port reads.
`heard` and `sent` are history. Sizes are constants: a block of two bits has every
position the synchroniser tells apart (in a block, at its end) and leaves its arithmetic
as it is. The identity, the flags, the programme type and the health figures are left
out: the last good block decides each of them.

### StationControl and MCStationControl — what decides in a station's chain

One action is one block: `Process`, in the order of `MonoStation::process()`, each step
reading what those before it have just set (`Metrics`, `Squelch`, `Afc`, `Multipath`,
`Stereo`, `Emit`), or `MarkIdle` when nobody listens. What the block measures
(`Signal`: the squelch metric, the SNR, whether there is a carrier and where, the ripple,
the pilot and its coherence, the level) is the environment's choice. One-pole averages
go half of the way, rounded towards their target; thresholds, windows, clamps and what
renews or freezes what are the code's. A block that fills no audio frame returns early,
as the code does. `dead` and `pulled` are history.

## 4. What is checked

Passing runs. Bounds are the constants of each `.cfg`.

| Run | Instance | Shows |
|---|---|---|
| `sample_source` | three buffers, six blocks | ownership (`PoolPartition`, `BlockStable`), exact accounting (`BlocksAccounted`), order; the loop never starves, shutdown ends |
| `station_pool` | five stations on three threads, three blocks | no work in a serial section, each station once, no lost wake-up, refinement of `BlockBarrier` |
| `decode_gate` | two stations, two listeners, one POST under way beside the client's wait; timers of one tick, fail-open of three | silence is bounded; copied bins follow; a listener is served; the unlistened are gated |
| `http_server` | four connections, queue of one, two workers | one owner and one close per descriptor; what was queued is taken up while one worker still comes back, though a client may hold the other |
| `band_scan` | three workers, scans of two blocks, timeout of five, four requests | answers are fresh and whole, refusals are honest, every request is answered |
| `gain_control` | two pollers, gains 1 to 4 by steps of 2 | no use after destruction, the chip has the recorded gain while it is published, the loop never blocks |
| `audio_relay` | one port in two formats or absent, two codecs, two refreshes, one listener, two changes of plan | no dead websocket in a fan-out; an open response has its encoder with no timer against it, and an encoder without one lingers or is held by a response that never began; the relay ends with the plan served |
| `config_reload` | two workers, a short and a long text of which one pair does not resolve, three saves or edits | saves in order leave files that resolve; a restart has its edit; edits are picked up |
| `plan_resolution` | the configurations of `rx/tests` and `deploy/`, one of a single channel, and every pair of files two edits away, with values on both sides of each limit | an accepted plan is sound and fits the chain, stations are independent, settings are merged key by key, nothing vanishes |
| `rds_decoder` | seven programmes (0A, 2A, 2B, 4A, 10A, others in versions A and B), each with the mishaps it is exposed to | what is shown was sent, groups are not mixed, locks are true, the message arrives; the block code detects what its definition says |
| `station_control` | twelve plans, four signals (strong, fading, between the thresholds, noise) | the hang, the freeze of the AFC, and that the chain settles |

Why the bounds are enough:

* The pool has six buffers (`kPoolDepth`, `pluto_source.hpp:76`). Three are the fewest with
  one being filled, one queued and one in use at the same time; more only lengthen the
  queue. The theorems hold for any pool of two or more. Six blocks fill a pool of three,
  drop from it, empty it and fill it again, on both sides of a link loss.
* In `station_pool`, three blocks let a worker be late for one and early for the next,
  and the destructor meet every phase.
* Five stations on three threads give slices of unequal length.
* One slot for a POST that lingers, beside the client that goes on, is one old set
  that can overwrite a new one; a second changes only which. `WordSize = 3` leaves
  the mask a bit that is no station, as long as there are fewer than 64 stations.
  `SilenceBound`, the longest silence (`PostLife + FailOpen + 1`), caps the history.
* A queue of one and two workers reach full, empty and busy in every combination;
  four connections are one each for the queue, both workers and the refusal.
* `band_scan`'s timeout is the smallest for which `RefusalIsHonest` holds with three
  workers (`W*(F-1)+2`): with one tick less, TLC finds an early refusal.
* A step of 2 over four gains reaches both clamps; an interval and a warm-up of two
  blocks let the law act within them (a hard clip) and after them.
* The sections of an apply meet only through the listeners of one port at
  a time, so one port and one listener, which leaves and comes back as a new one,
  websocket or response, meets its own timer and every refresh; two changes of plan are what it takes for one refresh to
  remove a port that another keeps. The proofs are for any number of each.
* Two overlapping saves and an edit beside them are what it takes to break a pair, mix
  a file, or be late for the watch; the proofs are for any number.

* Two edits are what it takes to have one setting right by itself and wrong with
  another; the values stand on both sides of each limit, and the frequencies at the
  edges of the span, of a bin and of the Nyquist seam.
* Blocks of two bits, a name of four characters, a text of eight, three bad blocks for
  a loss of sync: the decoder sees every alignment of a block with its place, a group
  with every subset of its blocks lost, a bank with every order of segments. The
  mishaps are bounded per programme: each can befall any bit. Three chance matches are
  one fewer than an anchor takes. `RdsCode` is at full size: every burst of up to ten
  bits at every place, and eighteen data words, which span all by linearity.
* A hang and a warm-up that the block does not divide, a decimation it does not divide
  either, four signals in any order: every threshold is crossed both ways. Figures
  average over a handful of values, so every one is reached from every other.

`CHECK_DEADLOCK FALSE` stands in the configurations of systems that may stop: the
reader at its bound or once told to, a relay that is gone for good, a server that
has been destroyed, an editor at its last edit.

### Where the code and its comments disagree

One run checks what a comment says, and finds it violated:

* `http_server_stop` — *the destructor's comment says the unlocked `notify_all()` is
  race-free* (`http_server.hpp:296-297`). A worker that has tested its predicate and
  not yet slept misses both the store and the notification; the join then waits
  for good, and with it the shutdown. (A re-exec joins nothing.)

The rest was met on the way and has no run; the modules contain the behaviour where a
module is named.

Relay:

* *The reconnect gets the correct, current stream_info* (`relay.py:719-722`). A websocket
  whose station was looked up before the new list took effect, and which subscribes after
  the apply has passed its port, goes on under the old format (`AudioRelay`: `Open`,
  `CloseEnds`, `Subscribe`). An AAC response that returns while the apply awaits the close
  of another port has an encoder made for the old format in the same way, or one for a
  station that is about to go.
* *Open pages are told to reload rather than keep working off a stale station list*
  (`relay.py:672-673`), but before the list changes: a page that is quick is rendered
  from the old one, and nothing tells it again.
* *It must run on one thread at a time* (`aac_encoder.py:52-54`, of an encoder):
  `teardown()` closes it on the event loop while `feed()` may be running in the executor;
  cancelling the task does not wait for it (`relay.py:345-354`).
* *An encoder exists only while a response is open* (`relay.py:245-247`), and *is torn down
  with the last* (`listener.py:178-180`): the subscription is made before the generator
  starts, so a response whose client left before its first step never runs its `finally`,
  and holds the encoder until the station is dropped (`AudioRelay`: "leaked" in `Tune`).
* *End every open audio.aac response* (`relay.py:312`): not one whose queue is full.
* A prime backlog set above the length of a queue (`FEEDMYFM_AAC_PRIME_FRAMES` over 256)
  makes `subscribe()` raise after the subscription was entered (`relay.py:289-293`).
* *The daemon serves the new plan the instant the PUT returns* (`admin.py:84-85`); it
  serves the running plan, which changes only after the re-exec.

Daemon:

* *An edit that does not resolve is logged and ignored, the receiver stays up*
  (`main.cpp:71-72`). The watch resolves the files, and the image it re-executes reads them
  again: what has changed in between, or been truncated by a save, ends the receiver. If
  the re-exec itself cut the save short, the file stays empty, and so does every restart
  (`ConfigReload`).
* *A dropped gain write is re-issued* (`pluto_source.hpp:107-108`). The loop calls only when
  the law moves the gain, and it has moved it already: dropped at the floor, the write
  never comes again however long the signal clips (`GainControl`).
* *503 means the link is down or the receiver stalled* (`main.cpp:636-637`), but
  requests restart one another: four in a row delay the first by four scans, against
  a timeout of one scan and 2.5 s. `RefusalIsHonest` needs a timeout of at least
  `W*(F-1)+2` ticks; `average_ms` above 833 falls short of it, and 15000 is accepted.
* *The only reader is the watch thread* (`admin_routes.hpp:55-56`); a save and a
  validation of one file read the other, and a new image reads both.
* *The peak scan is skipped while the link is down* (`main.cpp:794-795`), but the flag
  is read after the block was taken: silence queued when the link returns is measured.
* *No effective set can equal the sentinel* (`main.cpp:577-580`) holds for up to 63
  stations. At 64 one does, which is why the theorem about it assumes
  `NStations < WordSize`; the fail-open and the next change still put it right.

Station chain and RDS:

* *`afc_hz` is 0 while squelched* (`README.md:756-758`, `mono_station.hpp:335-338`): it holds
  its last value (`StationControl`: `Afc`).
* The warm-up is counted down where the AFC runs, and there only: with `fm.afc: false` it
  never ends, and the high-cut never engages (`mono_station.hpp:697`). `Settles` asks for it
  of stations with AFC.
* The high-cut is said to go from its floor at 10 dB to wide open at 30 (`README.md:625-626`);
  the code has 30 and 52 (`mono_station.hpp:847-848`). Multipath is said not to be wired into
  the blend yet (`README.md:644`); it is.
* A programme name is confirmed segment by segment, so that a change of name can publish
  a mix of the old and the new until the next segment (`RdsDecoder`: `put_name`);
  `ShownIsSent` speaks of stations that have not changed theirs.

Plan resolution (`PlanResolution` has each):

* Channel and intermediate rates are integer divisions whose remainder is dropped:
  `audio.rate: 85333` from 512000 is accepted, and taken as exact from there on.
* `audio.stop_bandwidth` is documented as greater than `bandwidth`, and a fine-mix offset
  beyond half a bin as an error (`README.md:535-536`); neither is checked.
* *No stations fall within the receiver span* is documented as an error (`README.md:540`),
  and is a finding; a station exactly on the upper edge of the span is not left out as one
  beyond it is, but refused.
* Numbers are truncated to 32 bits as they are read (`yaml.hpp:90`): a port of 2^32 + 13000
  passes. A `stations:` that is no sequence reads as an empty one.
* The third station in a bin is compared with the first only.
* *So the seam at the wrapped Nyquist bin is handled correctly* (`resolve.hpp:86-87`): not
  with one channel, where every bin wraps. A station above the centre is tuned in bin 0, one
  at or below it is taken for the bin a whole sample rate lower, and refused.

### Fairness

Every assumption is on a thread that does not wait for the other side.

* `SampleSource`: the reader (libiio calls time out) and the loop. Nothing makes the
  device come back, nothing makes an operator stop the daemon.
* `StationPool`: each worker, and the loop inside `run_block()`. The next block need
  not come.
* `DecodeGate`: the loop, the relay's timers, a handler that has begun. `TimePasses`
  says that time goes on: ticks that change something keep happening, or a tick
  would change nothing. It is not a weak fairness condition on `Tick`, because what
  is due before a tick can keep coming; each tick can always be completed.
* `HttpServer`: accept thread (`poll()` times out), workers at the queue, the destructor
  once begun. `Handle` is not fair: `recv()` has a timeout and `send()` has none
  (`http_server.hpp:341-343`), so a client that does not read holds its worker. `Served`
  asks that one worker, no matter which, keeps coming back (`ComesBack`);
  `DestructorReturns`, whose joins wait for all, that all do. A stop need not come. `Wake`
  (spurious) is not fair, so no property rests on it.
* `BandScan`: the loop, the clock, the handlers. A scan need not be asked for.
* `AudioRelay`: strong fairness of the two refreshes: the event loop serves ready
  callbacks in turn, and a close, an endpoint and a fetch end or time out; a refresh
  is not ready only while another runs, so it is ready again and again. The poll
  begins anew each time; nobody has to save.
* `RdsDecoder`: bits go by without end (`air.phase` leaves zero and returns to it again and
  again), and a fade ends. Mishaps are bounded by `may`, so they end as well.
* `StationControl`: the loop never stops, so there is always another block. That a signal
  stays, and that somebody listens, is the premise of `Settles`.
* `ConfigReload`: `main()` and the supervisor that restarts it, the watch, and each
  save once accepted. Nobody has to save, and a crash need not come.
* `GainControl`: the loop and its own writes. Nothing of the reader or the pollers,
  which is the point of `LoopNeverBlocks`.

## 5. What is proved

The proofs hold for every value of the constants that meets the module's
assumption: every number of buffers, stations, threads, listeners, POSTs, workers,
pollers and websockets, and every timeout.

* **`SampleSourceProofs`**: `PoolConserved`, `AccountsExact`, `NeverAllocates`,
  `DropsOnlyWhenBehind`, `BlockIsStable`, `DeliveryIsOrdered`; and of what must happen
  `ShutdownTerminates`, `LoopNeverStalls` (see below). The inductive
  invariant adds to the partition and the accounts where each thread may be with a
  buffer in hand: the reader holds one exactly between take and push, its block
  number is `produced + 1` once filled, and the consumer holds one exactly while it
  processes. Without that a step that takes a buffer could take the one in use.
  For liveness it also says that the reader is told to stop by the destructor only, and
  leaves only when told (`ThreadLives`). `LoopNeverStalls` needs one fact that is not a
  step's: a block queued for a waiting loop is not given up, because a reader that finds
  no free buffer then finds two blocks queued at least (`FedStays`).
* **`StationPoolProofs`**: `SlicesPartition` (the slices are a partition, for all n
  and all thread counts, from two facts about integer division), `SerialSectionIsSerial`,
  `EveryStationRuns`, `PoolIsBarrier`, `NobodyOversleeps`, `PoolNeverDeadlocks`,
  `EveryWorkerLeaves` (see below). The invariant ties `done` to the set of workers
  that have reported this generation, and `ran` to each worker's place in its slice.
  `PoolIsBarrier` is the safety part of `ImplementsBarrier`: under the refinement mapping
  `Post`, `Work`, the last `CheckDone` and `Destroy` are the barrier's `Start`, `Process`,
  `Finish` and `Close`, and every other step of the pool is a stuttering step.
  `NobodyOversleeps`: a worker sleeps through a new generation, or the end, only until the
  notification under way, and the real-time thread through the last report only while the
  worker that made it has yet to signal. Hence the threads never all wait for one another,
  spurious wake-ups not counted (`PoolNeverDeadlocks`).
* **`DecodeGateProofs`**: `SilenceIsBounded`, `CopyOutIsLive`, `LoopDecodesLoadedSet`
  (with `NStations < WordSize`: section 4 says why it is needed). The
  invariant bounds silence by the age of the set in force plus that of the POST it
  came from, and says that a station not decoded while listened to owes it to such a set.
* **`StatusPortProofs`**: `ConnectionsHaveOneOwner`, `QueuedIsComeFor`, `ScanIsFresh`,
  `RefusalMeansStall`.
  Of `HttpServer`, for any number of connections and workers and any queue: a descriptor is
  in one hand at a time and closed once. The invariant ties what became of each connection
  to the hand it is in (`InHand` of the accept thread, `InQueue`, which names none twice,
  `InService` of one worker), those hands to the steps that pass it on (`Hands`), and the
  destructor to threads that have left (`Joined`). `QueuedIsComeFor`, for finitely many
  workers: while one sleeps, or is about to, as many are awake and on their way to the queue
  as there are connections in it, so that the one `notify_one()` for each is enough.
  Of `BandScan`, the first invariant: what the
  loop has accumulated and what is left make up a whole scan for `seen`,
  `done <= psd.of <= seen <= req`, and the published PSD is always whole. The second
  theorem assumes a finite set of W workers and a timeout of at least `W*(F-1) + 2` ticks
  (F blocks per scan), and holds for any number of requests. Its invariant bounds what a
  handler has waited, while no block failed to come, by `F-1` blocks for each request
  after its own that started the scan over, plus what has been fed since. Two facts keep
  that count right: a request that starts the scan over still occupies its worker, and
  whoever gave up waited through a stall that all who asked before it saw too.
* **`FrontEndProofs`**: `OverridesAlwaysWin`, `ChainAlwaysFits`, `StationsAreListed`,
  `PlansAreSound`, `NoStationVanishes`, `StationsStayIndependent` of `PlanResolution`;
  `ChannelIsAlive`, `ReconnectKeepsGain`, `GainWriteReturns` of `GainControl`.
  The first hold of every pair of files, of any values and any number of stations: nothing
  is assumed of the files but that they are lists of settings and stations, whose absent
  values are told apart from present ones, and no invariant is needed, as the checks of
  `resolve()` themselves make the numbers numbers. What they rest on are lemmas about the
  definitions: a filtered list has each kept item once, in its order (`KeptOfKept` of a
  filter of a filter); the bin found is the nearest, or so far off that the station is
  refused (`NearestBin`; `OnlyBin` for one channel); a channel fast enough for the noise
  measurement gives the RDS decoder its subcarrier and 12 to 24 samples a bit
  (`RdsTiming`); a list with all the planned stations but one, in order, gives the plan
  without that one (`LeftOut`).
  Of `GainControl`, the invariant says
  which steps of the reader have the pointer published or the context open, that a
  reader or the loop inside the channel is its `holder`, and that between seed and
  publish the chip already has the recorded gain, because nobody can write.
* **`AudioRelayProofs`**: `FanOutIsAlive`, `StreamsStayFed`, for any number of stations and
  listeners. The invariant adds `Equipped`: a refresh with an answer has a plan, and
  one that closes is at a port, so that whichever sets it replaces are those of a
  station; `Closable`: what a refresh is still to close, or may, are websockets, so that none
  of its closes ends a response behind the encoder's back; and `Pooled`: a port's
  subscriptions are exactly its responses not told to end, those that never began among
  them, and its encoder is there for them or lingers. `StreamsAreFed` follows from it.
* **`ConfigReloadProofs`**: `SavesAreSafe`, `RestartsAreEarned`, for any workers, texts
  and relation `Resolving`. The invariant says, of the watch, that `read <= seen <= stamp`
  for each file and that beyond its sleep some file has grown past what `main()` read;
  of the saves, that in good order there is one at a time, whose draft resolves with the
  other file, and whose own file is untouched or empty.
* **`StationChainProofs`**: `NoiseBounded`, `HangHonoured`, `DeadAirIsSquelched` of
  `StationControl`;
  `GroupsSentWhole`, `LocksWhereGroupsEnd`, `CalendarHolds`, `ShownWasSent` of
  `RdsDecoder`.
  The first three are for any hang, any length of
  block, whether or not one divides the other, any plans and signals. The invariant ties
  what is left of the hang to the dead samples counted since the last block that opened:
  on a station with a squelch their sum is the hang at least, and the mixer has followed
  no more of them than there were. While the squelch is open the sum is the hang exactly
  (`Metered`), so that a dead channel is squelched within the hang and one block, the other
  side of `HangIsHonoured`.
  Those of the decoder are for any length of block of two bits or more, any stations,
  messages and sizes of texts, and any number of errors, slips, fades, losses of sync and
  changes of the message.
  `GroupsSentWhole`: until a chance match, four good blocks of a group are of one group
  sent. `Assembled` says that the good blocks so far have one content, and that a block
  under way, intact and counted in step, is the next of the last good one's group
  (`Current`).
  `LocksWhereGroupsEnd` assumes at most three chance matches: of the remembered matches,
  those that stand where no such block ended are no more than the chance matches spent,
  until the bit clock slips (`FewStrays`); a false anchor takes four.
  `ShownWasSent` speaks of stations without chance matches, whose clocks are of days up to
  28 February 2100 (`UntilLastDay`): every text published is one sent (RadioText, a part
  from its start), and every character of RadioText was sent at its place since the last
  clean start. Good blocks that are
  parsed after a good header are of its group even when others are bad (`Following`): the
  station moves on by at most two bits for each one received, which is too little for it to
  reach a block of the next group that could be filed with this header. From there the
  invariant (`Told`) follows each character into the banks (`NameIs`, `TextFrom`,
  `TextOf`), with what `rstrip()` and the growing prefix of a bank leave of a message, and
  the clock to the group it was computed from (`ClockFrom`).
  `CalendarHolds` is about `parse_ct()` alone (`DateOf`): `YearOf` writes a day as whole periods of four
  years, years and the days since the January before, `MonthOf` finds the month of those
  days, and `YearBegins` counts the days before a year as the calendar does. The code has
  the guard of the first day, 1 March 1900, and none of the last: a Julian day of 17 bits
  goes to 131071, and from day 88128, 1 March 2100, shown as 29 February, the dates are off.

Each module's `TypeCorrect` is proved as well. Every proof has the shape: `Init`
implies the invariant, each action preserves it (one step per action, one below it
per conjunct disturbed), the invariant implies the property. Some of what is proved has no
run of its own (`NeverAllocates`, `DropsOnlyWhenBehind`, `EveryStationRuns`,
`NobodyOversleeps`, `PoolNeverDeadlocks`, `EveryWorkerLeaves`, `QueuedIsComeFor`,
`DeadAirIsSquelched`, `LoopDecodesLoadedSet`, the type invariants; `PoolIsBarrier` is part
of a liveness property's run): TLC was asked about each before its proof.

### What must happen

`ShutdownTerminates`, `LoopNeverStalls`, `GainWriteReturns` and `EveryWorkerLeaves` are
liveness, from the fairness of section 4 (the last from that of the real-time thread and of
the worker it is about). Each is a finite chain of phases, one for each place the thread
can be at: in a phase, a step of any thread keeps it or moves it on; a step of the fair
thread moves it on; and the guard of one of that thread's actions holds, so that it cannot
block there. All of this is proved, with the inductive invariants above.

One thing is a hypothesis of these four: the provers do not look inside ENABLED, so that a
thread is enabled where the guard of one of its actions holds is assumed
(`ReaderCanStep`, `ConsumerCanStep`, `SetGainCanStep`, `MainCanStep`, `WorkerCanStep`). The
guards are written out, action by action, above each. It is a fact of the modules'
definitions, not of the program: each of those actions assigns every variable, and changes
one. TLC evaluates every one of these formulas to TRUE in every reachable state of
the instance of the module's run.

Only model-checked: the other liveness properties. Their chains have no fixed length
(`PoolCloses`, over the set of workers still to leave; `Served`, over the queue;
`EveryScanEnds`, over ticks and blocks; the gate's and the relay's, over listeners and
timers; `EditsPickedUp`, over edits and saves; `Settles`, over averages; `Arrives`, over
bits), so that they need an induction
inside a temporal proof, whose rule takes an operator as its parameter. The fairness of
`BlockBarrier` in `ImplementsBarrier` has the same reason. Of the safety properties:
`CodeDetects`, which computes remainders over bursts and words by recursion over data. Its
formula depends on the state by the position in the group only, of which there are four, so
that TLC's check is complete for the bursts, for the sample of words it takes. With
chance matches `ShownIsSent` has no theorem: a block that noise made may have any content.

## 6. What is not modelled

* Numeric signal processing (filters, demodulators, PLLs, stereo matrix, resampling, FFT,
  carrier detection): floating-point arithmetic with no control to check. What it measures
  is the input of `StationControl` and `RdsDecoder`.
* HTTP parsing and authentication, the YAML grammar, status JSON, logging, timing
  statistics: pure functions and output.
* The self tests and the centre-frequency search, which compute once and exit.
* The audio itself on the web side: datagrams, the queues of listeners and encoders (which
  drop the oldest), ADTS frames, the executor. Order and loss of audio have no state that
  outlives a frame.
* The browser's pages: driven by the audio clock and by browser events that the repository
  does not pin down.
* `BandScan` with `HttpServer`: four scans at once occupy all four workers for seconds
  (`main.cpp:627`), which `DecodeGate` sees as POSTs that are late.
* The number of the listening socket, closed while the accept thread may be about to use it
  (`http_server.hpp:288-293`), and reused by whoever opens next.
* `link_up()` read after the block was taken (`main.cpp:765`), beyond what is said above.
* A copy of the RDS strings torn by the worker that rewrites them (`mono_station.hpp:382`):
  the language leaves its outcome undefined, and `snapshot` is one step.
* Weak memory beyond the two relaxed atomics of `ActiveSet`: the other shared
  variables are under mutexes or sequentially consistent, except the RDS strings.
* Details no property tells apart: where in a group the clock's bits stand
  (`rds_decoder.hpp:679-681`; one block holds them in `RdsDecoder`), a bit inserted exactly
  between two blocks (it counts with the next), the stereo decoder's return on an empty
  block, and that the guard power is averaged before it is put in dB and not after.

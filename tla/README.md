# TLA+ models of rusty_time

rusty_time is an NTP/NTS time daemon in Rust. This directory holds TLA+ models of
its parts, TLC configurations that model-check them on small instances, and proofs
checked by TLAPS. Every definition is a translation of the code under
`src/crates/`; `PROJECT.json` gives the lines each one stands for.

## 1. The system

| Component | State it keeps | Operations | Hard part |
|---|---|---|---|
| Clock loop, `core/client.rs` (`MultiController`) | a register of samples per source, the frequency commanded, the drain and its budget, the last plan for undoing it | `observe`, `estimate`, `steer`, `revert_last_plan`, `confirm_last_plan`, `poll_drain` | the books must describe a clock that moves between, and is only commanded through, system calls that may fail |
| Sample register, `core/filter.rs` | a window over a growing array, cached weights and minimum delay | `push`, `slew_samples`, `regress` | caches that must follow every push and eviction; re-expressing history after a correction; which samples a trim may vote away |
| Discipline, `core/discipline.rs` | frequency, poll interval, burst slots, refusals in a row, the share of the last drain | `on_estimate_with_leap`, `retry_interval_s`, `acquire_share` | many early exits of one function, each with its own resets |
| Selection, `core/select.rs` | none | `select` | the sweep's majority interval, ties |
| Sync loop, `daemon/sync.rs` | the sources and their last estimates, `holding`, refusals in a row, the served and published views | `run`, `exchange`, `selected_index`, `hold_if_no_majority`, `open_source`, `renew_nts` | stale estimates, servers that die, refusals on every path |
| Clock drivers, `clock/{linux,macos,windows,slew,virtual_driver}.rs` | what the platform was set to last: tick and frequency, an adjustment, a one-shot amount | `apply`, `capabilities` | one plan in three units, clamping and truncation, a step of two calls, refusals |
| Network batching, `clock/net.rs` | reused buffers and addresses | `recv_batch`, `send_batch` and the one-at-a-time fallbacks | a reply is built from a buffer and sent to an address that are matched by position only |
| Client table, `core/server.rs` | records in an LRU list, an open-addressed index, generations, token buckets | `admit_handle`, `response_mode_at`, `note_response_at`, `note_transmit_at` | eviction while handles are held, interleaved mode |
| NTP/NTS server, `daemon/server.rs` | the table, the key ring, the served view | `ntp_serve_loop`, `build_reply_in`, `kiss_of_death` | batches, transmit times known only after sending |
| Durable store, `daemon/store.rs` | entries in memory and in a file: drift, cookies, sessions, master keys | `put_*`, `get_*`, `flush`, `load_from_disk`, `merge_from` | crash between steps, shorter batches over longer ones, merging replicas |
| NTS client session, `daemon/nts_session.rs` | keys and a jar of cookies | `protect`, `verify`, `forget_cookies`, `resume` | cookies spent and never answered |
| NTS protocol, `rusty_time-nts` | the server's key ring, a connection's records | key establishment, cookies, AEAD | a stream cut anywhere; a cookie may outlive the key that sealed it |
| Reference clocks, `core/refclock.rs`, `clock/refclock.rs` | a shared-memory segment another process writes | `sample`, `validate` | torn reads, a producer killed in an update |
| Browser client and virtual clock, `wasm/lib.rs`, `core/vclock.rs` | the request in flight, a register, offset, error bound, high water | `build_request`, `process_response`, `now_ms`, `confidence_ms` | answers late and out of order, a date set by others, eras, never backwards |
| One-shot query, `daemon/query.rs` | a resumed session, a jar, a state file | `measure`, `measure_against`, `persist_state` | errors that leave past the saving of what was spent |
| Control socket, `daemon/control.rs` | the tracking report, the connections | `publish`, `snapshot`, `serve_connection` | the report is read between two passes of a loop that goes on correcting, or that hangs |

The sync loop owns one `MultiController`, which owns the `Discipline`. Every exchange
with a source goes to `observe`; `selected_index` runs `select` on the latest
estimates; only the selected source's estimate goes to `steer`, whose plan goes to the
driver; the outcome goes back as `confirm_last_plan` or `revert_last_plan`. Two other
threads read what the loop publishes: the control socket (`Tracking`) and the NTP
server (`ServerState`), each under a mutex. Everything in the loop is one thread, so
its interleavings are those of the loop with the world: time, servers, the driver. The
durable store is opened by one command at a time (drift of the loop, session of a query, ring
of the server) and carries what it holds from one process to the next. The browser client
runs elsewhere and reaches the server's table through the gateway.

What makes the system right, part by part:

- clock loop: what the books say the clock did is what it did, and every drain is booked once;
- discipline: no frequency is learned right after a haul, bursts end, giving up is earned;
- sample register: its caches are those a recomputation would give, and it restates history as
  the clock was corrected; regression: the present is never voted away, a lone spike leaves no trace;
- selection: an honest majority bounds the error of whatever steers;
- sync loop: nothing is vouched for that did not happen, the first correction is corroborated,
  dead servers do not stop it;
- drivers: what a driver accepted is in force, as far as the platform can do it;
- client table: lookup, recency and eviction agree, output is bounded, kisses are rarer than drops;
- server: a transmit time is only told to the client, and of the reply, it belongs to; a reply
  goes to the sender of the datagram it answers;
- NTS: a cookie is spent once, a session that no longer works is renewed, a session is one
  that the server agreed to, wherever the stream was cut;
- store: what was saved is read back, whole, after a crash at any step, and a ring is never replaced;
- reference clocks: a torn sample is not used;
- browser client: a sample is as good as its delay says, whatever the network did with the answers;
- control socket: whoever is told that the clock is synchronized is told how far it may be off.

`PROJECT.json` lists the components with what is modelled of each (`components`), the lines
each definition stands for (`map`), and the hazards of the code at their lines (`hazards`).

## 2. The modules

| Module | Stands for | Uses |
|---|---|---|
| `ClockLoop` | `client.rs` `MultiController`, the driver, the hand-over in `sync.rs` | |
| `Discipline` | `discipline.rs`: what becomes of an estimate, and when to poll next | |
| `SampleRegister` | `filter.rs` `SampleRegister`: the window, its caches, `slew_samples` | |
| `Regression` | `filter.rs` `regress` as operators on a sequence of rows | |
| `Selection` | `select.rs` as operators on a sequence of estimates | |
| `SyncDaemon` | `sync.rs`, `run` | instantiates `Selection` |
| `LruOrder` | what a client table promises: the order of use | |
| `ClientTable` | `core/server.rs`: slots, list, index, free list, both limiters | shown to implement `LruOrder` |
| `NtpServer` | `daemon/server.rs` `ntp_serve_loop`, `gateway.rs` `time_exchange` | extends `ClientTable` |
| `Datagrams` | `net.rs` under the same loop: batches, fallbacks, reused buffers | |
| `NtsSession` | `nts_session.rs`, its use by `sync.rs` and `query.rs`, the cookie entries of `store.rs`, `load_or_create_ring` and the NTS answers of `daemon/server.rs` | |
| `KeyEstablishment` | `nts/ke.rs`, `records.rs` and `handle_ke` of `daemon/server.rs` | |
| `SessionStore` | what a store promises: the session last put, whole or not at all | |
| `Store` | `store.rs` as the commands use it, with kills between any two steps | shown to implement `SessionStore` |
| `StoreMerge` | `state_cmd.rs` `merge` | extends `Store` |
| `ClockDrivers` | `slew.rs` and the four drivers | |
| `ShmRefclock` | the SHM segment of `clock/refclock.rs` and `refclock_cmd.rs` | |
| `TimeClient` | `wasm/lib.rs`, `vclock.rs`, the gateway's answer | instantiates `Regression` |
| `Tracking` | `control.rs` and what `sync.rs` publishes | |
| `Estimation` | one state machine for what stands between exchanges and clock, and what its results should be | extends `Selection`, `Regression`, `SampleRegister` |
| `Positions` | the elements of a sequence at chosen positions, in their order | used by `Datagrams`, `KeyEstablishment` |
| `Estimation_proofs` | theorems about `Selection`, `Regression`, `SampleRegister` | extends `Estimation` |
| `Edges_proofs` | theorems about `ShmRefclock`, `TimeClient`, `Tracking`, `Datagrams`, `KeyEstablishment`, `ClockDrivers` | extends all six |
| `NtpServer_proofs` | theorems about `ClientTable` and `NtpServer` | extends `NtpServer` |
| the other `*_proofs` | theorems about `ClockLoop`, `Discipline`, `SyncDaemon`, `NtsSession`, `Store` | extend the module they are about |
| `MC*` | instances for TLC; `MCClockLoop` and `MCEdges` check several modules side by side | extend the modules they instantiate |

A definition whose comment begins with "mutant" is a plausible error in the definition
next to it; it is not part of the model. Each property has one, named in `PROJECT.json`, that
breaks it.

**ClockLoop.** Time is in ticks, rates in integer units a tick, measurements exact up to a
fixed bias per source. `reg`, `freqCmd`, `drainPpm`, `drainRemaining`, `lastPlan`,
`bookedUntil` and `unapplied` are the fields of `MultiController`; `theta` and `rate` are the
clock. `Measure`/`Lose` are an exchange; `ObserveOther`, `ObserveHold`, `ObserveStep`,
`ObserveSlew`, `ObserveGuarded` and `ObserveGiveUp` are `observe` followed, for the selected
source, by `estimate` and `steer`; `ApplyOk`/`ApplyRefused` are the driver's answer with
`confirm_last_plan` or `revert_last_plan`; `RetireOk`/`RetireRefused` are `poll_drain`.
An exchange may go on while a drain is due, as several do in one pass of `run`. What
the regression and the discipline decide is any choice from small sets. The variable `parted`
records which of five known causes (section 6) has made the books part from the clock.

**Discipline.** `LeapStep`, `GuardRefuse`, `GuardGiveUp`, `MakeStep` and `Slew` are the exits
of `on_estimate_with_leap`; `Apply` and `Refuse` are the driver's, `DrainSpent` the end of a
drain. The drain rate is not computed: it matters only on which side
of the trusted share it is. The integral trim is left out (its gain is zero by default). Three history
variables say what a slope may be made of: `running` that the driver drains above the trusted share,
`tainted` that it did at some time since the last estimate, `clean` how many of the newest samples of the
window no such drain parts, counted as far as `FreqMinSamples`.

**SampleRegister, Regression.** The clock is off by a line that a correction changes, and a sample
lies on the line without noise, so that what the register should hold after any sequence of
`Push`, `SyncWeights`, `Regress` and `SlewSamples` is known exactly. A weight is the pair of delays it
was computed from: a cache is stale exactly when that pair is. The regression is integer
arithmetic on cross-multiplied sums: `Fit`, `Residuals`, `WellMixed` (the runs test), `DropStale`,
`TrimSpikes` and `OffsetAt` are the passes of `regress` in their order.

**Selection, SyncDaemon.** The sweep's two scans are counts over the sorted endpoints.
`Answer` and `Lose` are `exchange` and what `run` does with its outcome; `Select`,
`SelectedOther` and `Hold` are `selected_index` and `hold_if_no_majority`; `SteerOk`,
`SteerRefused` and `SteerGiveUp` what becomes of a correction; `Expire` the ageing of the
served view, `Retire` the end of a drain, `Tick` time.

**ClientTable, LruOrder.** Pointers are slot numbers, the hash is any of a set of functions
chosen at the start, the index is the array with its probing and its backward-shift deletion.
`Admit` is the whole of `admit_handle`. `LruOrder` is a sequence of keys, most recent first;
the refinement mapping walks the linked list.

**NtpServer.** One serving thread goes through receive, lock, build (one step a request),
unlock, send, note; `Gateway` may run whenever the lock is free. Receive stamps are odd and
transmit stamps even, as `mark_server_timestamps` makes them. `told` and `sentAt` remember
what was really sent.

**Datagrams.** The same loop seen from the socket: `RecvBatch`/`RecvFrom` fill buffers and
addresses that are never cleared, `BuildReplies` reads them by position, `SendBatch`/`SendTo` say
how many left, `NoteSent` notes the transmit times of that many.

**NtsSession.** `Poll`/`Renew` are the sync loop's `exchange`, `StartQuery`, `Ask`,
`NextAddress`, `SaveQuery`, `Exhausted` and `Abandon` a run of `rtimed query --nts --state`.
A datagram carries, in place of the nonce, whether it answers the exchange going on
(`ours`). `PutCookies`/`GetCookies` keep the slots and tombstones of the store. `Restart` and
`SaveRing` are the server's `load_or_create_ring`, with a crash possible between them. The
history variables `spent`, `reused`, `lost`, `changes` and `naks` belong to the properties.

**KeyEstablishment.** `Establish`, `Unreachable`, `Connect` are the walk over the addresses;
`HandleKe`/`HandlerFails` the server's thread; `FinishKe`/`GivesUp` the client's end.
`Deliver` brings a piece of any length, two units to a record, so that a piece may end within one;
`CutOff` ends either stream anywhere. Servers of another make are any of a set of answers.

**Store, SessionStore, StoreMerge.** `CreateSalt`, `WriteSalt`, `Open` and `OpenFails` are
`Store::open`; `Resume`, `PutDrift`, `PutSession` and `StartServer` what the commands do with it;
`BeginFlush`, `TruncateTmp`, `FillTmp` and `Rename` are `flush`; `Stop` ends or kills the process
anywhere. `fields` are the declared keys, which are all that a flush writes. A sealed value
remembers the key, the passphrase and the salt it was sealed under. The refinement maps memory
and file to the sessions that could be resumed from them.

**ClockDrivers.** `Slew` is `apply` of a plan: `LinuxKnob` splits a rate in tick and frequency,
`WindowsKnob` and `MacAmount` turn it into an adjustment and a one-shot amount, with the
truncations of the code. The plans are those of a loop configured with the ceiling `OptsMaxSlew`, which the
code does not lower to the driver's: `Promised` is what the platform can do of one. `LinuxStep` is one call; `StepReads`, `Elapse`, `StepSets` are the
platforms that read the clock and then set it.

**ShmRefclock.** The producer writes one field a step (`Withdraw`, `Bump`, `Write`) and may be
killed between any two; `Attach`, `CheckValid`, `ReadFields`, `Finish` are `sample`.

**TimeClient.** `Build`, `Accept`, `Reject` are `build_request` and `process_response`, `Now` is
`now_ms`. The page may lose an answer, keep it or hand it over twice; `SetDate` is somebody else
who sets the clock, and `sets` counts how often: a request, a sample and an estimate carry what it was, so that
nothing is claimed of what was measured before the last time. `Estimates` is the fall back on the newest sample
below three and the line of `Regression` from three on, through sixteen samples at most, with weights in
sixteenths and the deviation rounded up.

**Tracking.** `Steer`, `Hold`, `Pass` and `Stall` are passes of the loop with what they publish;
`Request`, `Respond`, `Leave` a connection; `Panic` a thread that dies holding the lock. `owed` is
what of a drain the clock has not made yet, `overrun` that a stalled loop let it run past that.

## 3. What is checked

| Run | Question | Bounds, and why they are enough |
|---|---|---|
| `clock_loop`: the loop | do the books describe the clock until a named cause occurs | two sources, one biased, so that an unselected exchange can fall between a plan and its end; registers of two samples, so eviction happens; two refusals to exit; three ticks: plan, partial drain, late retire |
| the estimation | do the caches of a register follow it, what do the trims keep, is the majority found and the error bounded | registers of three under seven pushes: the dead prefix grows to its full length and is reclaimed once; all windows of up to eight offsets of three sizes, and shapes of eight to thirteen rows with one or two spikes: below eight there is one length of window, above it two; all slices of up to five estimates over a range where intervals nest, overlap and part (none merely touch: the ends of two are never equal): two falsetickers of five are the first case in which the majority interval is not that of an outvoted single source |
| the client table | order of use, index, output ceiling, kisses | four keys on three slots with hashes that collide, overlap and wrap, five requests: two evictions, or one and a return |
| `discipline` | burst cap, giving up, what the interval before an estimate teaches while the driver obeys, return to the longest poll | offsets for every branch (quiet, settling, worth a burst, beyond every limit); constants above their thresholds; a slope from the first sample on, as of a source whose window was full before it was selected |
| `haul_window` (violated) | does a slope wait until the haul has left the window | no steps, no guard, a driver that obeys; four samples to a slope, as in the program |
| `sync` | vouching, corroboration, the LAN is told, the quorum proceeds | three sources, the falseticker with the best stratum; two losses to unreachable |
| `sync_dead` (violated) | does the daemon proceed on what answers | two truthful sources |
| `ntp_server` | whose transmit time is told to whom | two clients on one slot, batches of two, three requests: eviction between build and note needs no more |
| `nts_session` | cookies spent once, one refusal a key change, keys kept with state, renewal | target two for eight and two exchanges a run for four: a full jar (three, nine in the program) is not a multiple of a run, so it can run dry in the middle of one; two master keys; one late datagram |
| `nts_query_renews` (violated) | does a query with a stored session recover from a key change | the same, without loss or interruption |
| `store_merge` (violated) | does what a merge brought reach the file | one put of either side |
| `edges`: drivers, reference clock, report, keys, net | does what crosses the daemon's edges mean what it says | commands: rates below and beyond what a frequency alone can do and beyond what macOS, Windows and Linux can, drains below a microsecond and beyond macOS's horizon, three commands; segment: three updates and two attempts, so that a retry meets another update; report: corrections that drain for one tick or two, reports up to five ticks old, a loop that stalls; key establishment: two connections over two addresses, three foreign servers; datagrams: batches of two and four datagrams, so that buffers are reused, on three kinds of platform |
| the browser | is every sample, and the reading told of it, as good as its delay says | an era that ends within the run, a date that runs fast, begins ahead or behind and is set once either way, three requests, so that the register reaches the three samples of a line, answers kept and handed over at any time, exchanges of up to two ticks |
| the store | is what was saved readable, complete and one session's after a kill anywhere | two passphrases and two salts, so that what one process saved can be locked to the next; jars of three, so a shorter batch can leave two cookies to retire; two ring slots; three puts: a long batch, a short one, and one by another command |
| `driver_ceiling` (violated) | does the loop plan within the driver's ceiling | macOS, a plan at the default ceiling of the discipline |
| `client_line` (violated) | does the bound of the line cover its error | a date without drift, three exchanges of one tick |

Runs marked violated state what a comment of the code says; section 6 and
`PROJECT.json` (`findings`) say how the code departs from it. The parts of `clock_loop` share
no variable, nor do those of `edges`: in a behaviour one moves and the others rest in one initial
state, so the run is the sum of its parts and not their product. A row without a name is a further part
of the run above it.

### Fairness

Safety properties use no fairness. The liveness properties rest on:

- `Discipline`: an estimate comes again and a plan is handed to the driver. The loop in `run`
  never waits for anything else, and `retry_interval_s` schedules the next exchange whatever
  became of the last. That the driver obeys is not assumed.
- `SyncDaemon`, `LoopFairness`: an answer is selected on and steered by in the same turn of the
  loop, time passes, and the age of the served view is looked at on every turn.
  `PollFairness`: every source is due again after every exchange; strong, because the loop
  comes round to a source between turns in which it is busy with others. That a poll is answered
  is never assumed; properties that need it say so (`Keen`).
- `NtsSession`: an exchange ends, by an answer or by the deadline on its socket; the sync loop
  polls again; a starting server gets to serve; key establishment in the end succeeds while
  the server is up. Delivery is not assumed: with every datagram lost the renewal still comes.
  For `nts_query_renews` also that the query is run again; the instance loses nothing, so that the
  counterexample owes nothing to the network.

## 4. What is proved

All theorems hold for every value of the constants that satisfies the named assumptions of
their module (sources are finitely many, rates and offsets are integers, bounds are natural
numbers). TLAPS checks them with SMT, Zenon and, for the temporal steps, LS4.

`ClockLoop_proofs`
- `TypeCorrect`: `[]TypeOK`, by `TypeInv`, which adds what a plan on its way looks like.
- `BooksCorrect`: `[]BooksDescribeClock`. The claim is not inductive: it says nothing of the
  sample of an exchange in progress nor of the moment between a plan and the driver's answer.
  `BooksInv` adds that a sample in flight lies on the line at the rate the clock runs at
  (`FlightInv`), and that while a plan is out, registers lie on the line the clock *will* run on,
  while `unapplied` holds exactly what brings them back (`SteeredInv`). One lemma an action.
- `LoneRetireFulfilsBudget`: with one source a drain is never retired early; with two it can
  be (section 6), which is why the theorem has that assumption.

`Discipline_proofs`
- `TypeCorrect`, `BurstCapped`, `GivingUpIsEarned`: by `IInv`, which relates the slots left and
  used to the plans that asked for them, and the refusal counter to the run of refusals.
- `HaulsAreRemembered`: `FreshHaulIsNotTrusted`. As long as no plan was refused, what the
  discipline remembers of the last drain is at least what is running (`HaulInv`), so an estimate right
  after a haul teaches nothing. Once one was refused it may; and of hauls before the last interval the
  discipline remembers nothing (section 6).

`Estimation_proofs`, of selection
- `SelectionFindsLargestMajority`, `HonestMajorityWins`: for any number of sources. The two scans of the
  sweep are counts over the sorted ends; the lemmas before the theorems relate those counts to the sets
  of intervals that have a point in common. The first theorem, like the property, leaves out slices in which
  two intervals merely touch, where the order of equal ends decides.

`Estimation_proofs`, of the register and the regression
- `RegisterCachesAreFresh`, `RegisterIsRestated`: by `RegisterInv`. The cached minimum is the least delay of the
  live samples, though an eviction may remove the sample that had it (`MinInv`); every weight was
  computed for `weightsFor`, or is unfilled since (`WeightsInv`); sample *i* is the one pushed *i*-th,
  restated (`WindowInv`). `Delays` has to be finite for there to be a minimum.
- `SpikeTestNeedsNoMedian`: `spike_threshold_from` counts instead of sorting. The count
  decides as the median would, because the element at the middle rank is below a bound exactly when
  enough of the elements are (`SelectedFacts`, `CountingIsTheMedianTest`). `PresentIsNeverVotedAway`: every pass keeps the last three rows as they are (`SameEnd`), for
  which the least window for the adaptive passes must be three (it is eight).
- `LoneSpikesAreIgnored`: `[]LoneSpikeIsIgnored`, for every size of the spike and every slope. What a sum is does
  not depend on the order it is taken in (`SumWithout`, by the least set for which it would), so the
  residuals of eight and of nine rows on a line with errors can be written down
  (`ResidualsOfEight`, `ResidualsOfNine`): the line drops out. One error alone leaves a residual more than
  40 / 9 times that of five other rows, of the sign its neighbours have not (`SpikeStandsOut`); so the window is
  not cut as stale, the spike is found, and its row is not kept (`SpikeIsFound`). What is left lies on the
  line, and a fit of rows on a line, weighted in whatever way, is that line (`FitOfStraight`). The assumption
  is that `MIN_ADAPTIVE` is at least eight, as it is: in a window of six the spike does not stand out.
- `CorrectionMovesTheLine`: what the comment of `slew_samples` claims and one test tries on six points, for rows of
  any times, offsets and weights, any of the window's lengths, and any correction. A line added to the
  rows (`Moved`) adds itself to the sums of the fit (`SumMoved`, `FitMoves`; the sum about the mean time of a
  constant is 0), so the residuals stay as they are (`ResidualsStay`). Everything that chooses rows looks at
  residuals only: the quarters dropped (`DropStaleMoves`) and the spikes trimmed (`TrimSpikesMoves`) are the
  same, and the slope and the offset of what is left are the old ones less the correction
  (`OffsetMoves`), though two of the three walks of `Restated` leave a term out. It says nothing of the
  rounding of floats, which the model does not have, nor of which window length predicts best, which
  the model leaves open on both sides.

`SyncDaemon_proofs`
- `NothingIsVouchedForEarly`, `NoSingleSourceMovesTheClock`: by `Inv`. `TurnInv` says that from the answer to the
  end of a turn the answering source has an estimate, and that what is steered by is what
  the selection would choose now; the second theorem then needs that of two sources no single one is a
  majority, which is taken from the lemmas on selection.

`NtpServer_proofs`, of the table
- `TableIsAlwaysSound`: the inductive invariant is that some order of slots exists (`TableIsSound`) such that
  the links thread it from one end to the other (`Linked`), the other slots are the free ones,
  once each (`FreeOK`), and the index holds just the slots of it (`IndexInv`): as many entries as slots,
  no client twice, and every bucket from an entry's ideal bucket to its own occupied (`Reached`).
  What an operation does to the order is a lemma each: `UnlinkFacts`, `LinkFrontFacts`, `TouchFacts`,
  `EvictFacts`, `AllocFacts`. The index has four buckets to a client, so a scan ends.
- The loop of `Index::remove` is followed pass by pass (`RemoveKeeps`): after each, the entries are those
  there were but the one removed, and the hole lies on the path of no entry already passed, only
  perhaps of one still ahead (`Passed`). At the first empty bucket none is ahead. `MovesBack` is what decides it.
- `EveryClientIsFound`: `[]IndexFindsEveryClient`. A scan meets the one entry of a client before an empty bucket.
- `TableIsAnLru`: the refinement `ImplementsLru`. The keys along the list are the abstract order; an admission
  of a known client moves it to the front, of a new one puts it there, at the cost of the last when
  the table is full (`RememberedFacts`), which is what `LruOrder` does (`UsedInOrder`).
- `OutputIsBounded`: `[]ResponsesAreBounded`. What is kept is that the answers since any tick
  and the tokens still in the bucket together stay within the burst and what has been earned up
  to the last refill; the refill is where one product of variables enters.
- `KissesStayRare`: `[]KissesAreRare`. The kisses times the leak, the drops the global limiter counts and the drops
  that all records count are together at most the drops there were (`KissInv`); the sum over the
  records is the size of a set (`Owed`), and a record made anew only lowers it.

`NtpServer_proofs`, of the server
- `ServerUsesTable`: `Spec => TableSpec`, so the theorems above hold of the server.
- `TransmitsStayOwn`: `[]TransmitsAreOwn`. A handle that was given to a client names a slot that is its
  client's still or has a later generation (`GivenTo`, `OwnInv`), so what is noted lands on nobody else.
- `InterleavedRepliesTellTruth`: the action property `InterleavedIsTrue`. Three invariants carry it. What a
  client was told before is older than the batch, what the batch tells it carries the batch's receive
  time and one time of sending (`TimesInv`). From the building of a reply to its noting, its client's
  record holds that receive time, or was made anew and has no transmit time (`HeldInv`). So, for a
  client off the gateway and not kissed, a transmit time stands beside the receive time of the
  reply it belongs to, or is about to be overwritten with it (`TrueInv`). The two exceptions are where the
  code breaks just this: the gateway rewrites the one time without the other, a kiss is noted as
  if it had been that reply. TLC agrees on these invariants in the run `ntp_server`'s instance.

`Store_proofs`
- `TypeCorrect`, `SavedIsReadable`, `JarsStayWhole`, `SavesDropNothing`, `RingStays`. One invariant
  carries them: the file is never torn; what is in it and in memory was sealed under the salt on
  disk (`Salted`); an open process holds every entry the file has, the ring's unchanged (`Covered`), and
  has declared every key it holds (`Declared`), so that what it renames over the file is what it
  holds (`Ready`); no cookie is behind a gap.
  `SavesDropNothing` needs the declared keys, `RingStays` that a ring under another passphrase
  makes `StartServer` fail. That a walk over a jar ends at its first gap is a lemma over its
  definition as a set, without induction.
- `StoreIsASessionStore`: `Store` implements `SessionStore`. The initial states map, and every step maps:
  `PutSession` to a put, `Rename` to a save, the end of a process to a crash, everything else to a
  stutter. `Rename` needs of the invariant that what replaces the file is all that is held, `PutSession`
  that no cookie is behind a gap: else a shorter batch would bring back one of an earlier session.

`Edges_proofs`
- `SamplesAreWhole`: `[]TornOnlyIfBegunMidWrite`. The count never falls and is bumped before the first
  write and after the last. `WriterInv` says what a segment holds between those, `CopyInv` what has
  been copied of a closed segment, field by field, as long as its count is what the reader read.
- `SamplesAreGood`: `ClientSpec /\ []DateIsNear => []SamplesAreHonest`. The assumption is what an era
  can resolve: the browser's date is within half an era of the true time, less what an exchange
  takes (`Resolved`). Without it a sample is of the wrong era. The invariant follows the
  stamps of a request (`Requested`), of an answer (`Answered`), every sample of the register and the one
  the virtual clock was fed (`Honest`), over pushes and evictions (`PushedFacts`); `SampleIsGood` is the
  arithmetic of one exchange. Nothing is proved of the line through the samples: its bound is not honest
  (section 6).
- `ReportsAreHonest`: `[]ReportIsHonest`. While a drain is in force the clock may be off by all that is
  still owed, so the claim is inductive only with the error that will be left when the drain is
  over (`Settled`): it is that error which the published bound and the age bound (`Accounted`).
- `RepliesGoHome`: `[]AnswersGoHome`. A buffer and its address are of one datagram for as far as the batch
  reaches, a reply is addressed to where its request came from (`HomeInv`); no datagram is in two
  of the queue, the batch in hand and what has left, nor twice in one of them (`OnceInv`).
- `SessionsAreAgreed`: `[]EstablishedIsAgreed`. What this program's server sends is nothing, a
  refusal or the whole of one answer, and no more of it arrives (`KeInv`); where each record
  of the answer stands is a lemma, so that a stream that ends before its end makes no session.
- `PlansAreDelivered`: `[]CommandsAreObeyed`. It is inductive with the types and with how far the clock
  may have run since a step read it (`DriverTypeInv`); the work is in the arithmetic. `TruncFacts` and
  `RoundFacts` say what a cast and `f64::round` leave behind, for any divisor. From them `LeftOver`: rounding
  to a tick leaves no more than `ADJ_FREQUENCY` trims, at the ends of the range of ticks too, so that
  its clamp never bites; it rests on `total_ppm` having cut the rate to the ceiling first (`TotalIsPromised`) and
  on a tick of at most 1000 ppm, that is a USER_HZ of 1000 or less (`DriverAssumption`). `LinuxDelivers`, `WindowsDelivers` and
  `MacDelivers` bound what is left of a plan on each platform.

`NtsSession_proofs`
- `JarsAreUniform`, `OneRefusal`, `StateKeeps`. The claims speak of jars; what becomes of a jar is
  on its way in datagrams, so the invariants speak of both. `KeyInv`: every cookie sealed with
  state was sealed by the key in the store, which is the ring's while the server is up. `JarInv`: what
  the client has and what the exchange in progress may bring it are of one key. `NakInv`: while a
  refusal may still come, fewer were had than there were changes of the key.
- `SpentOnce`: `Spec /\ []NamesLast => []SpentOnceUnlessRunLost`. `OnceInv`: the cookies of a jar, and of a
  reply it may yet bank, are different ones and unspent; what was spent is on disk at most, where a
  run that begins does not read it unless one was lost. The model names cookies from a finite
  set, for TLC; a sealed cookie is a new one as long as names are left, and `NamesLast` says
  that they are. In the program it is the nonce of the sealing that makes them new.

Only model-checked: liveness and `ENABLED`, which are beyond TLAPS.

## 5. What is not modelled

- Floating point. Rates, offsets and delays are integers; the regression cross-multiplies instead
  of dividing. The dispersion (a square root) is only in `TimeClient`; the drain rate's value and the combined offset, which the
  daemon does not use, are left out, as are the settings of the filter that are off by default.
- Cryptography and codecs. A value opens under what sealed it or not at all, a datagram verifies or
  does not; the octets of packets, records and log entries are not modelled, nor certificates.
- A loss of power. The store renames a file it has not synced (`store.rs:531`), so after one
  anything may be on disk and there is nothing to check; kills of the process are modelled.
- Two processes on one store. The code takes no lock, and both would write one temporary file;
  the model, like the program's documentation, has one process on a path at a time.
- System calls succeed or fail as a whole, and memory is sequentially consistent.
- The SOCK datagrams and the PTP hardware clock of the reference clocks are single reads; the
  measurements of a query and its report, option parsing, dry runs and the opening retries of the
  sync loop, kernel receive stamps and the adoption of an activated socket are left out.
- Components with no state of their own, or none that anything else depends on: stop
  signals (one flag), service management, configuration and reference ids, the simulator, the allocator, the
  fuzz targets, packaging, the page the gateway serves.

## 6. Where code and comments part

With a run that shows it, in `findings`:

- a server that dies keeps its vote, and may keep the only one that steers (`sync.rs:790`);
- a query whose jar runs dry fails past the saving of its state, and after a change of the
  server's key fails for ever (`query.rs:379`);
- a merged replica's entries are not among the fields `flush` writes, unless they were read
  before (`store.rs:559`, `store.rs:500`);
- a slope fitted across a haul is absorbed as soon as one gentle plan has followed it, with samples of before
  and after still in the window (`discipline.rs:668`): `HaulLeavesWindowFirst`;
- the loop plans with the ceiling it was configured with, the lowered copy being used nowhere
  (`sync.rs:394`): `NeverBeyondTheDriver`. On macOS the default is far above what the driver does;
- in the browser, the bound of the line through three samples or more does not cover its error when theirs
  turn (`wasm/lib.rs:143`): `LineBoundIsHonest`.

Stated as a definition that no run checks, because the code violates it and a property that holds stands beside
it; to see it, check the definition in place of the other:

- a drain may be retired early when there are several sources (`client.rs:249`):
  `RetireFulfilsBudget` of `ClockLoop`, proved for one source;
- a kiss of death overwrites the transmit time interleaved replies are made from
  (`daemon/server.rs:806`): `InterleavedAlwaysTrue` of `NtpServer`; `InterleavedIsTrue` names the two exceptions;
- a reading that is held back for having been too early is told with the bound of the one that is not
  (`vclock.rs:63`), although "callers gate decisions on this" (`vclock.rs:71`): `ReadingIsHonest` of `TimeClient`;
  `SamplesAreHonest` speaks of the estimate.

Met while modelling, without a run of their own:

- a refused plan makes the discipline forget that the clock is being hauled (`discipline.rs:831`), which is
  why `FreshHaulIsNotTrusted` is for a driver that obeys;
- the causes `ClockLoop` names: a step ends the drain in the books but not in the driver
  (`client.rs:418`, `linux.rs:141`); a hold for want of a majority replaces the rate in
  mid-drain and the loop is not told (`sync.rs:755`); a sample is booked with a time read after
  the exchange (`client.rs:338`); the maximum-change guard holds a frequency a refusal has
  already undone in the books (`discipline.rs:619`); the driver clamps the rate of a plan (above,
  `NeverBeyondTheDriver`). `BooksDescribeClock` says nothing of what follows one of them;
- `retry_interval_s` consumes no slot of the burst, so a silent server is retried at the burst
  spacing (`discipline.rs:861`);
- `LeapMode::Step` exempts every offset below two seconds all through the day of a leap
  (`discipline.rs:576`);
- the survivors of `select` meet the majority interval but need not overlap each other
  (`select.rs:89`);
- `CLOCK_SET` is also stored for a correction the guard refused (`sync.rs:596`);
- after a correction the other sources' last offsets are from before it (`sync.rs:510`);
- replies over the gateway are never noted, so their transmit times cannot be told
  (`gateway.rs:118`);
- an address that cannot be connected to ends a query, though "try every resolved address until
  one answers" is what the loop is for (`query.rs:340`, comment at 236);
- updates the guard or the driver refused use up `makestep_limit` and `max_change_start`
  (`discipline.rs:570`);
- a kill while the salt is written, before anything was saved, leaves a path no process can
  open (`Store`, `OpenFails`);
- stores of one path with different salts do not merge, and two servers' rings share the slots
  they merge into (`StoreMerge` assumes one salt);
- a reader of the shared segment that is held up between the VALID flag and the count may take a
  torn sample: the flag is not read again (`ShmRefclock`, `open`); in mode 0 nothing protects it;
- on macOS a plan that comes to less than a microsecond makes no call, so the one before stays in
  force: a hold, or the end of a drain, is not delivered (`ClockDrivers`, `PlanIsInForce`);
- with a USER_HZ above 1000 (1024 on some ports of Linux) half a tick is more than `ADJ_FREQUENCY` trims and
  the clamp of the residual would cut a plan (`slew.rs:93`); `DriverAssumption` leaves this out;
- on macOS and Windows a step loses the time between reading the clock and setting it, and on
  Windows what is below a millisecond;
- in the browser, `confidence_ms` says nothing of a date set since (`TimeClient`, `sets`);
- a loop that hangs in mid-drain lets it run past its budget, while for up to four polls the
  report still says synchronized (`Tracking`, `overrun`);
- in windows of eight and nine a lone spike among the oldest two is not trimmed, and fresh samples
  are dropped with the stale when the old weigh eight times as much (`Regression`);
- `validate(Some(_))` of the reference clocks and `VirtualDriver` have no caller outside tests;
- the client of key establishment takes a message without its end: with a server of another
  make that names its NTP host after a cookie, a cut loses the name (`KeyEstablishment`,
  `Strangers`);
- `recv_batch` passes over an address of an unknown family and so shifts the addresses against the
  buffers; harmless, because the socket has none, though the family of an adopted socket is not checked
  (`Datagrams`, `Report`);
- an error of the fallback send forgets how many have left; harmless, because its batches are of one.

## 7. Plan

Done: `ClockLoop`, `Discipline`, `Selection` and `SyncDaemon`, `LruOrder` and `ClientTable`,
`NtpServer`, `NtsSession`, `SessionStore`, `Store` and `StoreMerge`, `SampleRegister` and `Regression`,
`ClockDrivers`, `ShmRefclock`, `TimeClient`, `Tracking`, `KeyEstablishment`, `Datagrams`, with the proofs of
section 4.

Next, in this order:

1. Theorem: that the burst and the retries of `Discipline` fit together for every setting.
2. Which replies a native exchange accepts (`exchange` of `sync.rs`, `core/ntp.rs`), composed with the burst of
   `Discipline`.
3. `ClockDrivers` under `ClockLoop`: a loop whose plans the driver cuts, or macOS does not take.
4. The SOCK and PTP reference clocks.

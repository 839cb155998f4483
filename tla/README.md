# A TLA+ model of the edge feed conformance tool

The repository holds the specifications of several market-data feeds and one
program, `tools/conformance` (`dz-conformance`, Go). The program reads the UDP
datagrams of a feed, live or from a capture, and reports where the *publisher*
breaks its specification. Its correctness has two halves:

- it must not charge a publisher that did nothing wrong, whatever the network
  lost, duplicated, delayed or reordered;
- what it believes about the feed (its sequence series, its books, its
  reference data) must be what was published, because every later verdict rests
  on it.

This directory models the parts of the program where that is hard: state that
several ports share, buffers that put datagrams back in order, resets seen by one
port before another, bounded memories that forget, verdicts that must wait,
goroutines that shut down. All paths below are relative to
`src/tools/conformance/` unless they start with `market-by-` or `reference-data/`.

## 1. The system

| component | code | state | operations | what is hard |
|---|---|---|---|---|
| intake of a channel instance | `engine/state.go`, `engine/engine.go` | per (source, port, channel): Reset Count and era ordinal, last sequence, payload hashes, reorder heap, dirty window; per channel: the arrival order of Reset Counts | `Process`, `enqueue`, `classify`, `advanceEra`, `evictOldestInstance`, `Flush` | reordering across resets, values that repeat, stragglers, eviction |
| frame-series rules | `engine/engine.go` | that of the intake | the verdicts of `classify` and `Process` | a verdict on a datagram that is not yet in order |
| market-by-price validator | `engine/mbp.go`, `mbp_book.go` | per instrument: sequence, baseline ladder, journal, trust flags; per channel: open snapshot group, era | one handler per message, `mbpObserveEra` | deltas and snapshots travel on two ports; loss; overlapping groups; bounded journal |
| bounded id window | `engine/idwindow.go` | members, insertion queue, evicted range | `add`, `remove`, `has`, `mayHaveEvicted` | stale queue entries, eviction order, memory |
| market-by-order validator | `engine/gate.go`, `book.go`, `oracle.go` | per instrument: sequence, order book; open snapshot groups; reset bookkeeping | one handler per message, `onResetCountForEra`, `onManifestBump`, `onInstrumentReset` | as for market-by-price, with order identity |
| reference data | `engine/refdata.go`, `engine/instrdef.go`, parts of `engine/engine.go` | per channel: manifest sequence, set of definitions, strikes, clocks of the timing rules, a held verdict | `onManifestSummary`, `onInstrumentDef`, `onDefinitionStrike`, `resolveValidZero`, `decideNeverReachesReady` | 16-bit sequence order, several paths into one state, verdicts that must wait for another port |
| live source | `input/multicast.go` | one read loop per port, a bounded queue, the first read error, a close-once | `NewMulticastSource`, `readLoop`, `Next`, `Close` | goroutines, full queue, shutdown, terminal errors |
| run loop | `run.go` | the exit code | open, read, process, drain, report; a goroutine for signals | a signal during a read, two callers of `Close`, what is still buffered at the end |
| structural rules, decoding, capture files, reports | `engine/tier1.go`, `wire/`, `input/pcap*.go`, `core/`, `report/` | none or counters | pure functions and I/O | nothing for a model checker |

A datagram goes `Source.Next` -> `ObserveCaptureLoss` -> `wire.Decode` ->
`Engine.Process`. `Process` finds the tracker of its (source, port, channel),
lets `enqueue` decide between *drop as a straggler*, *reset* and *push*, drains
the old era's heap before a reset, and hands what the window pops to `classify`.
`classify` updates the series, gives the accepted frame to the era bookkeeping
and then to the handler of its port. `Flush` drains every heap at the
end of a run, mktdata first, then reference data, then snapshot; `EndRun` then
takes the verdicts still held.

## 2. Modules

| module | models | used by |
|---|---|---|
| `IdWindow` | `idwindow.go`, the queue with its stale entries | `IdWindowRefinement` |
| `RecencyWindow`, `WindowPromise` | what a window promises its callers, as operators and as an abstract machine | `OrderBook`, `IdWindowRefinement` |
| `IdWindowRefinement` | the refinement mapping from the queue to the promise | `MCIdWindow`, `IdWindowProofs` |
| `PortSeries` | `state.go` and the intake part of `engine.go`: an *open* system, any datagram at any time | `ChannelFeed`, `PortNetwork`, `PortSeriesProofs`, `MCPortSeries` |
| `ChannelFeed` | `PortSeries` closed with a conformant publisher and a network that overtakes; the frame-series rules | `MCChannelFeed`, `ChannelFeedProofs` |
| `PortNetwork` | `PortSeries` with several ports, their numbering, the network of the feeds, the taint one port puts on another | `MbpFeed`, `MboFeed`, `RefDataFeed` |
| `MbpConsumer` | `mbp.go`, `mbp_book.go`: operators on the validator's state, one per handler | `MbpFeed` |
| `MbpFeed` | `PortNetwork` and `MbpConsumer` closed with a conformant market-by-price publisher | `MCMbpFeed`, `MbpFeedProofs` |
| `OrderBook` | `book.go` and the referential rules of `gate.go`: operators on one instrument's book | `OrderFlow`, `MboConsumer` |
| `OrderFlow` | a trusted `OrderBook` told a lawful order flow that ends in one broken rule | `MCOrderFlow`, `OrderFlowProofs` |
| `MboConsumer` | the rest of `gate.go`, and `oracle.go`: operators, one per handler | `MboFeed` |
| `MboFeed` | `PortNetwork` and `MboConsumer` closed with a conformant market-by-order publisher | `MCMboFeed`, `MboFeedProofs` |
| `RefDataConsumer` | `refdata.go`: operators on the channel's reference data, one per handler, and the deadline verdict | `RefDataFeed` |
| `RefDataFeed` | `PortNetwork` and `RefDataConsumer` closed with a reference-data publisher on one or two refdata paths | `MCRefDataFeed`, `RefDataFeedProofs` |
| `MulticastSource` | `multicast.go`: every step of every goroutine | `LiveRun` |
| `LiveRun` | `MulticastSource` driven by `run.go`'s `Run` and its signal goroutine | `MCLiveRun`, `LiveRunProofs` |
| `IdWindowProofs`, `PortSeriesProofs`, `ChannelFeedProofs`, `MbpFeedProofs`, `MboFeedProofs`, `OrderFlowProofs`, `RefDataFeedProofs`, `LiveRunProofs` | the theorems | |

Plans. `MbpFeed`, `MboFeed`, `RefDataFeed` and `LiveRun` draw a *plan* at the start
and follow it: which ports may lose or lag, how many resets, which instruments
trade, what the timing flags are, and the bounds of the publisher. One run so
covers several instances, each sized for one question, and a property is asked of
all of them at once. The records in the MC modules name each plan.

### How the state corresponds

**Intake.** `PortSeries.pt[p]` is the `portTracker` of port `p`: `era`, `eraPos`,
`floorPos`, `stragglers`, `lastSeq`, `buf` and `dirty` (`dirtyWindow`) are the fields
of that name; `eraPos = 0` stands for `~eraInitialized`, which is what an ordinal of 0
means in the code; `accepted` is `payloadHashes`; `first` is a history field.
`pos` and `next` are `eraOrder`. The heap is a set of items, each with its rank
among the items of its sequence number, which is all that `arrival` decides.
`Seed`, `Receive`, `Quarantine` and `Advance` are the four outcomes of `enqueue`,
each with everything `Process` then does; `Evict` is `evictOldestInstance`;
`Flush` is `Flush`. The ring that bounds `payloadHashes` holds at least 16 frames;
`RingAssumption` keeps an era shorter.

The feeds join the intake with a validator the way `Process` and `classify`
do: `ClassifyItem` lets the tracker observe an item and gives an accepted frame to
its port's handler, message by message; `Processed` drains the old era, enters the
new one, pushes, and classifies what the window pops.

**Market-by-price.** `MbpConsumer` keeps one record per instrument with the fields of
`mbpInstr`; a ladder is a function from levels to quantities, 0 for an absent level; a
journal entry is the set of levels a delta touches and the quantity it leaves. `Action`
gates nothing in the code and is left out with the check on its value, and so are
the live book, `depthBound`, `inside` and `crossed`, which no rule reads.

**Market-by-order.** `MboConsumer` keeps `instrTracker` and `snapTracker` per
instrument (`instr`, `snap`), the `instrBook` (`books`), the oracle's suspects, and per
channel the open snapshot group (`open`), `lastBatch` and `high`
(`highestMktdataSeq`). A nil pointer is `Nil`. The gates a rule asks the intake for come
in as a record: `gateDetector`, `gateDetectorSnap`, `snapPortBound`, `mktdataPending`.
An order's price, flags and entry time are folded into its side; hidden orders never
enter the live set. The book's windows are `RecencyWindow` - the members, which of
them was added before which, and the range of the evicted ids - and `KeepsThePromise`
justifies that: the queue of `idwindow.go` implements it, with the members ordered by the
number of their newest entry.

**Reference data.** `RefDataConsumer`'s record `v` is `channelRefdataState`: `valid`,
`latest` (`latestSeq`), `expected`, `defs`, `strikes`, `prev` (`prevSummarySeq` and
`prevSummaryCount`), `frozen` (`setSnapshot`), `hadSet` (`hadNonEmptySet`), `pending`
(`pendingValidZero`, with whether its path was dirty), `sessionEnd`, and the clocks
`lastManifest`, `first`, `lastServing`, `lastRefdata` and `ready`; `cycle`, `seen` and
`defFrames` are the tumbling window of the definition cycle. A time a field does not hold yet is
`NoTS`. What the validator asks the engine - is this path dirty, is any, was mktdata
heard, does a buffer still hold a datagram of the period - comes in as a context, and
`RefDataFeed.Context` and `WithBuffers` answer from the trackers as
`dirtyOn`, `mktdataObserved` and `refdataUnclassifiedWithin` do. `ext` is what
only reference data keeps per path: the era it last read, how often it was tainted, and
the Send Timestamp of its last arrival, which `Process` notes even for a datagram it
then drops. Every port but mktdata is a *path* of the channel's refdata port; the paths
share one `v`, so they interleave in it.

**Live run.** In `MulticastSource`, `pc[p]` says where the read loop of port `p` is
between two steps another goroutine can see; `errs` is `consecutiveErrs`; `datagrams`
the channel of `datagramChanSize`; `conns` the open sockets; `cancelled` the context;
`readErr` the first recorded error (`setReadErr`); `once` and `caller` are `closeOnce`,
which a second caller waits for, and where each caller of `Close` is. `LiveRun` adds
where `Run` is (`main`), its `readErr` (`loopErr`), its exit code and the signal.
Processing a datagram is part of the step that takes it: nothing else touches the
engine. A `select` with several ready cases is a choice.

`findings` (in `OrderFlow`, `charged`) holds the rules graded `Violation`. A
publisher in the feeds never breaks its specification, so every finding is a false
one; the exceptions are named plans of `RefDataFeed`, whose publisher is late or gives
no notice of a session's end. In `OrderFlow` the last message may break a rule, and
`broken` tells how the book took it.

The publisher and the network are no part of the program; they are marked external
in the map. The publisher does what `market-by-price/spec.md`,
`market-by-order/spec.md` or `reference-data/spec.md` asks of one, and in `ChannelFeed`
only what `state.go` assumes of one: numbers from 0 in each era, one Reset Count for
all ports.

History variables, which no action of the program reads: `missed` (ports that lost or
dropped a datagram), `heard` in `ChannelFeed` (the order in which the channel first
heard of its eras), `published` and `owed` (the sets published, and what a serving
period still owed when a datagram went out past its deadline), `late` (datagrams taken
from a closed source), `at` in a datagram's body (when it was sent: the era and every
port's next number), what each snapshot
group reflects in `groups` of the market-by-price feed (the publisher itself needs only
how many it has sent), `instr` in the snapshot entries and orders of the two market
feeds, and `crossed`:
which kinds of message were classified out of their sending order. Each port is put in
order by itself and not against the other, so a frame of one port can be classified
while an earlier frame of the other waits. `crossed` records where that matters:
`"era"` (a reset before a frame of the old era), `"reset"` (an InstrumentReset on either
side), `"recovery"` (a delta before the recovery snapshot that precedes it) and
`"shutdown"` (EndOfSession and a Valid=1 summary); `"cut"` is a run that stopped between
the two messages of a session's end, and `"dropped"` an EndOfSession the intake took for a
straggler. Two entries are about snapshot groups and need no reordering: `"overlap"` (an
InstrumentReset read while another instrument's group is open) and `"merge"` (lost
datagrams made one group of two, and then a third joined it). The properties of the
feeds hold unless that
happened, and name what they except; section 4 says what happens then. `did.took` does
the same for what the supplement leaves a reference-data publisher free to do and a
rule charges. A datagram that enters an era wipes the
validator on arrival, so it is held against what waits on the *other* ports, even when it
does not leave its own heap yet.

## 3. What is checked

Every passing run explores its whole state space.

| run | instance | shows |
|---|---|---|
| `MCIdWindow` | 4 ids, limit 2, 8 adds | size, evicted range and queue, through re-adds, removes and compactions; the refinement `KeepsThePromise` |
| `MCPortSeries` | 2 ports, 2 Reset Counts, 3 eras, window 1, sequences 0..2 | one era per heap, ordinals name eras, a clean window has no hole, eras only advance - for *any* datagrams, with evictions and flushes |
| `MCChannelFeed` | 3 eras, window 1, jitter 1; with faults: loss, duplication, resets at any time; without: delay and reordering | no false `FRAME.SEQ_RESET_GAP` or `FRAME.SEQ_DUP_DIVERGENT`, no taint without a datagram missed, no return to an era the port left unless it slept through two resets or the stragglers outnumber the window; without faults a port ends in the publisher's era |
| `MCMbpFeed` | *SkewedPorts*: 1 instrument, 2 prices, 3 deltas, 2 groups, journal of 2, ports independent. *LossyGroups*: 2 instruments, two groups each over several datagrams, snapshot port lossy. *Resets*: 2 groups over several datagrams, InstrumentResets, a channel reset | no false mismatch or density gap, unless a reset crossed; no false structure finding, unless a reset crossed or two merges met in one group; the trusted ladder is the published one at every point |
| `MCOrderFlow` | 3 ids, windows of 1, 2 sources, 2 trades, 2 lots | lawful flow is never charged; a broken rule is named or unverifiable, never passed over; the live orders are the true ones |
| `MCMboFeed` | 1 instrument, independent ports, 2 deltas and InstrumentResets: *SkewedResets* with 1 order, 2 groups and a channel reset, *SkewedTwoOrders* with 2 orders, 1 group and a channel reset, *SkewedBook* with 2 orders and 2 groups. *LossyBook*: 1 instrument, 3 deltas, a group over several datagrams, both ports lossy. 2 instruments, groups over several datagrams that an InstrumentReset of the other instrument may cut: *OverlapTwice* with 2 groups each, *SkewedOverlap* with 1 group each and independent ports | no finding and no suspicion unless something was lost, or a reset or a recovery crossed; after a cut group only the four rules on whole groups charge; a trusted book is the published one, also under loss and after a cut |
| `MCLiveRun` | 2 ports, 2 errors in a row, signal and deferred `Close`, a report that may not be writable; *fair* plan: queue of 1, 2 datagrams; other plan: queue of 2 | each port's stream reaches the engine in order and with none passed over, but for what the shutdown drops (the datagram a read loop holds, and those still queued when the source closes); a dead socket or a report that was not written is never a clean pass; at most one late datagram, every shutdown ends the process, a read error ends the run unless a sibling stays in a read |
| `MCRefDataFeed` | eleven plans, below; M = 8 for 2^16, 2 instruments | no false finding on sets, sequences, strikes and timing but in the four cases of `Reported`; the set in use is a published one; a held verdict is decided in time and truly |

The plans of `MCRefDataFeed`: *LossySets* (two set changes under loss), *Ahead* (the same,
with definitions of the new set before its summary), *Wrap* (Manifest
Seq from M - 1 on, with a channel reset), *Shutdown* (two sessions, EndOfSession on a
skewed mktdata port), *Restart* (the same about a reset), *Paced* (a publisher that
keeps both intervals, with loss, a change and a reset), *Longer* (one that lets the
whole cycle pass before it repeats a definition), *LateSet*, *Resumes*,
*TwoParts* and *TwoRepeats* (publishers that may be late: with a set change, with a second
session, and on two paths that may each define a part of the set or repeat one
definition). `MCLateReady` runs *TwoLate*, the last two at once.

Bounds. Two ports are enough for every interaction through `eraOrder`, which
compares one port's era with one value. Three eras and two Reset Counts let a
value repeat once, the case ordinals exist for. A window of 1 already holds a
datagram back past a reset. A journal of 2 under 3 deltas overflows, and 2 groups
let one overlap the other. In `MCOrderFlow` a window of 1 forgets at every second
event, and 3 ids put one inside a range that two evictions span. M = 8 makes the half
circle of `isLaterSeq` larger than any step a plan takes and a wrap reachable. In the
timed plans the flags are 1 or 3 ticks, and `instants` are the points on either side of
each deadline. A queue of 1 filled by two datagrams blocks a read loop in its send.
Two groups of each of two instruments are the least that make the double merge, and two
instruments the least whose groups a reset can cut.
`MaxSeq`, `MaxEras`, `MaxAdds`, `MaxResets`, `MaxLots` and the plan fields `deltas`,
`groups`, `beat` and `beats`, `resets`, `length`, `changes`, `sessions`, `heartbeats`, `instants`
and `sends` cap what is unbounded in the code; each is a guard on one action. `ahead`
caps the datagrams under way: 1 lets the network hand over or lose each before the next
is sent, which is every order of classification a port that does not reorder can give,
and 9 is no bound at all; only *SkewedOverlap* cuts interleavings with it, at 3.
`CHECK_DEADLOCK FALSE` is set where the run of the program ends (`EndRun`, and the
last, rule-breaking message of `OrderFlow`); `LiveRun` has `Finished` instead, so that
a live run in which everyone waits for everyone is a deadlock TLC reports.

Fairness. In `ChannelFeed`, in a run without faults, the publisher keeps sending (`WF`
of `Send` on some port) and the network keeps delivering (`WF` of `Deliver` of some
datagram). Both speak of the environment: a live port shut out by the *tool* is what
`PortsCatchUp` excludes, and on a dead port nothing is owed. `Process` itself is one
synchronous call. In `LiveRun`, in a fair plan, every goroutine that can take a step
takes one some time: `main`, the signal goroutine, each read loop, the goroutine that
closes the source, each caller inside `Close`. That is what the Go scheduler gives; a
`select` is only promised to take *a* ready case. The network, the interfaces and the
operator owe nothing: a datagram, a failing read or a signal may never come.

Verdicts at the end of a run are fair only when the publisher owes nothing and
each port's last datagram was heard (`Complete`): a capture that stops in the middle
of a group looks like a publisher that did. `Complete` also asks that no instrument had
a second group before each had one: `ROUND_ROBIN_COVERS_MANIFEST` counts recovery
snapshots as rounds, and a run that stops before the first round is over is charged.

Each property of each passing run has a mutant: a plausible bug of a mapped
definition (kept beside it as a *variant*), under which the same run must fail.

## 4. What the model disagrees with

Four runs are expected to fail: each checks one property that a comment, a test or a
specification of the repository states, against what the code does. `PROJECT.json`
quotes the lines.

| run | what happens |
|---|---|
| `MCMboFrameZero` | a group that begins in snapshot frame 0 of an era is never marked dirty (`gate.go:817`: 0 stands for unset); when its rest and the next Begin are lost, the next End is charged |
| `MCMboOverlap` | InstrumentReset of one instrument deletes the open group of another (`gate.go:353`), whose remaining messages are charged as orphans. `NoFalseFinding` excepts it (`"overlap"`), and shows what else is charged then: if the cut group was a recovery snapshot, `RECOVERY_SNAPSHOT_ANCHOR` and `SNAPSHOT_FOLLOWS`, and `ROUND_ROBIN_COVERS_MANIFEST`, because the cut group counts as none - these four and no other |
| `MCShutdownRace` | `Flush` drains mktdata before refdata: EndOfSession is noted, then the session's last Valid=1 summary, still buffered, deletes the note (`refdata.go:522`), and the Valid=0 behind it is charged |
| `MCLateReady` | two paths complete a set in time together, but a late repeat on one is read before the in-time definition on the other; the moment of readiness is stamped from the one read last and never moved earlier (`refdata.go:844`), so the publisher is charged as late |

The models reach more states in which the code charges a conformant publisher or
believes too much. No run is kept for these; they bound what the passing runs claim.

Intake: `idwindow.go:70`, when every add evicts, `head` follows the tail and the slice
is never released; `state.go:425`, a datagram of an era the order does not know
reopens it, however late; `engine.go:637`, two swapped datagrams of a new era fire
`FRAME.MKTDATA_SEQ_START`, read before reordering (`ChannelFeed.SeqStartViolated`).

Market-by-price: `mbp.go:427`, delta 1 held in the reorder buffer past a group is
graded as a restarted series; `mbp.go:808`, a group of the old era, still buffered,
becomes the new era's baseline when mktdata leads the reset; `mbp.go:829`, a baseline
at 0 leaves no sequence to miss delta 1 against; `mbp.go:827`, a group older than a
gap clears the gap mark; `mbp.go:371`, InstrumentReset keeps no required anchor;
`mbp.go:388`, a group ended before an InstrumentReset but classified after it is
charged; `mbp.go:548`, the loss of the datagram that opens an era is invisible;
`mbp.go:683`, losses that merge a group into another twice leave a depth and an anchor
none of the shapes the code excuses has, and `GROUP_STRUCTURE` charges it, against what
the comment there says of network loss: `NoFalseGroupFinding` excepts exactly this
(`"merge"`), and *LossyGroups* reaches it.

Market-by-order: `gate.go:606` and `gate.go:676`, a delta classified while the recovery
snapshot waits in the other port's buffer is charged with `SNAPSHOT_FOLLOWS` or
`PERINSTR_FIRST_VALUE` (the crossing `"recovery"`); a book whose orders rested before
delta 1 (a snapshot at `Last Instrument Seq = 0` that is not empty) is trusted from
delta 1 on, and a cancel of such an order is charged - the model's publisher starts
each era from empty books; when the snapshot port leads a channel reset, mktdata
frames of the old era fill the wiped state and the new era's delta 1 is charged, and
when mktdata leads, old snapshot frames fill the snapshot series (the crossing
`"era"`); a capture that joins or stops within a group is charged for its grouping;
with a reorder window of 1 or more the mktdata buffer is never empty once it has
filled, so `mktdataPending` keeps `ANCHOR_IS_MKTDATA_SEQ` and
`LAST_INSTRUMENT_SEQ_CONSISTENT_WITH_DELTAS` from ever being a Violation before the
final flush.

Reference data: after a wrap to Manifest Seq 0 only the first summary is let through and
every repeat at 0 is charged with `MANIFEST_SEQ_NONZERO_WHEN_VALID` and discarded
(`refdata.go:370`; `reference-data/spec.md` lets the sequence wrap), which
`NoFalseSetFinding` allows for (`Reported`), and the specification lets it restart from
any value, 0 included; `reference-data/spec.md` (Publisher Behavior, rule 5) lets a
publisher tag definitions with a new Manifest Seq at once and send its summary up to a
cadence later, but `STALE_SEQ_TAG_AFTER_BUMP` charges any tag that is not the latest
summary's (`refdata.go:779`), and two changes within that time, announced by one
summary, are charged with `SEQ_BUMP_NOT_BY_ONE`: the publisher of the plan *Ahead* does
both, and `Reported` allows these rules only after it did; with two paths a rule asks for the taint of
the path at hand only, not for that of any of them as the tool's README says,
`MANIFEST_CADENCE` is charged when a path that paused returns, and a Valid=0 on one path
ends what the other serves - the model lets only a path alone send one;
`DEFINITION_CYCLE_COVERAGE` closes its window at the exact interval (`refdata.go:551`),
so a definition sent just before the summary that opens a window and repeated exactly a
cycle later, just behind the summary that closes it, is charged: *Longer* does that,
and `Reported` allows the rule only then; a bump or a reset that is the first
datagram after a deadline drops the period's verdict without a finding; a held Valid=0
verdict survives `onResetChannel`, so a shutdown and a restart under a new Reset Count
is charged as a resumption; a run that stops between Valid=0 and EndOfSession is charged
(`"cut"`), and so is one whose EndOfSession is dropped as a straggler after a path skipped an
era (`"dropped"`, section 5).

Live source: `multicast.go:160` says that recording the error and cancelling makes
`Next` surface it. The cancel closes no socket, so sibling loops blocked in a read on a
silent port keep the source open and `Next` waiting until a datagram or a signal comes:
`FailureEndsRunUnlessBlocked` states exactly that exception.

## 5. What is proved

`IdWindowProofs`, for every set of ids, limit and number of adds: `TypeOK`,
`SizeBounded`, `MissOutsideRangeIsTrue`, `EveryMemberIsQueued`.
The inductive invariant adds that stamps and entries are at most `next` and
distinct, that every stamp is backed by its entry, and that forgotten ids lie in
the evicted range.

The same module, for the same parameters: `KeepsThePromise`. An add that evicts
is one step of the promise, because the first live entry of the queue belongs to the
member with the least stamp and stale entries before it change nothing; compaction
changes neither members, stamps nor range. The mapping reads the range off two bounds,
so the invariant also says that they are never the wrong way round.

`PortSeriesProofs`, for every set of ports, Reset Counts and payloads, every
window, and every sequence of datagrams, evictions and flushes: `TypeOK`,
`HoldsBackBounded`, `BufferOfOneEra`, `OrdinalsNameEras`, `CleanWindowHasNoHole`
and the action property `ErasOnlyAdvance`. None of the six is inductive. `IInv` adds

- `Ranked`: the items of one sequence number carry the ranks 0, 1, 2, ...; without
  it a heap might have no head, and `CHOOSE` would name nothing;
- `Series`: `lastSeq` is the highest accepted number and is set exactly when the
  era has accepted a frame; without it a gap-free batch says nothing about the
  numbers below it;
- `OrderInv`: an ordinal that is still the latest of a Reset Count belongs to the
  ports in that Reset Count; without it a port that joins an era might meet
  another Reset Count at the same ordinal.

The argument goes bottom-up: least and greatest elements of bounded sets; push
and pop keep `Ranked` and the size; classifying a batch keeps `Series`
(`BatchHasNoHole` is the heart of `CleanWindowHasNoHole`: with no gap flagged, the
least accepted number above a hole would have to be preceded by an accepted one);
entering an era keeps the order; then one lemma per action. The proofs assume the
named ASSUMEs of the module: `W` and `MaxSeq` are naturals and 0 is a Reset Count.

`ChannelFeedProofs`, for every window, jitter, set of ports and number of resets, with any
loss, duplication and delay: the feed is an instance of the open intake
(`FeedRunsTheIntake`: each of its steps is a step of `PortSeries` or a stutter, a final
drain of empty buffers included), so everything `PortSeriesProofs` shows holds of it; and
`NoFalseDivergence`, as long as the Reset Counts of a run differ (`CountsDiffer`).
The invariant adds that a tracker holds frames of its own Reset Count only
(`HoldsOwn`) - which rests on `OtherEra` turning every other Reset Count away and on the
drain before an advance - and two frames of one Reset Count are then of one era, where
the publisher numbers each datagram once. `FeedAssumption` says that the Reset Count of
every era of the run is one of `ResetCounts`. Without `CountsDiffer` the claim is false
of any intake: a count that comes back is told from the old era only by the ordinals of
a sibling port.

`NoFalseResetGap` holds in addition if the window is no smaller than the jitter. Three
facts carry it (`LagInv`). Every buffered item is `Ahead` of the accepted series or a copy
of a frame in it, so whatever the heap gives up, at an overflow, before a reset or at the
end of the run, moves nothing back. A datagram under way is `Awaited`: no accepted frame of
its era has a higher number, and at most as many buffered items as its lag counts. And
nothing was heard that was not sent (`Published`), so a new datagram is behind nobody. The
step that matters is `IntakeOvertaken`: an item popped past a datagram still under way would
be the least of a heap of more than `W` items, all of which overtook that datagram, but
only `Jitter` arrivals may.

Under the same two premises (`CountsDiffer`, a window no smaller than the jitter)
`NoTaintWithoutLoss` and `StragglersReopenNoEra` hold.

The first rests on `TaintInv`: until a port misses a datagram its series is `Dense` -
every number below one it has accepted, buffered or under way is itself accepted, buffered
or under way. A batch that leaves the heap over a hole would then have passed a datagram
under way, which `LagInv` excludes. `missed` counts what the code really gives up: a
datagram the network lost, one dropped as a straggler, and what `advanceEra` wipes when a
port opens an era again that it was in or had left (`Reopens`). The last case is not at
fault of the network: with `W = Jitter = 3` a duplicate that outlives two resets returns a
port to an era it had left, by the choice `state.go:420` explains, and the numbers missing
then were lost to nobody but the tracker.

The second rests on `OrderedInv`. While the channel hears of its eras in their order, the
ordinals of `eraOrder` mirror the list of eras heard (`OrderMirrors`), each port holds
frames of exactly the era at its ordinal (`InEra`), and a datagram of an earlier era is
late, never a reset, as long as the port's run of stragglers is shorter than the window.
That run is `Counted`: the stragglers a port dropped since it entered its era, with the
arrivals that can still come to it from earlier eras (`StillToCome`: each datagram as often
as its lag allows), never exceed what could be under way when it entered, `Jitter` datagrams
or `Jitter * Jitter` arrivals where the network duplicates. The premises of the property
are the limits the code states for itself: `HeardInOrder` fails when the channel hears
of a later era before an earlier one or a datagram outlives two resets (`Outlived`), and
`StragglersFit` when more stragglers can come than `enqueue` drops before it takes a run of
them for a reset. Without either the statement is false of the code, already at
`W = Jitter = 2`.

`OrderFlowProofs`, for every set of ids, sources and trades, every quantity and every
size of the windows: `BookIsTruth`, `LawfulNeverCharged`, `DefectsAreNamed`, and that a
batch boundary never finds a live order with nothing left. The invariant types the book
and the truth and states the correspondence id by id (`Mirrors`): a live order is the true
one, and every id that is new, gone or hidden has none. One lemma says what each message
does to the live orders, one lemma per action what the truth does along with it. The
verdicts need more (`Remembers`): an id that left the book, or was hidden, is still in its
window or inside the range of what the window evicted, and what a window holds did leave,
so an absent id is charged only when it cannot have been forgotten; and the trades a book
remembers were sent. What `Added` keeps of a window is shown once, for every limit, from the
promise `IdWindowProofs` shows `idwindow.go` to keep.

`LiveRunProofs`, for every set of ports and of callers of `Close`, every size of the
queue and every limit on read errors: `LiveTypeOK`, `DeadSocketNeverPasses`,
`LateBounded`, `StreamIntact`. Types need that no loop runs before the sockets are open
(`Started`) and that a loop which goes on has not used up its errors (`ErrsLeft`). The
exit code needs `Settled` - the code comes from the error the loop of `Run` returned
with and from the report - and `ClosedAtEnd` - once the source is closed every read loop has ended, so no
error can be recorded after that one was read - and `Absent`, that a failed start
never started the signal goroutine. `AtMostOnce` says a datagram taken from a closed
source was the last. `StreamIntact` is inductive on top of the types: the head of the
queue is the least of its port's, which begin where the taken ones end. The proofs
assume the named ASSUMEs: `main` and `signal` are callers, sizes are positive.

`RefDataFeedProofs`, for every set of ids, modulus, window, delay between ports and number
of datagrams, with any loss: `RefTypeOK`, `ReadySetIsPublished`, `VerdictIsNotStarved` and
`ShutdownVerdictIsTrue`. The first two follow from one invariant, `RefInv`. Its heart is
`EraKnown`: the validator is typed, and while the paths have read one Reset Count only, the
set it collects is part of the one set published under that Reset Count and Manifest Seq
(`Coheres`) - which rests on a summary with another sequence starting from nothing, on the
`latest` tag a definition is matched with, and on `onResetChannel` at the first frame of
another era. A frame keeps it if it says what was published (`Readable`), so the invariant
follows the frames back: what each tracker holds (`BufferInv`), what is under way (`NetInv`)
and what the publisher has said (`PubInv`). `BufferInv` also says that a held frame is not
under way any more: two items of one number would have ranks 0 and 1, and `Walk` reads one
item per place. `ReadAll`, `Walk` and `Flushed` are folds over a datagram's messages, a
drained heap and the ports. Each is a recursive function, with a lemma that a function with
its equation exists and one that carries the invariant to its end; both go by a least
counterexample, since the library's induction theorems cannot be used. The proofs assume the
named ASSUMEs of the modules. Two are about the run and not about shapes
(`ApartAssumption`): no Manifest Seq comes back in an era and no Reset Count in a run - one
that did would name two sets, and no receiver could tell - and with resets one path carries
the reference data. The last is a limit of the code: two paths in two eras share one
validator (`processRefdataFrame` resets the channel whenever a path's Reset Count differs
from the one that path read last), so the set of one era can be served to a path in another,
and `ReadySetIsPublished` is false of such a run.

`VerdictIsNotStarved` follows from a second invariant on top of it, `DeadlineInv`. A path's
frames are heard once each: what a port buffers, what is under way and what was accepted
have different numbers (`HeardInv`), so a frame that was heard stays in its buffer until it
is read. `Decide` leaves a verdict open past its deadline only for a datagram that was sent
in time and is not read yet, and every read ends in `Decide`; so a verdict still open has a
buffered datagram to wait for (`Awaited`), through the walk of a drained heap
(`WalkAwaited`), a reset, a loss and a frame of another port, and the end of the run decides
whatever is open. The run's plans have natural numbers as cadence and cycle. Timestamps that
run backwards over a serving period are excepted by the property (`v.first <=
v.lastServing`).

`ShutdownVerdictIsTrue` follows from a third, `EndInv`. A session ends with EndOfSession on
mktdata and Valid=0 on a refdata path, in either order; a Valid=0 that finds a set is held
until the announcement is read, and charged when a Valid=1 or the end of the run comes
first. A Valid=1 also deletes the note that an announcement was read. So the invariant
speaks of what is still to be read, buffered or under way: for each Valid=0 of it, and for
one that is held, an announcement is noted or still to come, before every Valid=1 that is
sent after it and after every one sent before it (`Told`, `Quiet`). It rests on the order
within a path (`SignedInv`: what is under way is behind what is buffered, in the order of
sending) and on `crossed` for the order between the ports: `FlushUncrossed` and
`DeliveryUncrossed` show that reading a frame that overtakes nothing leaves the pairs to
come in order (`Peace`). Each frame read keeps `Peace` (`WalkPeace`, `DeliverPeace`,
`EndRunPeace`), each frame sent extends it. Losing a frame of a refdata path removes a
Valid=0 or a Valid=1 and keeps it. Losing the announcement does not, hence the premise that
mktdata loses nothing - and *dropped* in `crossed`, which the attempt at the proof brought
out: when a refdata path skips an era, mktdata enters that era after the channel has heard
of the next one, so mktdata's first frames of the next era look like stragglers
(`state.go:425`); an announcement that the network delivered can be dropped so, and the
Valid=0 is then charged. The property says nothing of a session that ends on two refdata
paths: there a Valid=0 on one ends what the other serves (section 4).

`MbpFeedProofs`, for every set of instruments and prices, every window, journal bound and
plan whose Reset Counts differ: `MbpTypeOK`, by `MbpInv`. A handler keeps the types of a
message that is typed, so the invariant says of every message the publisher holds, has under
way or a buffer holds that it is, and that a port's frames are under way in the order of
their numbers, behind all its buffer holds: a buffer then holds a number once, and `Walk`
reads one item per place.

The second part of `MbpFeedProofs`: `TrustedLadderIsTrue` in every run that loses no delta,
`NoFalseMismatch` and `NoFalseDensity` in every run that is `Steady` - no channel reset, no
InstrumentReset and no delta lost. Snapshot datagrams may be lost, the ports may be skewed,
and instruments, prices, groups, deltas and the journal bound are any. The invariant
`SteadyInv` follows each frame from the publisher to the validator. `InstrTrue`: the
baseline is the published ladder of its point, every journal entry is the published delta of
its number, and every delta from the baseline to the last applied one is in the journal or
known to be dropped. `DeltasOK`: each delta to come is the next of its instrument, or
follows one that comes before it, so a delta read is never ahead of the tracker - it may be
behind, where a group was adopted first - and the density rule sees no gap. `GroupsOK`: the
groups to come follow each other, each shows the ladder of its capture, none is older than
the baseline, and a group being collected holds levels of that ladder only (`Pure`); it ends
with the announced number of levels and no duplicate only if it has them all, by counting
(`WholeGroup`), so what `finishMBPSnapshot` adopts or compares is a published ladder,
whatever was lost. A group may lag behind the deltas or run ahead of them; comparing it with
the journal's replay at its own point is what keeps the oracle right (`ReplayIsTrue`).
`Steady` is the limit of what the code can know: after a reset is classified out of its
order the baseline of one era can meet the deltas of another, and a delta lost behind a
baseline at 0 leaves no gap (`mbp.go:829`).

`MboFeedProofs`, for every set of instruments and orders, every window, every size of the
book's windows and every plan: `MboTypeOK` and `TrustedBookIsTrue`. Both follow from one
invariant, `MboInv`. Its flow part is that of the other feeds: what is under way is typed, in
order, behind what a buffer holds, and nothing still to come carries a number the tracker has
accepted (`FlowInv`), so `Walk` classifies each item of a batch once, in order. Its heart is
`TruthOn(w, D)`: what the validator `w` and the mktdata frames `D` it has not classified say
together. Per instrument, a trusted book shows the visible orders that rested after the delta
it stands at (`Mirror`); every delta to come has a higher number than that (`TrueBook`) and leads
from one published set of orders to the next (`TrueDeltas`, `Leads`). A correction breaks
this: after an InstrumentReset the publisher's orders are not those its next delta is
counted from, and the delta would lead a trusted book astray. The invariant says why it never does
(`Cut`): the reset itself comes first, or it came, and the instrument is trusted again only at
delta 1, which comes no more. A frame lost, a straggler dropped, a wipe by the first port of
an era, a walk of a drained heap, a snapshot group and the end of the run each carry `TruthOn`
from one pair `(w, D)` to the next (`LostTruth`, `HeadDropped`, `WipedTruth`, `BatchIsTrue`,
`KeptTruth`); each step of the publisher adds its frame to `D`. A lost delta leaves a gap in the
numbers, and a book behind a gap is not trusted, so `TrustedBookIsTrue` needs no
assumption on what is lost - while `NoFalseFinding` does. Snapshot groups change nothing of it: the
code keeps its own book by deltas alone and a group only audits it. The property excepts runs
in which a reset was classified out of its order, but not those in which one cut another
instrument's group (`InOrder`); of the three crossings the proof uses only
the era's: a snapshot datagram that enters an era wipes the validator, and mktdata frames of
the old era would fill it again.

Two premises are about the run. `CountsDiffer`: no Reset Count comes back within a run, since
the code cannot tell two eras of one Reset Count apart. `Followed`: a publisher that sends
InstrumentResets loses no mktdata frame. Where it does, the reset itself can be lost, and a
book goes on from orders the publisher has corrected; the tracker marks the loss
(`dirtyWindow`), which the property allows for, but the mark is cleared when the port opens
another era. The instances keep to both premises. The model's publisher starts each era from
empty books, which is what lets the code trust delta 1 (section 4).

Model-checked only: of `MbpFeed`, what `NoFalseMismatch` and `NoFalseDensity` say of runs with
resets, and `NoFalseGroupFinding`; of `MboFeed`, `NoFalseFinding` and `NoFalseSuspicion`, which
need, on top of `TruthOn`, the order of the frames of one port against those of the other (a
group is compared with a book the deltas have led past corrections that the group already
shows); of `RefDataFeed`, `NoFalseSetFinding` and `DeadlineVerdictIsTrue`, which relate findings to
what was sent before and to the times of it; and every
liveness property (fairness is out of the prover's reach).

## 6. Plan

Done: `IdWindow` and its refinement, `PortSeries`, `ChannelFeed`, `PortNetwork`,
`MbpConsumer` and `MbpFeed`, `OrderBook` and `OrderFlow`, `MboConsumer` and `MboFeed`,
`RefDataConsumer` and `RefDataFeed`, `MulticastSource` and `LiveRun`, with the runs of
section 3 and the proofs of section 5.

Left:

1. Capture-loss epochs (`engine.go:371`), Send Timestamps and heartbeat cadence in the
   intake; several source addresses on one channel (`leftCount`).
2. `onManifestBump` in `MboConsumer`: a set change in the middle of a book series,
   driven by `RefDataFeed`'s publisher.
3. Proofs: `NoFalseGroupFinding` of `MbpFeed`; `NoFalseSuspicion` of `MboFeed`, from
   `MboInv` and an invariant on the groups under way like `GroupsOK`.

## 7. Not modelled

Structural rules (`tier1.go`), wire layout, capture-file parsing, the registry and
the reports keep no state a rule depends on. Top-of-book and midpoint validators
are field checks and a lookup in the reference-data set, whose correctness is
`ReadySetIsPublished`. Admitted capture loss, several source addresses, Send Timestamps
outside reference data and heartbeat cadence are not modelled (section 6). Within the
market-by-order validator the payload ring of 16 deltas is longer than an era of the
instances, Per-Instrument Seq does not wrap, the set does not change, and reference data
is ready throughout. Within reference data a `StrikeInterval` that a structural rule
rejects, and the downgrade for a datagram of an unknown schema, are left out; a
definition is its id, instrument and strike. Of the run loop the metrics listener, which
fails before anything is open, the admissions of capture loss and the writing of the
report are left out.

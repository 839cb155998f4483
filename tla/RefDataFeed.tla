----------------------------- MODULE RefDataFeed -----------------------------
(***************************************************************************)
(* The reference data of a channel end to end: a publisher, the ports of   *)
(* PortNetwork, the intake of PortSeries and the validator of              *)
(* RefDataConsumer, joined the way Engine.Process, Engine.classify and     *)
(* processRefdataFrame join them. Every port but mktdata is a path of the  *)
(* channel's refdata port; the paths share one validator state.            *)
(*                                                                         *)
(* The publisher is not part of the repository's program. It does what     *)
(* reference-data/spec.md asks of one, except where a plan says otherwise. *)
(* A plan also says: paths, the refdata paths it sends on, and opening,    *)
(* those a session may begin on; seqs and start, the Manifest Seqs and the *)
(* sets it may begin with; moving and strikes, the instruments that set    *)
(* changes are about and what a new one may show; changes and sessions,    *)
(* how many set changes and starts; announces, whether an EndOfSession     *)
(* goes with the Valid=0 that ends a session; paced, whether it keeps the  *)
(* cadence, else it may be late; cadence and cycle, its intervals and the  *)
(* --expect flags, 0 where time plays no part; and liberties, what it does *)
(* that the supplement leaves free and a rule charges: ahead, definitions  *)
(* of a changed set before its summary (rule 5 there), and interval, a     *)
(* definition repeated no sooner than its whole cycle (rule 1). Bounds:    *)
(* length, the datagrams of a path and an era; heartbeats, those of        *)
(* mktdata; instants, what the clock passes through.                       *)
(***************************************************************************)
EXTENDS PortNetwork, RefDataConsumer

VARIABLES
  clock,        \* the publisher's clock, which stamps each datagram
  serving,      \* whether Valid is 1
  ending,       \* what still has to be sent of a session's end
  mseq,         \* Manifest Seq
  instruments,  \* the set: each Instrument ID's instrument, or NoOne
  did,          \* sessions started, set changes made, the paths that have
                \* sent a Valid=1 summary in the session and era, whether the
                \* set is ahead of its summary, and (history) liberties taken
  lastDef,      \* paced: when each instrument was last defined
  due,          \* paced: whether this tick's datagram is still to be sent
  published,    \* history: the sets published, by era and Manifest Seq
  owed,         \* history: the serving period as sent; see Owing
  ext,          \* what only reference data reads of a tracker: refdataEra,
                \* taints and lastArrival (lastArrivalSendTS)
  v             \* the validator (Engine.refdata and Engine.sessionEnd)

pubVars == <<clock, serving, ending, mseq, instruments, did, lastDef, due, published, owed>>
recVars == <<ext, v>>
allVars == <<vars, netVars, pubVars, recVars>>

Paths == Ports \ {"mktdata"}
NoEra == -1      \* of a path that has read nothing yet

-----------------------------------------------------------------------------
(* The publisher.                                                          *)
NoOne == [symbol |-> 0, strike |-> "none"]

Members(set) == {id \in Ids : set[id] # NoOne}

Strikes == {"none", "absent", "pending", "fixed"}
Listing == [symbol : 0 .. 2, strike : Strikes]

ASSUME RefPlansAssumption ==
  \A p \in Plans :
    /\ p.paths \subseteq Paths
    /\ p.seqs \subseteq 0 .. M - 1 /\ p.changes \in Nat /\ p.instants \subseteq Nat
    /\ p.cadence \in Nat /\ p.cycle \in Nat /\ p.announces \subseteq {"endOfSession"}
    /\ p.strikes \subseteq Strikes /\ p.start \subseteq [Ids -> Listing]
    /\ p.liberties \subseteq {"ahead", "interval"}
    /\ "ahead" \in p.liberties => p.cadence = 0 /\ p.cycle = 0

(* What tells sets apart: no Manifest Seq comes back in an era (M stands   *)
(* for 2^16) and no Reset Count in a run (for 2^8). With resets, one path  *)
(* carries the reference data: two paths in two eras would share one set.  *)
FewChanges(p) ==
  /\ p.changes < M
  /\ \A a, b \in 0 .. p.resets : ResetCountOf(a) = ResetCountOf(b) => a = b

SoleReader(p) == p.resets = 0 \/ \A a, b \in p.paths : a = b

ASSUME ApartAssumption == \A p \in Plans : FewChanges(p) /\ SoleReader(p)

(* A datagram of a plan that is not skewed has arrived, or is lost, before *)
(* the publisher goes on: only the order of arrivals reaches the receiver. *)
PublisherOnly ==
  /\ running
  /\ plan.skewed \/ net = << >>
  /\ UNCHANGED <<vars, plan, recVars, crossed, running>>

Summary(valid, seq, set) ==
  [type |-> "summary", valid |-> valid, seq |-> seq, count |-> Cardinality(Members(set)),
   ts |-> clock]

Definition(id) ==
  [type |-> "def", id |-> id, seq |-> mseq, symbol |-> instruments[id].symbol,
   strike |-> instruments[id].strike, ts |-> clock]

(* What the deadline rule is about, told by the publisher: when a serving  *)
(* period began, what was defined in it, and whether a datagram went out   *)
(* in it past the deadline with the set still incomplete.                  *)
Begun(o) == [o EXCEPT !.start = clock, !.have = {}]

Owing(o, ids) ==
  [o EXCEPT !.overdue = @ \/ (clock - o.start > plan.cadence + plan.cycle
                               /\ o.have # Members(instruments)),
            !.have = @ \cup ids]

Room(p) == p \in plan.paths /\ sent[p] < plan.length

(* Two paths share the validator's state, so a Valid=0 of one would end    *)
(* what the other serves: only a path alone sends it.                      *)
Alone == Cardinality(plan.paths) = 1

SendSummary(p) ==
  /\ PublisherOnly /\ ~plan.paced /\ Room(p)
  /\ ending = {} /\ (serving \/ Alone)
  /\ did' = IF serving THEN [did EXCEPT !.summed = @ \cup {p}, !.ahead = FALSE] ELSE did
  /\ Put(p, <<Summary(IF serving THEN 1 ELSE 0, mseq, instruments)>>)
  /\ owed' = IF serving THEN Owing(owed, {}) ELSE owed
  /\ UNCHANGED <<clock, serving, ending, mseq, instruments, lastDef, due, published>>

Takes(yes, liberty) == [did EXCEPT !.took = IF yes THEN @ \cup {liberty} ELSE @]

(* On each path a summary goes before the session's definitions, but not   *)
(* before those of a set that changes within it.                           *)
SendDefinition(p, id) ==
  /\ PublisherOnly /\ ~plan.paced /\ Room(p)
  /\ serving /\ instruments[id] # NoOne /\ p \in did.summed
  /\ Put(p, <<Definition(id)>>)
  /\ did' = Takes(did.ahead, "ahead")
  /\ owed' = Owing(owed, {id})
  /\ UNCHANGED <<clock, serving, ending, mseq, instruments, lastDef, due, published>>

(* A paced publisher sends one datagram a tick, a summary and a definition *)
(* in its turn, so that each is repeated within the cycle, or with that    *)
(* liberty when it is just over.                                           *)
Longest == IF "interval" \in plan.liberties THEN plan.cycle ELSE plan.cycle - 1

InTurn(ids) ==
  \A j \in Members(instruments) \ ids : clock + 1 - lastDef[j] <= Longest

SendPaced(p, id) ==
  /\ PublisherOnly /\ due /\ Room(p)
  /\ serving /\ instruments[id] # NoOne /\ InTurn({id})
  /\ \/ Put(p, <<Summary(1, mseq, instruments), Definition(id)>>)
     \/ Put(p, <<Definition(id), Summary(1, mseq, instruments)>>)
  /\ did' = Takes(clock - lastDef[id] >= plan.cycle, "interval")
  /\ owed' = Owing(owed, {id})
  /\ lastDef' = [lastDef EXCEPT ![id] = clock]
  /\ due' = FALSE
  /\ UNCHANGED <<clock, serving, ending, mseq, instruments, published>>

Start(p) ==
  /\ PublisherOnly /\ Room(p) /\ p \in plan.opening
  /\ ~serving /\ ending = {}
  /\ did.sessions < plan.sessions
  /\ serving' = TRUE
  /\ did' = [did EXCEPT !.sessions = @ + 1, !.summed = {p}, !.ahead = FALSE]
  /\ Put(p, <<Summary(1, mseq, instruments)>>)
  /\ owed' = Begun(owed)
  /\ lastDef' = [id \in Ids |-> clock]
  /\ due' = FALSE
  /\ UNCHANGED <<clock, ending, mseq, instruments, published>>

(* One instrument joins, leaves, or gives its ID to another. The summary   *)
(* of the new set goes out at once, or with that liberty later: two        *)
(* changes may then share one, which skips a Manifest Seq.                 *)
Instrument == [symbol : {1, 2}, strike : plan.strikes]

NewSet(id, x) == [instruments EXCEPT ![id] = x]
NewSeq        == (mseq + 1) % M

SetChanges(id, x) ==
  /\ serving /\ did.changes < plan.changes /\ id \in plan.moving
  /\ x # instruments[id]
  /\ x # NoOne /\ instruments[id] # NoOne => x.symbol # instruments[id].symbol
  /\ Members(NewSet(id, x)) # {}
  /\ instruments' = NewSet(id, x)
  /\ mseq' = NewSeq
  /\ published' = published \cup {[era |-> feedEra, seq |-> NewSeq, ids |-> Members(NewSet(id, x))]}
  /\ owed' = Begun(owed)
  /\ lastDef' = [lastDef EXCEPT ![id] = clock]

Skips == IF did.ahead THEN did.took \cup {"skipped"} ELSE did.took

Change(p, id, x) ==
  /\ PublisherOnly /\ Room(p)
  /\ plan.paced => due /\ InTurn({})
  /\ SetChanges(id, x)
  /\ Put(p, <<Summary(1, NewSeq, NewSet(id, x))>>)
  /\ did' = [did EXCEPT !.changes = @ + 1, !.summed = @ \cup {p}, !.ahead = FALSE, !.took = Skips]
  /\ due' = FALSE
  /\ UNCHANGED <<clock, serving, ending>>

ChangeAhead(id, x) ==
  /\ PublisherOnly /\ "ahead" \in plan.liberties
  /\ SetChanges(id, x)
  /\ did' = [did EXCEPT !.changes = @ + 1, !.ahead = TRUE, !.took = Skips]
  /\ UNCHANGED <<net, sent, feedEra>>
  /\ UNCHANGED <<clock, serving, ending, due>>

(* A pending strike is fixed: no change of the set.                        *)
FixStrike(id) ==
  /\ PublisherOnly
  /\ id \in plan.moving
  /\ instruments[id] # NoOne /\ instruments[id].strike = "pending"
  /\ instruments' = [instruments EXCEPT ![id].strike = "fixed"]
  /\ UNCHANGED <<net, sent, feedEra>>
  /\ UNCHANGED <<clock, serving, ending, mseq, did, lastDef, due, published, owed>>

(* A session ends with EndOfSession on mktdata and Valid=0 on refdata.     *)
Ends(x) ==
  /\ serving \/ x \in ending
  /\ serving' = FALSE
  /\ ending' = (IF serving THEN {"zero"} \cup plan.announces ELSE ending) \ {x}
  /\ UNCHANGED <<clock, mseq, instruments, did, lastDef, due, published, owed>>

SendZero(p) ==
  /\ PublisherOnly /\ ~plan.paced /\ Alone /\ Room(p)
  /\ Ends("zero")
  /\ Put(p, <<Summary(0, mseq, instruments)>>)

SendEndOfSession ==
  /\ PublisherOnly
  /\ "endOfSession" \in plan.announces
  /\ Ends("endOfSession")
  /\ Put("mktdata", <<[type |-> "endOfSession"]>>)

Heartbeat ==
  /\ PublisherOnly
  /\ serving /\ sent["mktdata"] < plan.heartbeats
  /\ Put("mktdata", << >>)
  /\ UNCHANGED pubVars

Tick ==
  /\ PublisherOnly
  /\ ~due
  /\ \E t \in plan.instants :
       t > clock /\ clock' = t /\ plan.instants \cap (clock + 1 .. t - 1) = {}
  /\ due' = (plan.paced /\ serving)
  /\ UNCHANGED <<net, sent, feedEra>>
  /\ UNCHANGED <<serving, ending, mseq, instruments, did, lastDef, published, owed>>

(* A channel reset, between the messages of a session's end or not at all. *)
(* Manifest Seq may start again.                                           *)
ChannelReset(seq) ==
  /\ PublisherOnly
  /\ ending = {}
  /\ NextEra
  /\ mseq' = seq
  /\ published' = published \cup {[era |-> feedEra + 1, seq |-> seq, ids |-> Members(instruments)]}
  /\ did' = [did EXCEPT !.summed = {}, !.ahead = FALSE]
  /\ UNCHANGED <<clock, serving, ending, instruments, lastDef, due, owed>>

-----------------------------------------------------------------------------
(* What the validator asks the engine: dirtyOn, mktdataObserved.           *)
Context(s, p, ts) ==
  [ ts |-> ts, dirty |-> s.pt[p].dirty, taints |-> s.ext[p].taints,
    cadence |-> plan.cadence, cycle |-> plan.cycle,
    anyDirty |-> \E q \in Paths : s.pt[q].dirty,
    mktSeen |-> s.pt["mktdata"].eraPos # 0, mktDirty |-> s.pt["mktdata"].dirty,
    unread |-> FALSE, stranded |-> FALSE ]

StoppedNever(x, now, c) == FALSE      \* variant: a silent path is waited for

(* refdataUnclassifiedWithin: what the buffers of all paths still hold     *)
(* from before the deadline, on a path that still sends or one that        *)
(* stopped. The items of a drained buffer count until they are classified. *)
Stopped(x, now, c) == now - x.lastArrival > Window(c)

SentAt(item) == Head(item.body.msgs).ts

WithBuffers(c, s, w) ==
  LET InTime(q) == {i \in s.pt[q].buf : SentAt(i) <= w.first + Window(c)}
  IN  [c EXCEPT
        !.unread   = \E q \in Paths : ~Stopped(s.ext[q], ClosedBy(w), c) /\ InTime(q) # {},
        !.stranded = \E q \in Paths : /\ Stopped(s.ext[q], ClosedBy(w), c)
                                      /\ \E i \in InTime(q) : SentAt(i) >= w.first]

ReadAll(w, msgs, c) ==
  LET read[n \in 0 .. Len(msgs)] == IF n = 0 THEN w ELSE OnRefData(read[n - 1], msgs[n], c)
  IN  read[Len(msgs)]

(* processRefdataFrame. A path that enters another era than it last read   *)
(* discards the channel's state.                                           *)
OnRefDataFrame(s, p, item) ==
  LET c     == Context(s, p, SentAt(item))
      fresh == IF s.ext[p].refdataEra \notin {NoEra, item.rc} THEN OnResetChannel(s.v) ELSE s.v
      w     == Clocked(ReadAll(fresh, item.body.msgs, c), c)
  IN  [s EXCEPT !.v = Decide(w, WithBuffers(c, s, w), FALSE), !.ext[p].refdataEra = item.rc]

(* observeSessionEnd.                                                      *)
OnMktdataFrame(s, item) == [s EXCEPT !.v.sessionEnd = @ \/ Carries(item, "endOfSession")]

Tainted(x, isTaint) == [x EXCEPT !.taints = @ + IF isTaint THEN 1 ELSE 0]

(* classify; an accepted frame goes to its port's handler.                 *)
ClassifyItem(p, s, item) ==
  LET t     == s.pt[p]
      fresh == FreshOf(t, {item})
      seen  == [s EXCEPT !.pt[p]  = [Classify(t, {item}) EXCEPT !.buf = @ \ {item}],
                         !.ext[p] = Tainted(@, HasGap(t, fresh))]
  IN  IF fresh = {} THEN seen
      ELSE IF p = "mktdata" THEN OnMktdataFrame(seen, item)
      ELSE OnRefDataFrame(seen, p, item)

Walk(p, s, S) ==
  LET walked[n \in -1 .. LastPlace] ==
        IF n = -1 THEN s
        ELSE IF At(S, n) = {} THEN walked[n - 1]
        ELSE ClassifyItem(p, walked[n - 1], CHOOSE item \in At(S, n) : TRUE)
  IN  walked[LastPlace]

(* Process: the path is noted to send; then the old era's items, then the  *)
(* item the window pops.                                                   *)
Arrived(p, d) ==
  [ext EXCEPT ![p].lastArrival = Later(@, IF p = "mktdata" THEN NoTS ELSE SentAt(d))]

Processed(p, d) ==
  LET drained == IF Advances(p, d) THEN pt[p].buf ELSE {}
      old     == Walk(p, [pt |-> pt, ext |-> Arrived(p, d), v |-> v], drained)
      pushed  == Push(Opened(p, d), d)
      new     == [old EXCEPT !.pt[p]  = pushed,
                             !.ext[p] = Tainted(@, Advances(p, d) /\ Late(pt[p], d))]
  IN  IF Overflows(pushed) THEN ClassifyItem(p, new, HeadOf(pushed)) ELSE new

Receives(p, d) ==
  /\ ~Quarantines(p, d)
  /\ LET s == Processed(p, d) IN pt' = s.pt /\ ext' = s.ext /\ v' = s.v
  /\ EntersFor(p, d)

Drops(p, d) == Quarantine(p, d) /\ ext' = Arrived(p, d) /\ UNCHANGED v

(* An end of session and a Valid=1 summary, out of their sending order.    *)
CrossedShutdown(pairs) ==
  LET Serves(f)      == \E m \in ToSet(f.body.msgs) : m.type = "summary" /\ m.valid = 1
      Between(e, f)  == Carries(e, "endOfSession") /\ Serves(f)
  IN  IF \E x \in pairs : Between(x[1], x[2]) \/ Between(x[2], x[1]) THEN {"shutdown"} ELSE {}

(* The intake takes the announcement of a session's end for a straggler.   *)
Straggled(p, d) ==
  IF Quarantines(p, d) /\ Carries(d, "endOfSession") THEN {"dropped"} ELSE {}

Deliver(n) ==
  /\ running
  /\ Arriving(n)
  /\ LET d == [rc |-> net[n].rc, seq |-> net[n].seq, body |-> net[n].body]
         p == net[n].port
     IN  /\ Receives(p, d) \/ Drops(p, d)
         /\ crossed' = crossed \cup CrossedShutdown(PairsOnDelivery(p, d)) \cup Straggled(p, d)
  /\ net' = RemoveAt(net, n)
  /\ UNCHANGED <<pubVars, plan, feedEra, sent, running>>

Lose(n) == Dropping(n) /\ UNCHANGED <<pubVars, recVars>>

(* The run stops in the middle of a session's end.                         *)
CutShort ==
  IF "endOfSession" \in ending \/ \E d \in ToSet(net) : Carries(d, "endOfSession") THEN {"cut"} ELSE {}

(* Flush drains port after port.                                           *)
Flushed ==
  LET flushed[n \in 0 .. Len(FlushOrder)] ==
        IF n = 0 THEN [pt |-> pt, ext |-> ext, v |-> v]
        ELSE LET s == flushed[n - 1]
                 p == FlushOrder[n]
             IN  Walk(p, s, s.pt[p].buf)
  IN  flushed[Len(FlushOrder)]

(* The run ends: Flush, then Engine.EndRun.                                *)
EndRun ==
  /\ running
  /\ running' = FALSE
  /\ LET s == Flushed IN pt' = s.pt /\ ext' = s.ext /\ v' = AtEnd(s.v, Context(s, "mktdata", NoTS))
  /\ crossed' = crossed \cup CrossedShutdown(PairsOnFlush) \cup CutShort
  /\ UNCHANGED <<pos, next, pubVars, plan, feedEra, sent, net>>

RefInit ==
  /\ NetInit
  /\ clock = 0 /\ serving = FALSE /\ ending = {}
  /\ mseq \in plan.seqs /\ instruments \in plan.start
  /\ did = [sessions |-> 0, changes |-> 0, summed |-> {}, ahead |-> FALSE, took |-> {}]
  /\ lastDef = [id \in Ids |-> 0] /\ due = FALSE
  /\ published = {[era |-> 0, seq |-> mseq, ids |-> Members(instruments)]}
  /\ owed = [start |-> 0, have |-> {}, overdue |-> FALSE]
  /\ ext = [p \in Ports |-> [refdataEra |-> NoEra, taints |-> 0, lastArrival |-> NoTS]]
  /\ v = NewRefData

RefNext ==
  \/ \E p \in Paths : SendSummary(p) \/ Start(p) \/ SendZero(p)
  \/ \E p \in Paths, id \in Ids : SendDefinition(p, id) \/ SendPaced(p, id)
  \/ \E p \in Paths, id \in Ids, x \in Instrument \cup {NoOne} : Change(p, id, x)
  \/ \E id \in Ids, x \in Instrument \cup {NoOne} : ChangeAhead(id, x)
  \/ \E id \in Ids : FixStrike(id)
  \/ SendEndOfSession
  \/ Heartbeat
  \/ Tick
  \/ \E seq \in {1, mseq} : ChannelReset(seq)
  \/ \E n \in DOMAIN net : Deliver(n)
  \/ \E n \in DOMAIN net : Lose(n)
  \/ EndRun

RefSpec == RefInit /\ [][RefNext]_allVars

-----------------------------------------------------------------------------
(* A frozen set is what its validator serves, and a channel that is ready  *)
(* knows since when.                                                       *)
RefTypeOK ==
  /\ v.defs \subseteq Ids /\ v.frozen \subseteq v.defs /\ v.seen \subseteq Ids
  /\ v.latest \in 0 .. M - 1
  /\ v.frozen # {} => v.valid /\ v.hadSet /\ v.ready # NoTS
  /\ v.pending \in {Nil, "clean", "dirty"}
  /\ v.valid => v.first # NoTS /\ v.lastServing # NoTS
  /\ \A id \in Ids : v.strikes[id] # NoStrike => v.valid

(* No rule on the set, its sequence, its strikes or its timing charges a   *)
(* publisher that keeps to the supplement, whatever is lost and however    *)
(* sets change, sequences wrap and the channel resets, with four           *)
(* exceptions, where the code charges what the supplement leaves free:     *)
(* after a wrap, a summary that repeats sequence 0; definitions sent ahead *)
(* of the summary of their set, as its rule 5 lets them be                 *)
(* (onInstrumentDef takes them for stale); two changes announced by one    *)
(* summary; and a definition repeated after exactly the cycle of rule 1    *)
(* (the window closes at >=). Each is charged only to a publisher that did *)
(* that; the end of a session has ShutdownVerdictIsTrue.                   *)
Lawful == plan.cadence = 0 \/ plan.paced

Reported ==
  {"VALID_FLAG_WHILE_SERVING"}
    \cup (IF \E set \in published : set.seq = 0 THEN {"MANIFEST_SEQ_NONZERO_WHEN_VALID"} ELSE {})
    \cup (IF "ahead" \in did.took THEN {"STALE_SEQ_TAG_AFTER_BUMP"} ELSE {})
    \cup (IF "skipped" \in did.took THEN {"SEQ_BUMP_NOT_BY_ONE"} ELSE {})
    \cup (IF "interval" \in did.took THEN {"DEFINITION_CYCLE_COVERAGE"} ELSE {})

NoFalseSetFinding == Lawful => v.findings \subseteq Reported

(* A set that the validators rely on (channelKnown, defInfoFor) is the one *)
(* the publisher published at that Manifest Seq: never one put together    *)
(* from two sets, whatever is lost between them.                           *)
ReadySetIsPublished ==
  \A p \in Paths :
    Ready(v) /\ ext[p].refdataEra # NoEra =>
      \E set \in published :
        /\ ResetCountOf(set.era) = ext[p].refdataEra
        /\ set.seq = v.latest /\ set.ids = v.defs

(* The Valid=0 that ends a session is charged only when the announcement   *)
(* of its end and a Valid=1 summary were classified out of their sending   *)
(* order, the run stopped between the two messages, or the announcement    *)
(* was lost: on the network, or dropped as a straggler.                    *)
ShutdownVerdictIsTrue ==
  "VALID_FLAG_WHILE_SERVING" \in v.findings /\ plan.announces # {} /\ "mktdata" \notin plan.lossy
    => crossed # {}

(* What TestShutdownSummaryIsNotAViolation says: a clean shutdown is not a *)
(* violation, whichever of its two messages is classified first.           *)
ShutdownIsNeverCharged ==
  plan.announces # {} /\ "cut" \notin crossed => "VALID_FLAG_WHILE_SERVING" \notin v.findings

(* NEVER_REACHES_READY is charged only if a datagram went out past the     *)
(* deadline of a serving period with its set still incomplete on all paths *)
(* together, whichever path is read first, except that the moment a set on *)
(* two paths became complete is taken from the definition read last; and,  *)
(* on one path without loss, it is charged whenever that happened, be it   *)
(* through silence.                                                        *)
DeadlineVerdictIsTrue ==
  /\ "NEVER_REACHES_READY" \in v.findings => owed.overdue \/ (~Alone /\ v.ready # NoTS)
  /\ ~running /\ net = << >> /\ plan.lossy = {} /\ Alone
       /\ owed.overdue => "NEVER_REACHES_READY" \in v.findings

(* What decideNeverReachesReady says of the buffers it waits for: a late   *)
(* ready is not late before every datagram sent in time is read.           *)
InTimeIsNeverLate == "NEVER_REACHES_READY" \in v.findings => owed.overdue

(* Past the deadline of a serving period the verdict waits only for a path *)
(* heard within the last window, which still buffers a datagram sent in    *)
(* time: never for one that stopped, and no verdict is missed when a       *)
(* buffer drains. Of timestamps that run backwards nothing is said.        *)
VerdictIsNotStarved ==
  LET window  == plan.cadence + plan.cycle
      Overran == v.first <= v.lastServing /\ ClosedBy(v) - v.first > window
  IN  plan.cadence > 0 /\ plan.cycle > 0 /\ v.valid /\ Overran /\ ~v.decided =>
        \E q \in Paths :
          /\ ClosedBy(v) - ext[q].lastArrival <= window
          /\ \E item \in pt[q].buf : SentAt(item) <= v.first + window
=============================================================================

------------------------------- MODULE MboFeed -------------------------------
(***************************************************************************)
(* A market-by-order channel end to end: a conformant publisher, the two   *)
(* ports of PortNetwork, the intake of PortSeries and the validator of     *)
(* MboConsumer, joined the way Engine.Process and Engine.classify join     *)
(* them. Every violation reported here is a false one.                     *)
(*                                                                         *)
(* The publisher is not part of the repository's program; it does what     *)
(* market-by-order/spec.md asks of one. No order rests when a session      *)
(* starts, and a channel reset starts from empty books.                    *)
(*                                                                         *)
(* A plan also says: instruments and orders, what is traded; packed,       *)
(* whether a snapshot group fits one datagram; correcting, whether the     *)
(* publisher sends InstrumentReset "never", "between" groups or also       *)
(* "during" another instrument's group; and the bounds of one era: deltas  *)
(* and groups of an instrument; beats, the sequence numbers a heartbeat    *)
(* may have; and ahead, the bound on the datagrams under way (where all    *)
(* arrive in their sending order, one says as much as many).               *)
(***************************************************************************)
EXTENDS PortNetwork, MboConsumer

CONSTANTS
  Hidings,      \* whether orders are hidden: a subset of BOOLEAN
  MaxLots       \* bound on the quantity of an order

ASSUME FeedAssumption == Hidings \subseteq BOOLEAN /\ MaxLots \in Nat

ASSUME MboPlansAssumption ==
  /\ "snapshot" \in Ports
  /\ \A p \in Plans :
       p.instruments \subseteq Instruments /\ p.orders \subseteq OrderIds /\ p.deltas \in Nat

VARIABLES
  now,       \* per instrument, the orders that rest
  books,     \* and those that rested after each delta of the era
  groups,    \* per instrument, the snapshot groups begun in the era
  rest,      \* messages of the snapshot group being sent
  awaiting,  \* per instrument, the anchor of the recovery snapshot that is due
  v          \* the validator (Engine.mbo)

pubVars == <<now, books, groups, rest, awaiting>>
allVars == <<vars, netVars, pubVars, v>>

-----------------------------------------------------------------------------
(* The publisher.                                                          *)
SeqNow(i) == Len(books[i]) - 1

PublisherOnly ==
  running /\ Len(net) < plan.ahead /\ UNCHANGED <<vars, plan, v, crossed, running>>

(* One delta, with whatever rides in its datagram.                         *)
SendDelta(i, body, riders, after) ==
  /\ PublisherOnly
  /\ SeqNow(i) < plan.deltas /\ awaiting[i] = Nil
  /\ Put("mktdata", <<[type |-> "delta", instr |-> i, seq |-> SeqNow(i) + 1, body |-> body]>>
                      \o riders)
  /\ now' = [now EXCEPT ![i] = after]
  /\ books' = [books EXCEPT ![i] = Append(@, after)]
  /\ UNCHANGED <<groups, rest, awaiting>>

SendAdd(i, o, q, h) ==
  /\ \A past \in ToSet(books[i]) : \A r \in past : r.order # o
  /\ SendDelta(i, [type |-> "add", order |-> o, side |-> "bid", source |-> 1, qty |-> q,
                   hidden |-> h], << >>,
               now[i] \cup {[order |-> o, side |-> "bid", left |-> q, hidden |-> h]})

SendCancel(i, r) ==
  /\ r \in now[i]
  /\ SendDelta(i, [type |-> "cancel", order |-> r.order, source |-> 0], << >>,
               now[i] \ {r})

(* An execution of one lot, its trade report and the end of the batch.     *)
SendExecute(i, r) ==
  /\ r \in now[i]
  /\ SendDelta(i, [type |-> "execute", order |-> r.order, source |-> 1, aggressor |-> "unknown",
                   qty |-> 1, full |-> r.left = 1, trade |-> r.order],
               << [type |-> "trade", instr |-> i, body |-> [type |-> "trade", trade |-> r.order]],
                  [type |-> "batch", id |-> sent["mktdata"]] >>,
               (now[i] \ {r}) \cup IF r.left = 1 THEN {}
                                       ELSE {[r EXCEPT !.left = @ - 1]})

Heartbeat ==
  /\ PublisherOnly
  /\ sent["mktdata"] \in plan.beats
  /\ Put("mktdata", << >>)
  /\ UNCHANGED <<now, books, groups, rest, awaiting>>

(* A group is captured whole when it begins. Its anchor is the last        *)
(* mktdata frame sent, that of a recovery snapshot the reset's own frame.  *)
(* An order's instrument is a history field: the wire carries it in the    *)
(* begin and the end only.                                                 *)
Group(i) ==
  LET orders == SetToSeq(now[i])
      anchor == IF awaiting[i] # Nil THEN awaiting[i] ELSE sent["mktdata"] - 1
      id     == groups[i] + 1
      head   == [type |-> "begin", instr |-> i, id |-> id, anchor |-> anchor,
                 total |-> Len(orders), lastK |-> SeqNow(i)]
      body   == [n \in 1 .. Len(orders) |->
                   [type |-> "order", instr |-> i, id |-> id, order |-> orders[n].order,
                    side |-> orders[n].side, left |-> orders[n].left,
                    hidden |-> orders[n].hidden]]
      tail   == [type |-> "end", instr |-> i, id |-> id, anchor |-> anchor]
  IN  <<head>> \o body \o <<tail>>

Recovered(m) == IF m.type = "end" THEN [awaiting EXCEPT ![m.instr] = Nil] ELSE awaiting

SendGroup(i) ==
  /\ PublisherOnly
  /\ rest = << >>
  /\ sent["mktdata"] > 0
  /\ groups[i] < plan.groups
  /\ awaiting[i] # Nil \/ \A j \in plan.instruments : groups[i] <= groups[j]   \* round robin
  /\ Put("snapshot", IF plan.packed THEN Group(i) ELSE <<Head(Group(i))>>)
  /\ rest' = IF plan.packed THEN << >> ELSE Tail(Group(i))
  /\ groups' = [groups EXCEPT ![i] = @ + 1]
  /\ awaiting' = IF plan.packed THEN Recovered(Last(Group(i))) ELSE awaiting
  /\ UNCHANGED <<now, books>>

SendRest ==
  /\ PublisherOnly
  /\ rest # << >>
  /\ Put("snapshot", <<Head(rest)>>)
  /\ rest' = Tail(rest)
  /\ awaiting' = Recovered(Head(rest))
  /\ UNCHANGED <<now, books, groups>>

(* The publisher found that an order of its own book is none: it corrects  *)
(* the book and pauses the instrument's deltas until the recovery snapshot.*)
SendInstrumentReset(i, r) ==
  /\ PublisherOnly
  /\ r \in now[i]
  /\ awaiting[i] = Nil
  /\ plan.correcting # "never"
  /\ rest # << >> => plan.correcting = "during" /\ Last(rest).instr # i
  /\ Put("mktdata", <<[type |-> "reset", instr |-> i, anchor |-> sent["mktdata"]]>>)
  /\ now' = [now EXCEPT ![i] = @ \ {r}]
  /\ awaiting' = [awaiting EXCEPT ![i] = sent["mktdata"]]
  /\ UNCHANGED <<books, groups, rest>>

FreshEra ==
  /\ now' = [i \in Instruments |-> {}]
  /\ books' = [i \in Instruments |-> <<{}>>]
  /\ groups' = [i \in Instruments |-> 0]
  /\ rest' = << >>
  /\ awaiting' = [i \in Instruments |-> Nil]

(* A channel reset: every series starts again, a group in flight is cut.   *)
ChannelReset == PublisherOnly /\ NextEra /\ FreshEra

-----------------------------------------------------------------------------
DirtyOn(trackers, p) == trackers[p].dirty

GatesOfSeries(trackers) ==   \* variant: waiting mktdata frames are not counted
  [ mkt     |-> ~DirtyOn(trackers, "mktdata"),
    snap    |-> ~DirtyOn(trackers, "snapshot"),
    bound   |-> trackers["snapshot"].eraPos # 0,
    pending |-> FALSE ]

MktdataPending(trackers) == trackers["mktdata"].buf # {}

(* What the rules ask the intake before they charge: gateDetector,         *)
(* gateDetectorSnap, snapPortBound, mktdataPending.                        *)
Gates(trackers) ==
  [ mkt     |-> ~DirtyOn(trackers, "mktdata"),
    snap    |-> ~DirtyOn(trackers, "snapshot"),
    bound   |-> trackers["snapshot"].eraPos # 0,
    pending |-> MktdataPending(trackers) ]

(* The messages of a frame, in order.                                      *)
OnMessage(p, w, m, seq, g) ==
  IF p = "snapshot" THEN OnSnapshot(w, m, seq, g) ELSE OnMktdata(w, m, g)

ReadAll(p, w, msgs, seq, g) ==
  LET read[n \in 0 .. Len(msgs)] ==
        IF n = 0 THEN w ELSE OnMessage(p, read[n - 1], msgs[n], seq, g)
  IN  read[Len(msgs)]

OnFrame(p, w, item, g) ==
  ReadAll(p, IF p = "snapshot" THEN NoteSnapSeq(w, item.seq) ELSE NoteMktdata(w, item.seq),
          item.body.msgs, item.seq, g)

(* classify: the tracker observes the item, and an accepted frame goes to  *)
(* its port's handler. s holds the trackers and the validator.             *)
ClassifyItem(p, s, item) ==
  LET alone == [item EXCEPT !.copy = 0]
      seen  == [s.pt EXCEPT ![p] = Classify(s.pt[p], {alone})]
  IN  IF FreshOf(s.pt[p], {alone}) = {} THEN [s EXCEPT !.pt = seen]
      ELSE [pt |-> seen, v |-> OnFrame(p, s.v, item, Gates(seen))]

Walk(p, s, S) ==
  LET walked[n \in -1 .. LastPlace] ==
        IF n = -1 THEN s
        ELSE IF At(S, n) = {} THEN walked[n - 1]
        ELSE ClassifyItem(p, walked[n - 1], CHOOSE item \in At(S, n) : TRUE)
  IN  walked[LastPlace]

(* The first port to enter an era wipes the validator, and taints the      *)
(* snapshot series if it is another.                                       *)
Entering(p, d, s) ==
  IF Advances(p, d) /\ Wipes(s.v, d.rc)
    THEN [pt |-> WithTaint(s.pt, p # "snapshot"), v |-> Wipe(s.v, d.rc)] ELSE s

(* Process: the old era's items, the wipe, then the item the window pops.  *)
Processed(p, d) ==
  LET drained == IF Advances(p, d) THEN pt[p].buf ELSE {}
      entered == Entering(p, d, Walk(p, [pt |-> pt, v |-> v], drained))
      pushed  == Push(Opened(p, d), d)
      Put1(t) == [entered EXCEPT !.pt[p] = t]
  IN  IF Overflows(pushed)
        THEN Walk(p, Put1(Without(pushed, HeadOf(pushed))), {HeadOf(pushed)})
        ELSE Put1(pushed)

Receives(p, d) ==
  /\ ~Quarantines(p, d)
  /\ LET s == Processed(p, d) IN pt' = s.pt /\ v' = s.v
  /\ EntersFor(p, d)

Drops(p, d) == Quarantine(p, d) /\ UNCHANGED v

(* The deltas resumed for the validator before the recovery snapshot,      *)
(* though it was sent first: it still waits on the snapshot port.          *)
Overtaken(old, new) ==
  LET Resumed == {i \in Instruments : old.instr[i].awaiting # Nil /\ new.instr[i].awaiting = Nil}
      Ends(m, i) == m.type = "end" /\ m.instr = i /\ m.anchor = old.instr[i].awaiting
  IN  {"recovery" : i \in {i \in Resumed :
         \E f \in WaitingOn("snapshot") : \E m \in ToSet(f.body.msgs) : Ends(m, i)}}

(* An InstrumentReset among the classified mktdata frames takes the open   *)
(* group of another instrument with it.                                    *)
Overlaps(classified) ==
  LET Takes(m) == m.type = "reset" /\ v.open # NoGroup /\ v.open.instr # m.instr
  IN  {"overlap" : f \in {f \in classified : \E m \in ToSet(f.body.msgs) : Takes(m)}}

(* The datagram that enters the era wipes on arrival, before it is         *)
(* classified: that too happens ahead of what waits on the other port.     *)
NoteDeliveryOrEntry(p, d) ==
  crossed' = crossed \cup Crossed(PairsOnDelivery(p, d))
    \cup (IF Advances(p, d) THEN Crossed(Overtakes({d}, UNION {WaitingOn(q) : q \in Ports \ {p}})) ELSE {})
    \cup (IF p = "mktdata"
            THEN Overtaken(v, v') \cup Overlaps((Frames(pt[p].buf) \cup {d}) \ Frames(pt'[p].buf))
            ELSE {})

Deliver(n) ==
  /\ running
  /\ Arriving(n)
  /\ LET d == [rc |-> net[n].rc, seq |-> net[n].seq, body |-> net[n].body]
         p == net[n].port
     IN  /\ Receives(p, d) \/ Drops(p, d)
         /\ NoteDeliveryOrEntry(p, d)
  /\ net' = RemoveAt(net, n)
  /\ UNCHANGED <<pubVars, plan, feedEra, sent, running>>

Lose(n) == Dropping(n) /\ UNCHANGED <<pubVars, v>>

(* The run ends: Flush drains mktdata, then snapshot; then Engine.EndRun.  *)
EndRun ==
  /\ running
  /\ running' = FALSE
  /\ LET Drain(p, s) == LET w == Walk(p, s, s.pt[p].buf) IN [w EXCEPT !.pt[p].buf = {}]
         m == Drain("mktdata", [pt |-> pt, v |-> v])
         s == Drain("snapshot", m)
     IN  /\ pt' = s.pt /\ v' = AtEnd(s.v, plan.instruments, Gates(s.pt))
         /\ crossed' = crossed \cup Crossed(PairsOnFlush) \cup Overtaken(v, m.v)
                        \cup Overlaps(Frames(pt["mktdata"].buf))
  /\ UNCHANGED <<pos, next, pubVars, plan, feedEra, sent, net>>

MboInit ==
  /\ NetInit
  /\ now = [i \in Instruments |-> {}]
  /\ books = [i \in Instruments |-> <<{}>>]
  /\ groups = [i \in Instruments |-> 0]
  /\ rest = << >>
  /\ awaiting = [i \in Instruments |-> Nil]
  /\ v = NewConsumer

Orders == [order : plan.orders, side : {"bid"}, left : 1 .. MaxLots, hidden : Hidings]

MboNext ==
  \/ \E i \in plan.instruments, o \in plan.orders, q \in 1 .. MaxLots, h \in Hidings :
       SendAdd(i, o, q, h)
  \/ \E i \in plan.instruments, r \in Orders : SendCancel(i, r)
  \/ \E i \in plan.instruments, r \in Orders : SendExecute(i, r)
  \/ Heartbeat
  \/ \E i \in plan.instruments : SendGroup(i)
  \/ SendRest
  \/ \E i \in plan.instruments, r \in Orders : SendInstrumentReset(i, r)
  \/ ChannelReset
  \/ \E n \in DOMAIN net : Deliver(n)
  \/ \E n \in DOMAIN net : Lose(n)
  \/ EndRun

MboSpec == MboInit /\ [][MboNext]_allVars

-----------------------------------------------------------------------------
(* A run's end charges what is still open. That is fair when the publisher *)
(* owes nothing, not even the first group of an instrument where another   *)
(* had two, and the last datagram of each port was heard.                  *)
HeardOut(p) ==
  IF sent[p] = 0 THEN pt[p].eraPos = 0
  ELSE pt[p].era = ResetCountOf(feedEra) /\ pt[p].lastSeq = sent[p] - 1

Complete ==
  /\ net = << >> /\ rest = << >>
  /\ \A i \in Instruments : awaiting[i] = Nil
  /\ \A i, j \in plan.instruments : groups[i] > 1 => groups[j] > 0
  /\ \A p \in {"mktdata", "snapshot"} : HeardOut(p)

Fair == running \/ Complete

MboTypeOK ==
  /\ \A i \in Instruments :
       /\ v.instr[i].last \in {Nil} \cup 1 .. plan.deltas
       /\ v.instr[i].trusted => v.instr[i].last # Nil
       /\ \A o \in OrderIds : v.books[i].live[o].left \in 0 .. MaxLots
  /\ v.open # NoGroup => v.open.instr \in Instruments /\ v.open.received \in Nat
  /\ crossed \subseteq {"era", "reset", "recovery", "overlap"}

(* No reset, and no recovery from one, was classified out of its sending   *)
(* order. One may have taken another instrument's open group (overlap).    *)
InOrder == crossed \subseteq {"overlap"}

(* What the rest of a group is charged with that the validator dropped:    *)
(* it is orphaned, the recovery it carried never comes, and it counts as   *)
(* no snapshot.                                                            *)
CutGroupRules == {"BEGIN_ORDER_END_GROUPING", "RECOVERY_SNAPSHOT_ANCHOR", "SNAPSHOT_FOLLOWS",
                  "ROUND_ROBIN_COVERS_MANIFEST"}

(* No rule of the market-by-order validator charges the publisher, however *)
(* deltas, groups and resets of the two ports interleave, as long as       *)
(* nothing is lost and resets and recoveries are classified in their       *)
(* sending order. One exception: once an InstrumentReset took another      *)
(* instrument's open group with it (gate.go:353), the rules on whole       *)
(* groups charge what is left of that group, and no other rule does.       *)
NoFalseFinding ==
  Fair /\ InOrder /\ plan.lossy = {} =>
    v.findings \subseteq (IF "overlap" \in crossed THEN CutGroupRules ELSE {})

(* Nor does the oracle even suspect a book: a difference that the next     *)
(* group would clear is already a wrong book or a wrong comparison.        *)
NoFalseSuspicion ==
  Fair /\ InOrder => \A i \in Instruments : v.suspects[i] = NoSuspect

InEra == v.resetEra = IF feedEra = 0 THEN Nil ELSE ResetCountOf(feedEra)

(* Loss is never charged: whichever snapshot datagrams the network drops,  *)
(* the rules on the contents of a group are not charged. (The grouping     *)
(* rule also charges a group whose last datagrams were dropped unseen.)    *)
LossIsNeverCharged == Fair => v.findings \subseteq {"BEGIN_ORDER_END_GROUPING"}

(* A group that another instrument's InstrumentReset overtakes is brought  *)
(* to its end by the publisher: its remains are no orphans.                *)
ResetSparesOthersGroups ==
  Fair /\ InOrder => "BEGIN_ORDER_END_GROUPING" \notin v.findings

(* What the validator trusts is what was published: while an instrument's  *)
(* book is trusted and mktdata shows no gap, its live orders are the       *)
(* visible ones that rested after the delta it stands at.                  *)
TrustedBookIsTrue ==
  \A i \in Instruments :
    LET in == v.instr[i]
        bk == v.books[i]
    IN  InEra /\ in.trusted /\ ~in.corrupted /\ ~pt["mktdata"].dirty /\ InOrder =>
          {[order |-> o, left |-> bk.live[o].left] : o \in Resting(bk)}
            = {[order |-> r.order, left |-> r.left] :
                 r \in {r \in books[i][in.last + 1] : ~r.hidden}}
=============================================================================

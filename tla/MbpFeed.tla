------------------------------- MODULE MbpFeed -------------------------------
(***************************************************************************)
(* A market-by-price channel end to end: a conformant publisher, the two   *)
(* ports of PortNetwork, the intake of PortSeries and the validator of     *)
(* MbpConsumer, joined the way Engine.Process and Engine.classify join     *)
(* them. Every violation reported here is a false one.                     *)
(*                                                                         *)
(* The publisher is not part of the repository's program; it does what     *)
(* market-by-price/spec.md asks of one. A plan also says: instruments and  *)
(* prices, what is traded; packed, whether a snapshot group fits one       *)
(* datagram; correcting, whether the publisher sends InstrumentReset; and  *)
(* the bounds of one era: deltas and groups of an instrument; beat, the    *)
(* sequence number below which heartbeats are sent; and ahead, the bound   *)
(* on the datagrams under way (where all arrive in their sending order,    *)
(* one says as much as many).                                              *)
(***************************************************************************)
EXTENDS PortNetwork, MbpConsumer

VARIABLES
  books,     \* per instrument, its ladder after each delta of the era
  groups,    \* per instrument, the deltas each snapshot group of the era reflects
  rest,      \* messages of the snapshot group being sent
  awaiting,  \* instruments whose recovery snapshot is due
  v          \* the validator (Engine.mbp)

ASSUME MbpPlansAssumption ==
  /\ "snapshot" \in Ports
  /\ \A p \in Plans : p.instruments \subseteq Instruments

pubVars == <<books, groups, rest, awaiting>>
allVars == <<vars, netVars, pubVars, v>>

-----------------------------------------------------------------------------
(* The publisher.                                                          *)
BookNow(i) == Last(books[i])
SeqNow(i)  == Len(books[i]) - 1

PublisherOnly ==
  running /\ Len(net) < plan.ahead /\ UNCHANGED <<vars, plan, v, crossed, running>>

Delta(i, m, after) ==
  /\ PublisherOnly
  /\ SeqNow(i) < plan.deltas /\ i \notin awaiting
  /\ Put("mktdata", <<m>>)
  /\ books' = [books EXCEPT ![i] = Append(@, after)]
  /\ UNCHANGED <<groups, rest, awaiting>>

(* A level takes a new quantity, or disappears.                            *)
SendLevel(i, l, q) ==
  /\ BookNow(i)[l] # q
  /\ Delta(i, [type |-> "level", instr |-> i, seq |-> SeqNow(i) + 1, key |-> l, qty |-> q],
           [BookNow(i) EXCEPT ![l] = q])

(* Every level of a side goes at once, from one of them outward.           *)
SendClear(i, l) ==
  /\ l \in Present(BookNow(i))
  /\ LET Outer(k) == k.side = l.side /\ IF l.side = "bid" THEN k.price <= l.price
                                                          ELSE k.price >= l.price
     IN Delta(i, [type |-> "clear", instr |-> i, seq |-> SeqNow(i) + 1,
                  side |-> l.side, fromPrice |-> TRUE, price |-> l.price],
              [k \in Levels |-> IF Outer(k) THEN 0 ELSE BookNow(i)[k]])

Heartbeat ==
  /\ PublisherOnly
  /\ sent["mktdata"] < plan.beat
  /\ Put("mktdata", << >>)
  /\ UNCHANGED <<books, groups, rest, awaiting>>

(* A group is captured whole when it begins. Levels come in no set order,  *)
(* and every instrument numbers its groups from 1. An entry's instrument   *)
(* is a history field: the wire carries it in the begin and the end only.  *)
Group(i) ==
  LET ladder  == BookNow(i)
      id      == Len(groups[i]) + 1
      keys    == SetToSeq(Present(ladder))
      head    == [type |-> "begin", instr |-> i, id |-> id,
                  anchor |-> sent["mktdata"], total |-> Len(keys), lastK |-> SeqNow(i)]
      body    == [n \in 1 .. Len(keys) |-> [type |-> "entry", instr |-> i, id |-> id,
                                            key |-> keys[n], qty |-> ladder[keys[n]]]]
      tail    == [type |-> "end", instr |-> i, id |-> id, anchor |-> sent["mktdata"]]
  IN  <<head>> \o body \o <<tail>>

SendGroup(i) ==
  /\ PublisherOnly
  /\ rest = << >>
  /\ Len(groups[i]) < plan.groups
  /\ \A j \in plan.instruments : Len(groups[i]) <= Len(groups[j])   \* round robin
  /\ Put("snapshot", IF plan.packed THEN Group(i) ELSE <<Head(Group(i))>>)
  /\ rest' = IF plan.packed THEN << >> ELSE Tail(Group(i))
  /\ groups' = [groups EXCEPT ![i] = Append(@, SeqNow(i))]
  /\ awaiting' = awaiting \ {i}
  /\ UNCHANGED books

SendRest ==
  /\ PublisherOnly
  /\ rest # << >>
  /\ Put("snapshot", <<Head(rest)>>)
  /\ rest' = Tail(rest)
  /\ UNCHANGED <<books, groups, awaiting>>

(* The publisher found its own ladder wrong: it replaces it and pauses the *)
(* instrument's deltas until the recovery snapshot. Here it waits for the  *)
(* group it is sending to end first.                                       *)
SendInstrumentReset(i, ladder) ==
  /\ PublisherOnly
  /\ plan.correcting /\ rest = << >> /\ ladder # BookNow(i)
  /\ i \notin awaiting
  /\ Put("mktdata", <<[type |-> "reset", instr |-> i]>>)
  /\ books' = [books EXCEPT ![i] = [@ EXCEPT ![Len(@)] = ladder]]
  /\ awaiting' = awaiting \cup {i}
  /\ UNCHANGED <<groups, rest>>

(* A channel reset: every series starts again, a group in flight is cut.   *)
ChannelReset ==
  /\ PublisherOnly
  /\ NextEra
  /\ books' = [i \in Instruments |-> <<BookNow(i)>>]
  /\ groups' = [i \in Instruments |-> << >>]
  /\ rest' = << >>
  /\ awaiting' = {}

-----------------------------------------------------------------------------
(* The messages of a frame, in order.                                      *)
OnMessage(p, w, m, seq, clean) ==
  IF p = "snapshot" THEN OnSnapshot(w, m, seq, clean) ELSE OnMktdata(w, m)

ReadAll(p, w, msgs, seq, clean) ==
  LET read[n \in 0 .. Len(msgs)] ==
        IF n = 0 THEN w ELSE OnMessage(p, read[n - 1], msgs[n], seq, clean)
  IN  read[Len(msgs)]

(* An accepted frame goes to the era bookkeeping, then to its port's       *)
(* handler.                                                                *)
OnFrame(p, w, t, item) ==
  LET seen  == ObserveEra(w, t.eraPos, t.era)
      noted == IF p = "snapshot" THEN NoteSnapSeq(seen, item.seq) ELSE seen
  IN  ReadAll(p, noted, item.body.msgs, item.seq, ~t.dirty)

(* classify: the tracker observes the item. led says that a port other     *)
(* than snapshot led a reset, which taints the snapshot series.            *)
ClassifyItem(p, acc, item) ==
  LET alone == [item EXCEPT !.copy = 0]
      t     == Classify(acc.t, {alone})
  IN  IF FreshOf(acc.t, {alone}) = {} THEN [acc EXCEPT !.t = t]
      ELSE [t   |-> t,
            v   |-> OnFrame(p, acc.v, t, item),
            led |-> acc.led \/ (p # "snapshot" /\ NewEra(acc.v, t.eraPos, t.era))]

Walk(p, acc, S) ==
  LET walked[n \in -1 .. LastPlace] ==
        IF n = -1 THEN acc
        ELSE IF At(S, n) = {} THEN walked[n - 1]
        ELSE ClassifyItem(p, walked[n - 1], CHOOSE item \in At(S, n) : TRUE)
  IN  walked[LastPlace]

(* Process: the old era's items first, then the item the window pops.      *)
Processed(p, d) ==
  LET drained == IF Advances(p, d) THEN pt[p].buf ELSE {}
      first   == Walk(p, [t |-> pt[p], v |-> v, led |-> FALSE], drained)
      pushed  == Push(Opened(p, d), d)
  IN  IF Overflows(pushed)
        THEN ClassifyItem(p, [first EXCEPT !.t = Without(pushed, HeadOf(pushed))], HeadOf(pushed))
        ELSE [first EXCEPT !.t = pushed]

Receives(p, d) ==
  /\ ~Quarantines(p, d)
  /\ LET r == Processed(p, d)
     IN  /\ pt' = WithTaint([pt EXCEPT ![p] = r.t], r.led)
         /\ v' = r.v
  /\ EntersFor(p, d)

Drops(p, d) == Quarantine(p, d) /\ UNCHANGED v

(* Three groups in one: the open group took in the levels of a later one   *)
(* and now meets the End of a third.                                       *)
Overfull(o) == o # NoGroup /\ (o.count > o.total \/ o.dups > 0)

Merges(classified) ==
  LET Third(m) == m.type = "end" /\ m.id # v.open.id
  IN  {"merge" : f \in {f \in classified :
                         Overfull(v.open) /\ \E m \in ToSet(f.body.msgs) : Third(m)}}

Deliver(n) ==
  /\ running
  /\ Arriving(n)
  /\ LET d == [rc |-> net[n].rc, seq |-> net[n].seq, body |-> net[n].body]
         p == net[n].port
     IN  /\ Receives(p, d) \/ Drops(p, d)
         /\ crossed' = crossed \cup Crossed(PairsOnDelivery(p, d))
                          \cup Merges((Frames(pt[p].buf) \cup {d}) \ Frames(pt'[p].buf))
  /\ net' = RemoveAt(net, n)
  /\ UNCHANGED <<pubVars, plan, feedEra, sent, running>>

Lose(n) == Dropping(n) /\ UNCHANGED <<pubVars, v>>

(* The run ends: Flush drains the mktdata buffer, then the snapshot one.   *)
EndRun ==
  /\ running
  /\ running' = FALSE
  /\ LET m == Walk("mktdata", [t |-> pt["mktdata"], v |-> v, led |-> FALSE],
                   pt["mktdata"].buf)
         tainted == WithTaint(pt, m.led)
         s == Walk("snapshot", [m EXCEPT !.t = tainted["snapshot"]], pt["snapshot"].buf)
     IN  /\ pt' = [tainted EXCEPT !["mktdata"]  = [m.t EXCEPT !.buf = {}],
                                  !["snapshot"] = [s.t EXCEPT !.buf = {}]]
         /\ v' = s.v
  /\ crossed' = crossed \cup Crossed(PairsOnFlush) \cup Merges(Frames(pt["snapshot"].buf))
  /\ UNCHANGED <<pos, next, pubVars, plan, feedEra, sent, net>>

MbpInit ==
  /\ NetInit
  /\ books = [i \in Instruments |-> <<Empty>>]
  /\ groups = [i \in Instruments |-> << >>]
  /\ rest = << >>
  /\ awaiting = {}
  /\ v = NewConsumer

Traded == {l \in Levels : l.price \in plan.prices}

MbpNext ==
  \/ \E i \in plan.instruments, l \in Traded, q \in 0 .. MaxQty : SendLevel(i, l, q)
  \/ \E i \in plan.instruments, l \in Traded : SendClear(i, l)
  \/ Heartbeat
  \/ \E i \in plan.instruments : SendGroup(i)
  \/ SendRest
  \/ \E i \in plan.instruments, ladder \in {x \in Ladder : Present(x) \subseteq Traded} :
       SendInstrumentReset(i, ladder)
  \/ ChannelReset
  \/ \E n \in DOMAIN net : Deliver(n)
  \/ \E n \in DOMAIN net : Lose(n)
  \/ EndRun

MbpSpec == MbpInit /\ [][MbpNext]_allVars

-----------------------------------------------------------------------------
Rules == {"PERINSTR_NO_SNAPSHOT_RESET", "PERINSTR_DENSITY", "ABSOLUTE_APPLY",
          "GROUP_STRUCTURE", "RECONSTRUCTED_BOOK"}

MbpTypeOK ==
  /\ v.instr \in [Instruments -> Instr]
  /\ v.findings \subseteq Rules
  /\ v.open # NoGroup => v.open.instr \in Instruments /\ v.open.levels \in Ladder
  /\ v.mbpSeen \in Nat
  /\ crossed \subseteq {"era", "reset", "merge"}
  /\ \A i \in Instruments : Cardinality(v.instr[i].journal) <= MaxJournal

(* Where nothing is lost, no gap is seen in an instrument's dense series,  *)
(* whatever a group adopted ahead of its deltas does to the tracker.       *)
NoFalseDensity == "PERINSTR_DENSITY" \notin v.findings

(* The snapshot structure rule never charges the publisher: not for what   *)
(* the network lost, and not for a group a reset cut, also when the reset  *)
(* wiped the channel while the group's remains still waited. Two things    *)
(* can make it: an InstrumentReset classified out of order with a group,   *)
(* and losses that merge three groups into one (mbp.go:683 excuses the     *)
(* levels of a second group only if its own End is the next one heard).    *)
NoFalseGroupFinding ==
  "GROUP_STRUCTURE" \in v.findings => crossed \cap {"reset", "merge"} # {}

(* The reconstruction oracle never charges the publisher, however deltas,  *)
(* groups and resets interleave, unless a reset was classified out of its  *)
(* sending order.                                                          *)
NoFalseMismatch ==
  "RECONSTRUCTED_BOOK" \in v.findings => crossed \cap {"era", "reset"} # {}

(* What the validator believes is what was published: an instrument whose  *)
(* history is trusted replays to the publisher's ladder at every point     *)
(* from its baseline to its last applied delta, however the two ports      *)
(* interleave and whatever is lost of a group (in a run without resets,    *)
(* where one ladder is true at each point).                                *)
TrustedLadderIsTrue ==
  \A i \in plan.instruments :
    LET in == v.instr[i]
    IN  ~plan.correcting /\ plan.resets = 0 /\ in.baseSet /\ ~in.gapped /\ ~in.overflow =>
          \A k \in in.baseK .. in.lastSeq : StateAsOf(in, k) = books[i][k + 1]
=============================================================================

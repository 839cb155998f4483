---------------------------- MODULE PortNetwork ----------------------------
(***************************************************************************)
(* What the feeds with several ports share: a channel whose publisher      *)
(* sends on the mktdata port and on others, the network between it and the *)
(* intake of PortSeries, and the taint one port may put on another.        *)
(*                                                                         *)
(* Publisher and network are not part of the repository's program. Each    *)
(* port delivers its own datagrams in order. A run follows one of Plans,   *)
(* records with at least these fields: skewed, whether one port's          *)
(* datagrams may arrive before another's (otherwise all arrive in the      *)
(* order they were sent); lossy, the ports whose datagrams the network     *)
(* loses; resets, the bound on the channel resets of the run.              *)
(***************************************************************************)
EXTENDS PortSeries, SequencesExt

CONSTANTS
  Plans,        \* what a run may choose from
  FlushOrder    \* the ports, in the order Flush drains them

ASSUME PlansAssumption ==
  /\ "mktdata" \in Ports /\ FlushOrder \in Seq(Ports) /\ ToSet(FlushOrder) = Ports
  /\ \A p \in Plans : p.skewed \in BOOLEAN /\ p.lossy \subseteq Ports /\ p.resets \in Nat

VARIABLES
  plan,      \* the plan the run follows
  feedEra,   \* the publisher's era
  sent,      \* next sequence number of each port in that era
  net,       \* datagrams under way, in sending order
  crossed,   \* history: whether resets were classified out of their sending order
  running    \* FALSE once the run has ended

netVars == <<plan, feedEra, sent, net, crossed, running>>

ResetCountOf(e) == e % Cardinality(ResetCounts)

ASSUME CountsAssumption ==
  /\ ResetCounts \subseteq Nat
  /\ \A p \in Plans : \A e \in 0 .. p.resets : ResetCountOf(e) \in ResetCounts

-----------------------------------------------------------------------------
(* When a frame was sent: a history field, by which the properties tell    *)
(* the order of the ports' frames.                                         *)
Now == [era |-> feedEra, sent |-> sent]

Before(a, b) ==
  \/ a.era < b.era
  \/ a.era = b.era /\ a.sent # b.sent /\ \A p \in Ports : a.sent[p] <= b.sent[p]

Put(p, msgs) ==
  /\ sent[p] <= MaxSeq
  /\ sent' = [sent EXCEPT ![p] = @ + 1]
  /\ net' = Append(net, [port |-> p, rc |-> ResetCountOf(feedEra),
                         seq |-> sent[p], body |-> [msgs |-> msgs, at |-> Now]])
  /\ UNCHANGED feedEra

NextEra ==
  /\ feedEra < plan.resets
  /\ feedEra' = feedEra + 1
  /\ sent' = [p \in Ports |-> 0]
  /\ UNCHANGED net

Arriving(n) ==
  IF plan.skewed THEN \A m \in 1 .. n - 1 : net[m].port # net[n].port ELSE n = 1

(* The network loses datagram n; what the receiver keeps is unchanged.     *)
Dropping(n) ==
  /\ running
  /\ net[n].port \in plan.lossy
  /\ net' = RemoveAt(net, n)
  /\ UNCHANGED <<vars, plan, feedEra, sent, crossed, running>>

-----------------------------------------------------------------------------
(* The order classify walks the items of a batch in: by their places, each *)
(* of which holds at most one item.                                        *)
Place(item) == item.seq * (W + 1) + item.copy
LastPlace   == MaxSeq * (W + 1) + W

At(S, n) == {item \in S : Place(item) = n}

(* The instance's entry in the channel's era order.                        *)
EntersFor(p, d) ==
  CASE Seeds(p, d)    -> Enter(d.rc, 0)
    [] Advances(p, d) -> Enter(d.rc, pt[p].eraPos)
    [] OTHER          -> UNCHANGED <<pos, next>>

(* A port other than snapshot led a reset: taintOn reaches the snapshot    *)
(* series, if there is one.                                                *)
WithTaint(trackers, led) ==
  IF led /\ trackers["snapshot"].eraPos # 0
    THEN [trackers EXCEPT !["snapshot"].dirty = TRUE] ELSE trackers

-----------------------------------------------------------------------------
(* The ports are put in order one by one, not against each other, so a     *)
(* frame of one can be classified while an earlier one of another port     *)
(* waits. crossed notes where that matters.                                *)
Frames(S) == {[rc |-> i.rc, seq |-> i.seq, body |-> i.body] : i \in S}

WaitingOn(q) == Frames(pt[q].buf) \cup Frames({d \in ToSet(net) : d.port = q})

Overtakes(classified, waiting) ==
  {x \in classified \X waiting : Before(x[2].body.at, x[1].body.at)}

PairsOnDelivery(p, d) ==
  Overtakes((Frames(pt[p].buf) \cup {d}) \ Frames(pt'[p].buf),
            UNION {WaitingOn(q) : q \in Ports \ {p}})

PairsOnFlush ==
  LET Buffered(m) == Frames(pt[FlushOrder[m]].buf)
  IN  UNION {Overtakes(Buffered(m), UNION {Buffered(n) : n \in m + 1 .. Len(FlushOrder)}) :
               m \in DOMAIN FlushOrder}

Carries(f, type) == \E m \in ToSet(f.body.msgs) : m.type = type

(* A reset before a frame of the old era; an InstrumentReset on either     *)
(* side.                                                                   *)
Crossed(pairs) ==
  {x \in {"era", "reset"} :
     \E pair \in pairs :
       IF x = "era" THEN pair[1].rc # pair[2].rc
                    ELSE Carries(pair[1], "reset") \/ Carries(pair[2], "reset")}

NetInit ==
  /\ Init
  /\ plan \in Plans
  /\ feedEra = 0
  /\ sent = [p \in Ports |-> 0]
  /\ net = << >>
  /\ crossed = {}
  /\ running = TRUE
=============================================================================

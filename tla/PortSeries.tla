----------------------------- MODULE PortSeries -----------------------------
(***************************************************************************)
(* The intake of one channel of one source address: the sequence tracker   *)
(* of each port (engine/state.go, portTracker), the arrival order of the   *)
(* channel's Reset Counts the ports share (eraOrder), and the part of      *)
(* Engine.Process and Engine.classify that moves a datagram from the wire  *)
(* through the reorder buffer into the era's accepted frames.              *)
(*                                                                         *)
(* The specification is open: Process takes any datagram at any time, so   *)
(* what holds here holds for every publisher and every network.            *)
(*                                                                         *)
(* Abstractions. A datagram is its Reset Count, its sequence number and a  *)
(* body that stands for the payload bytes. The reorder heap is the set of  *)
(* its items; arrival order only matters between items of one sequence     *)
(* number, so an item carries its rank among those (copy, 0 for the first  *)
(* to arrive) instead of a global counter. The FIFO ring that bounds the   *)
(* dedup map is not modelled: it holds at least 16 frames, and             *)
(* RingAssumption keeps an era shorter than that.                          *)
(***************************************************************************)
EXTENDS Integers, FiniteSets

CONSTANTS
  Ports,        \* the ports of the channel
  ResetCounts,  \* the Reset Count values, a u8 in the code
  Bodies,       \* payloads
  W,            \* --reorder-window
  MaxSeq,       \* bound on sequence numbers
  MaxEras       \* bound on the eras one run enters

ASSUME WindowAssumption == W \in Nat
ASSUME SeqAssumption    == MaxSeq \in Nat
ASSUME ResetAssumption  == 0 \in ResetCounts
ASSUME RingAssumption   == MaxSeq < 16 \/ MaxSeq < 2 * W

VARIABLES
  pt,      \* the tracker of each port
  pos,     \* eraOrder.pos: latest ordinal of each Reset Count, 0 if unknown
  next     \* eraOrder.next: the last ordinal given out

vars == <<pt, pos, next>>

-----------------------------------------------------------------------------
NoSeq == -1
Seqs  == 0 .. MaxSeq

Datagram == [rc : ResetCounts, seq : Seqs, body : Bodies]
Item     == [rc : ResetCounts, seq : Seqs, body : Bodies, copy : 0 .. W]
Accepted == [seq : Seqs, body : Bodies]

(* first is a history field: the sequence number that opened the window.   *)
Tracker ==
  [ era        : ResetCounts,
    eraPos     : Nat,              \* 0: no datagram yet (~eraInitialized)
    floorPos   : Nat,
    stragglers : Nat,
    buf        : SUBSET Item,
    lastSeq    : {NoSeq} \cup Seqs,
    first      : {NoSeq} \cup Seqs,
    accepted   : SUBSET Accepted,  \* payloadHashes: frames of the current era
    dirty      : BOOLEAN ]         \* dirtyWindow

NewTracker ==
  [ era |-> 0, eraPos |-> 0, floorPos |-> 0, stragglers |-> 0, buf |-> {},
    lastSeq |-> NoSeq, first |-> NoSeq, accepted |-> {}, dirty |-> FALSE ]

SeqsOf(S) == {x.seq : x \in S}

MaxStragglersNone == 255        \* variant: a run of stragglers has no limit

MaxStragglers == IF W > 1 THEN W ELSE 1

-----------------------------------------------------------------------------
(* observe and the head of classify, for a set S of popped items in        *)
(* sequence order. Only the first copy of a sequence number the era has    *)
(* not accepted yet is accepted; every other item is a duplicate.          *)
FreshOf(t, S) == {i \in S : i.copy = 0 /\ i.seq \notin SeqsOf(t.accepted)}

(* Variant: a single missing frame is not counted.                          *)
HasWideGap(t, F) ==
  \E f \in F :
    /\ f.seq > t.lastSeq
    /\ {f.seq - 1, f.seq - 2} \cap (SeqsOf(F) \cup {t.lastSeq}) = {}
    /\ t.lastSeq # NoSeq \/ \E g \in F : g.seq < f.seq

(* Variant: contiguity with lastSeq is forgotten.                          *)
HasGapInBatch(t, F) ==
  \E f \in F :
    /\ f.seq > t.lastSeq
    /\ f.seq - 1 \notin SeqsOf(F)
    /\ t.lastSeq # NoSeq \/ \E g \in F : g.seq < f.seq

(* A forward jump of more than one, against lastSeq or inside the batch.   *)
HasGap(t, F) ==
  \E f \in F :
    /\ f.seq > t.lastSeq
    /\ f.seq - 1 \notin SeqsOf(F) \cup {t.lastSeq}
    /\ t.lastSeq # NoSeq \/ \E g \in F : g.seq < f.seq

(* FRAME.SEQ_RESET_GAP: backward motion without a Reset Count change.      *)
MovesBack(t, F) == t.lastSeq # NoSeq /\ \E f \in F : f.seq < t.lastSeq

(* FRAME.SEQ_DUP_DIVERGENT: the same sequence number, different bytes.     *)
Diverges(t, S) ==
  \E i \in S, r \in t.accepted \cup FreshOf(t, S) :
    i.seq = r.seq /\ i.body # r.body

HighestOf(last, F) ==
  IF \E f \in F : f.seq > last
    THEN CHOOSE n \in SeqsOf(F) : \A m \in SeqsOf(F) : m <= n
    ELSE last

LowestOf(F) == CHOOSE n \in SeqsOf(F) : \A m \in SeqsOf(F) : n <= m

Classify(t, S) ==
  LET F == FreshOf(t, S)
  IN  [t EXCEPT !.lastSeq  = HighestOf(t.lastSeq, F),
                !.first    = IF t.lastSeq = NoSeq /\ F # {} THEN LowestOf(F) ELSE @,
                !.accepted = @ \cup {[seq |-> f.seq, body |-> f.body] : f \in F},
                !.dirty    = @ \/ HasGap(t, F)]

-----------------------------------------------------------------------------
(* The reorder buffer: heap.Push, and heap.Pop of the least (seq, arrival). *)
Push(t, d) ==
  LET same == {i \in t.buf : i.seq = d.seq}
  IN  [t EXCEPT !.buf = @ \cup {[rc |-> d.rc, seq |-> d.seq, body |-> d.body,
                                 copy |-> Cardinality(same)]}]

IsHead(t, i) == i \in t.buf /\ i.copy = 0 /\ \A j \in t.buf : i.seq <= j.seq

HeadOf(t) == CHOOSE i \in t.buf : IsHead(t, i)

Without(t, h) ==
  [t EXCEPT !.buf = {IF i.seq = h.seq THEN [i EXCEPT !.copy = @ - 1] ELSE i :
                       i \in t.buf \ {h}}]

PopAndClassify(t) == Classify(Without(t, HeadOf(t)), {HeadOf(t)})

OverflowsLate(t)  == Cardinality(t.buf) > W + 1   \* variants: off by one, either way
OverflowsEarly(t) == Cardinality(t.buf) >= W
Overflows(t)      == Cardinality(t.buf) > W

(* Push and, past the window, pop one item and classify it: the tail of    *)
(* enqueue, and pushAndPop after an era advance.                           *)
Intake(t, d) ==
  LET pushed == Push(t, d)
  IN  IF Overflows(pushed) THEN PopAndClassify(pushed) ELSE pushed

(* Variant: the advance leaves the old era's items in the heap.            *)
DrainedLater(t) == t

(* drainAll and classifyDrained: every buffered item is classified.        *)
Drained(t) == [Classify(t, t.buf) EXCEPT !.buf = {}]

-----------------------------------------------------------------------------
(* eraOrder.enter(era, from): join the era another port entered after      *)
(* from, or start a new one.                                               *)
JoinsAnyUse(rc, from) == pos[rc] # 0   \* variant: any earlier use matches

Joins(rc, from) == pos[rc] > from
OrdinalFor(rc, from) == IF Joins(rc, from) THEN pos[rc] ELSE next + 1

EnterUncounted(rc, from) ==             \* variant: next is not advanced
  IF Joins(rc, from)
    THEN UNCHANGED <<pos, next>>
    ELSE pos' = [pos EXCEPT ![rc] = next + 1] /\ UNCHANGED next

Enter(rc, from) ==
  IF Joins(rc, from)
    THEN UNCHANGED <<pos, next>>
    ELSE /\ next < MaxEras
         /\ next' = next + 1
         /\ pos' = [pos EXCEPT ![rc] = next + 1]

(* Variant: only a later era of the channel counts as another era.         *)
OtherEraIfLater(t, d) == pos[d.rc] > t.eraPos

(* enqueue's test for a datagram that is not of the port's era.            *)
OtherEra(t, d) == d.rc # t.era \/ pos[d.rc] > t.eraPos

(* Variant: the era the port just left is not counted.                     *)
LateAfterFloor(t, d) ==
  /\ d.rc # t.era
  /\ t.floorPos < pos[d.rc]
  /\ pos[d.rc] < t.eraPos

(* A datagram of an era the channel entered from floorPos on and left      *)
(* before the port's era.                                                  *)
Late(t, d) ==
  /\ d.rc # t.era
  /\ pos[d.rc] # 0
  /\ t.floorPos <= pos[d.rc]
  /\ pos[d.rc] < t.eraPos

AdvanceEra(t, rc) ==
  [t EXCEPT !.floorPos = t.eraPos,
            !.eraPos = OrdinalFor(rc, t.eraPos),
            !.era = rc,
            !.stragglers = 0,
            !.lastSeq = NoSeq,
            !.first = NoSeq,
            !.accepted = {},
            !.dirty = FALSE]

SeededTooSoon(t, rc) ==                 \* variant: the floor is read before entering
  [t EXCEPT !.era = rc,
            !.eraPos = OrdinalFor(rc, 0),
            !.floorPos = t.eraPos - 1]

Seeded(t, rc) ==
  [t EXCEPT !.era = rc,
            !.eraPos = OrdinalFor(rc, 0),
            !.floorPos = OrdinalFor(rc, 0) - 1]

-----------------------------------------------------------------------------
(* Engine.Process, by the outcome of enqueue.                              *)
Seeds(p, d)       == pt[p].eraPos = 0
Quarantines(p, d) == /\ pt[p].eraPos # 0 /\ OtherEra(pt[p], d)
                     /\ Late(pt[p], d) /\ pt[p].stragglers < MaxStragglers
Advances(p, d)    == /\ pt[p].eraPos # 0 /\ OtherEra(pt[p], d)
                     /\ ~Quarantines(p, d)

(* The tracker the datagram is pushed into. A port that enters an era after *)
(* a run of stragglers dropped datagrams of it, so the era starts tainted. *)
Opened(p, d) ==
  CASE Seeds(p, d)    -> Seeded(pt[p], d.rc)
    [] Advances(p, d) -> [AdvanceEra(Drained(pt[p]), d.rc) EXCEPT !.dirty = Late(pt[p], d)]
    [] OTHER          -> [pt[p] EXCEPT !.stragglers = 0]

(* The first datagram of a port seeds its era.                             *)
Seed(p, d) ==
  /\ Seeds(p, d)
  /\ Enter(d.rc, 0)
  /\ pt' = [pt EXCEPT ![p] = Intake(Opened(p, d), d)]

(* A datagram of the port's era.                                           *)
Receive(p, d) ==
  /\ pt[p].eraPos # 0 /\ ~OtherEra(pt[p], d)
  /\ pt' = [pt EXCEPT ![p] = Intake(Opened(p, d), d)]
  /\ UNCHANGED <<pos, next>>

(* A straggler, delayed past the reset: dropped, counted as loss.          *)
Quarantine(p, d) ==
  /\ Quarantines(p, d)
  /\ pt' = [pt EXCEPT ![p].stragglers = @ + 1]
  /\ UNCHANGED <<pos, next>>

(* A reset: the old era is drained and classified, then the port enters    *)
(* the new one.                                                            *)
Advance(p, d) ==
  /\ Advances(p, d)
  /\ Enter(d.rc, pt[p].eraPos)
  /\ pt' = [pt EXCEPT ![p] = Intake(Opened(p, d), d)]

Process(p, d) == Seed(p, d) \/ Receive(p, d) \/ Quarantine(p, d) \/ Advance(p, d)

(* evictOldestInstance: other instances fill the tracker map, so this one  *)
(* is dropped with what it buffers. The order goes with its last holder.   *)
Evict(p) ==
  /\ pt[p].eraPos # 0
  /\ pt' = [pt EXCEPT ![p] = NewTracker]
  /\ IF \A q \in Ports \ {p} : pt[q].eraPos = 0
       THEN pos' = [rc \in ResetCounts |-> 0] /\ next' = 0
       ELSE UNCHANGED <<pos, next>>

(* Flush: every buffer is drained into the classifier at the end of a run. *)
Flush ==
  /\ \E p \in Ports : pt[p].buf # {}
  /\ pt' = [p \in Ports |-> Drained(pt[p])]
  /\ UNCHANGED <<pos, next>>

Init ==
  /\ pt = [p \in Ports |-> NewTracker]
  /\ pos = [rc \in ResetCounts |-> 0]
  /\ next = 0

Next ==
  \/ \E p \in Ports, d \in Datagram : Process(p, d)
  \/ \E p \in Ports : Evict(p)
  \/ Flush

Spec == Init /\ [][Next]_vars

-----------------------------------------------------------------------------
(* Type invariant: each tracker holds what a portTracker can hold.         *)
TypeOK ==
  /\ pt \in [Ports -> Tracker]
  /\ \A p \in Ports : IsFiniteSet(pt[p].buf)
  /\ pos \in [ResetCounts -> Nat]
  /\ next \in Nat

(* A port never drops more datagrams in a row than the window delays, so a *)
(* live series is always heard, and it never holds back more than W.       *)
HoldsBackBounded ==
  \A p \in Ports :
    /\ Cardinality(pt[p].buf) <= W
    /\ pt[p].stragglers <= MaxStragglers

(* The heap compares sequence numbers only, so it may hold one era at a    *)
(* time: the claim portBuffer's comment makes about enqueue's drain.       *)
BufferOfOneEra ==
  \A p \in Ports : \A i \in pt[p].buf : i.rc = pt[p].era

(* An ordinal names one era: two ports at the same ordinal are in the same *)
(* Reset Count. mbpObserveEra compares ordinals only and relies on it.     *)
OrdinalsNameEras ==
  /\ \A a, b \in ResetCounts : pos[a] = pos[b] /\ pos[a] # 0 => a = b
  /\ \A p, q \in Ports :
       pt[p].eraPos = pt[q].eraPos /\ pt[p].eraPos # 0 => pt[p].era = pt[q].era

(* While the window is clean, the classifier has seen every frame from the *)
(* first one of the era to the latest: every gated rule rests on it.       *)
CleanWindowHasNoHole ==
  \A p \in Ports :
    ~pt[p].dirty /\ pt[p].lastSeq # NoSeq =>
      pt[p].first .. pt[p].lastSeq \subseteq SeqsOf(pt[p].accepted)

(* A port only moves forward through the channel's eras, and never changes *)
(* Reset Count without moving, however values repeat.                      *)
ErasOnlyAdvance ==
  [][\A p \in Ports :
       pt[p].eraPos # 0 /\ pt'[p].eraPos # 0 =>
         /\ pt[p].eraPos <= pt'[p].eraPos
         /\ pt[p].era # pt'[p].era => pt[p].eraPos < pt'[p].eraPos]_vars
=============================================================================

----------------------------- MODULE MboConsumer -----------------------------
(***************************************************************************)
(* The market-by-order validator of one channel (engine/gate.go,           *)
(* engine/oracle.go): per instrument a delta series, an order book and a   *)
(* snapshot series; per channel an open snapshot group. When a group ends, *)
(* the oracle diffs it with the book.                                      *)
(*                                                                         *)
(* As MbpConsumer, it is written as operators on the validator's state v.  *)
(* The verifiability gates it asks the intake for come in g:               *)
(*   mkt, snap  the port's series shows no gap this era                    *)
(*   bound      the snapshot port was heard (snapPortBound)                *)
(*   pending    mktdata frames wait to be classified (mktdataPending)      *)
(*                                                                         *)
(* Abstractions. Only violations are recorded as findings. Reference data  *)
(* is ready throughout. The payload ring keeps 16 deltas and an era is     *)
(* shorter; Per-Instrument Seq does not wrap. One source address, no       *)
(* admitted capture loss, no manifest change.                              *)
(***************************************************************************)
EXTENDS OrderBook

CONSTANTS
  Instruments,
  ConfirmCycles   \* OracleConfirmCycles

ASSUME ConfirmAssumption == ConfirmCycles \in Nat \ {0}

Nil == -1     \* a nil pointer of the code

-----------------------------------------------------------------------------
(* instrTracker. pendingReset and awaiting hold the reset's New Anchor Seq.*)
NewInstr ==
  [ last |-> Nil, seenReset |-> FALSE, payloads |-> {}, pendingReset |-> Nil,
    recoveryK |-> Nil, trusted |-> FALSE, corrupted |-> FALSE, awaiting |-> Nil ]

(* snapTracker.                                                            *)
NewSnap == [anchor |-> Nil, id |-> Nil, portSeq |-> Nil, count |-> 0]

NoGroup   == [instr |-> "none"]
NoSuspect == [diffs |-> {}, count |-> 0]

NewConsumer ==
  [ instr |-> [i \in Instruments |-> NewInstr], snap |-> [i \in Instruments |-> NewSnap],
    books |-> [i \in Instruments |-> NewBook], suspects |-> [i \in Instruments |-> NoSuspect],
    open |-> NoGroup, lastBatch |-> Nil, high |-> Nil, maxCycle |-> 0,
    resetEra |-> Nil, findings |-> {} ]

If(condition, rules) == IF condition THEN rules ELSE {}

Charge(v, rules) == [v EXCEPT !.findings = @ \cup rules]

(* onResetCountForEra: the first port to enter a Reset Count wipes all.    *)
Wipes(v, era) == v.resetEra # era

Wipe(v, era) == [NewConsumer EXCEPT !.resetEra = era, !.findings = v.findings]

-----------------------------------------------------------------------------
(* The deltas. gateConsumer: the book's verdicts can be charged.           *)
TrustsNext(in, seq, g) ==
  in.last # Nil /\ in.trusted /\ seq = in.last + 1 /\ g.mkt

First(in)    == in.last = Nil
Gap(in, seq) == ~First(in) /\ seq > in.last + 1
Repeat(in, seq) == ~First(in) /\ seq <= in.last

(* applyDeltaSeq: the rules on the series.                                 *)
SeriesRules(in, m) ==
  UNION {
    If(First(in) /\ in.recoveryK # Nil /\ m.seq # in.recoveryK + 1, {"NO_DANGLING_DELTAS"}),
    If(First(in) /\ in.recoveryK = Nil /\ m.seq # 1 /\ in.seenReset, {"PERINSTR_FIRST_VALUE"}),
    If(Gap(in, m.seq), {"PERINSTR_DENSITY"}),
    If(Repeat(in, m.seq) /\ m.seq = 1 /\ in.last > 1 /\ ~in.seenReset /\ in.pendingReset = Nil,
       {"PERINSTR_NO_SNAPSHOT_RESET"}),
    If(Repeat(in, m.seq) /\ \E p \in in.payloads : p.seq = m.seq /\ p # m,
       {"PERINSTR_DUP_DIVERGENT"}) }

AfterDeltaFromAnywhere(in, m) ==   \* variant: the first delta seen founds the book
  [in EXCEPT !.awaiting  = Nil,
             !.seenReset = @ /\ ~First(in),
             !.trusted   = (@ \/ First(in)) /\ ~Gap(in, m.seq),
             !.corrupted = @ \/ Repeat(in, m.seq),
             !.payloads  = {p \in @ : p.seq # m.seq} \cup {m},
             !.last      = IF m.seq > @ THEN m.seq ELSE @]

(* The book is trusted from delta 1 on, and until a delta is missing.      *)
AfterDelta(in, m) ==
  [in EXCEPT !.awaiting  = Nil,
             !.seenReset = @ /\ ~First(in),
             !.trusted   = (@ \/ (First(in) /\ in.recoveryK = Nil /\ m.seq = 1))
                             /\ ~Gap(in, m.seq),
             !.corrupted = @ \/ Repeat(in, m.seq),
             !.payloads  = {p \in @ : p.seq # m.seq} \cup {m},
             !.last      = IF m.seq > @ THEN m.seq ELSE @]

(* OrderAdd, OrderCancel, OrderExecute. The book takes every delta, also a *)
(* repeated one.                                                           *)
OnDelta(v, m, g) ==
  LET in    == v.instr[m.instr]
      told  == OnOrderMessage(v.books[m.instr], m.body)
      early == in.awaiting # Nil /\ g.bound /\ g.mkt /\ g.snap
  IN  Charge([v EXCEPT !.instr[m.instr] = AfterDelta(in, m), !.books[m.instr] = told.book],
             If(early, {"SNAPSHOT_FOLLOWS"})
               \cup If(g.mkt, SeriesRules(in, m))
               \cup If(TrustsNext(in, m.seq, g), told.verdicts \ {"unverified"}))

OnTradeReport(v, m, g) ==
  LET told == OnTrade(v.books[m.instr], m.body)
  IN  Charge(v, If(g.mkt /\ v.instr[m.instr].trusted, told.verdicts \ {"unverified"}))

OnResetKeepingTrust(v, m) ==   \* variant: the tracker is not made anew
  [v EXCEPT !.instr[m.instr].last = Nil,
            !.instr[m.instr].seenReset = TRUE,
            !.instr[m.instr].pendingReset = m.anchor,
            !.instr[m.instr].awaiting = m.anchor,
            !.suspects[m.instr] = NoSuspect,
            !.open = NoGroup,
            !.books[m.instr] = NewBook]

(* onInstrumentReset. The channel's open group goes, whosever it is.       *)
OnInstrumentReset(v, m) ==
  [v EXCEPT !.instr[m.instr] = [NewInstr EXCEPT !.seenReset = TRUE, !.pendingReset = m.anchor,
                                                !.awaiting = m.anchor],
            !.suspects[m.instr] = NoSuspect,
            !.open = NoGroup,
            !.books[m.instr] = NewBook]

(* checkBatchIDMonotonic, checkBatchAtomicityConsistency.                  *)
OnBatchBoundary(v, m, g) ==
  Charge([v EXCEPT !.lastBatch = m.id],
         If(g.mkt, If(v.lastBatch # Nil /\ m.id < v.lastBatch, {"BATCH_ID_MONOTONIC"})
                     \cup UNION {OnBoundary(v.books[i]).verdicts : i \in Instruments}))

(* checkMBO: a mktdata frame, its messages in order.                       *)
NoteMktdata(v, seq) == [v EXCEPT !.high = IF seq > @ THEN seq ELSE @]

OnMktdata(v, m, g) ==
  CASE m.type = "delta" -> OnDelta(v, m, g)
    [] m.type = "trade" -> OnTradeReport(v, m, g)
    [] m.type = "reset" -> OnInstrumentReset(v, m)
    [] m.type = "batch" -> OnBatchBoundary(v, m, g)

-----------------------------------------------------------------------------
(* The snapshot port. A gap inside the open group; a group that began in   *)
(* frame 0 of the era is not watched, for 0 stands for unset.              *)
NoteSnapSeq(v, seq) ==
  IF v.open = NoGroup \/ v.open.portSeq = 0 THEN v
  ELSE [v EXCEPT !.open.dirty = @ \/ seq > v.open.portSeq + 1, !.open.portSeq = seq]

(* snapTrack: the rules against the instrument's previous snapshot and     *)
(* against its deltas.                                                     *)
BeginRules(v, m, seq, g) ==
  LET st == v.snap[m.instr]
      in == v.instr[m.instr]
  IN  UNION {
        If(g.mkt /\ ~g.pending /\ v.high # Nil /\ m.anchor > v.high, {"ANCHOR_IS_MKTDATA_SEQ"}),
        If(g.snap /\ st.anchor # Nil /\ m.anchor < st.anchor, {"ANCHOR_MONOTONIC"}),
        If(g.snap /\ st.id # Nil /\ seq > st.portSeq /\ m.id <= st.id, {"SNAPSHOT_ID_MONOTONIC"}),
        If(g.mkt /\ g.snap /\ ~g.pending /\ in.last # Nil /\ in.last < m.lastK,
           {"LAST_INSTRUMENT_SEQ_CONSISTENT"}) }

(* A snapshot at the reset's anchor tells where the deltas resume.         *)
Recovers(in, m) == in.pendingReset # Nil /\ m.anchor = in.pendingReset

(* handleSnapBegin.                                                        *)
OnBegin(v, m, seq, g) ==
  LET in == v.instr[m.instr]
      recovery == Recovers(in, m)
  IN  Charge([v EXCEPT
                !.instr[m.instr].recoveryK    = IF recovery THEN m.lastK ELSE @,
                !.instr[m.instr].pendingReset = IF recovery THEN Nil ELSE @,
                !.snap[m.instr] = [@ EXCEPT !.anchor = m.anchor, !.id = m.id, !.portSeq = seq],
                !.open = [ instr |-> m.instr, id |-> m.id, anchor |-> m.anchor,
                           total |-> m.total, received |-> 0, lastK |-> m.lastK,
                           orders |-> {}, dirty |-> FALSE, invalid |-> FALSE, portSeq |-> seq ]],
             BeginRules(v, m, seq, g)
               \cup If(v.open # NoGroup /\ ~v.open.dirty, {"BEGIN_ORDER_END_GROUPING"}))

(* A message outside any group is charged where the port shows no gap.     *)
Orphan(g) == g.snap

(* handleSnapOrder.                                                        *)
OnOrder(v, m, g) ==
  LET o == v.open
      repeated == \E r \in o.orders : r.order = m.order
      defects  == If(m.id # o.id, {"ORDER_SNAPSHOT_ID_MATCH"})
                    \cup If(o.total = 0, {"EMPTY_BOOK_WELL_FORMED"})
                    \cup If(repeated, {"SNAPSHOT_ORDER_NO_DUP_ORDER_ID"})
  IN  IF o = NoGroup THEN Charge(v, If(Orphan(g), {"BEGIN_ORDER_END_GROUPING"}))
      ELSE Charge([v EXCEPT
                     !.open.invalid = @ \/ defects # {},
                     !.open.orders  = IF repeated THEN @ ELSE
                       @ \cup {[order |-> m.order, side |-> m.side, left |-> m.left,
                                hidden |-> m.hidden]},
                     !.open.received = @ + 1],
                  If(~o.dirty, defects))

-----------------------------------------------------------------------------
(* onSnapGroupComplete: the recovery after an InstrumentReset, and the     *)
(* count of snapshots.                                                     *)
Completed(v, g) ==
  LET o == v.open
      in == v.instr[o.instr]
      count == v.snap[o.instr].count + 1
  IN  Charge([v EXCEPT !.instr[o.instr].awaiting = Nil,
                       !.snap[o.instr].count = count,
                       !.maxCycle = IF count > @ THEN count ELSE @],
             If(in.awaiting # Nil /\ in.awaiting # o.anchor /\ ~o.dirty /\ g.mkt,
                {"RECOVERY_SNAPSHOT_ANCHOR"}))

(* diffBooks: hidden orders of the snapshot are neither missed nor extra.  *)
Diffs(bk, orders) ==
  UNION {
    {<<r.order, "missing">> : r \in {r \in orders : ~r.hidden /\ ~Live(bk, r.order)}},
    {<<r.order, "side">> : r \in {r \in orders : /\ ~r.hidden /\ Live(bk, r.order)
                                                 /\ r.side # bk.live[r.order].side}},
    {<<r.order, "qty">>  : r \in {r \in orders : /\ ~r.hidden /\ Live(bk, r.order)
                                                 /\ r.left # bk.live[r.order].left}},
    {<<o, "extra">> : o \in {o \in Resting(bk) : \A r \in orders : r.order # o}} }

AuditableAhead(v, o, g) ==     \* variant: the book need not be at the snapshot's delta
  LET in == v.instr[o.instr]
  IN  ~o.invalid /\ ~o.dirty /\ g.mkt /\ in.trusted /\ ~in.corrupted /\ in.last # Nil

(* The oracle compares only at the very delta the snapshot was taken at.   *)
Auditable(v, o, g) ==
  LET in == v.instr[o.instr]
  IN  /\ ~o.invalid /\ ~o.dirty /\ g.mkt
      /\ in.trusted /\ ~in.corrupted
      /\ in.last = o.lastK

(* runOracleForGroup: the same difference in ConfirmCycles groups in a row *)
(* is charged. A group that agrees clears the suspicion, and so does one   *)
(* that cannot be audited (unverifiable): it breaks the row.               *)
Audited(v, o, g) ==
  LET diffs == Diffs(v.books[o.instr], o.orders)
      old   == v.suspects[o.instr]
      count == IF old.diffs = diffs THEN old.count + 1 ELSE 1
  IN  IF ~Auditable(v, o, g) \/ diffs = {}
        THEN [v EXCEPT !.suspects[o.instr] = NoSuspect]
      ELSE Charge([v EXCEPT !.suspects[o.instr] = [diffs |-> diffs, count |-> count]],
                  If(count >= ConfirmCycles, {"RECONSTRUCTED_BOOK"}))

(* handleSnapEnd.                                                          *)
OnEnd(v, m, g) ==
  LET o == v.open
      wrongEnd == m.instr # o.instr \/ m.anchor # o.anchor \/ m.id # o.id
      over     == o.received > o.total
      under    == o.received < o.total
      ended    == [o EXCEPT !.invalid = @ \/ wrongEnd \/ over \/ under]
  IN  IF o = NoGroup THEN Charge(v, If(Orphan(g), {"BEGIN_ORDER_END_GROUPING"}))
      ELSE Charge([Audited(Completed(v, g), ended, g) EXCEPT !.open = NoGroup],
                  If(wrongEnd /\ ~o.dirty, {"END_FIELDS_MATCH_BEGIN"})
                    \cup If(over \/ (under /\ ~o.dirty /\ g.snap), {"TOTAL_ORDERS_COUNT_MATCH"}))

(* checkMBOSnapshot: a snapshot frame, its messages in order.              *)
OnSnapshot(v, m, seq, g) ==
  CASE m.type = "begin" -> OnBegin(v, m, seq, g)
    [] m.type = "order" -> OnOrder(v, m, g)
    [] m.type = "end"   -> OnEnd(v, m, g)

(* EndRun: flushOpenSnaps, checkResetSnapshotFollows and                   *)
(* checkRoundRobinCoversManifest over the listed instruments.              *)
AtEnd(v, listed, g) ==
  LET Due == {i \in Instruments : v.instr[i].awaiting # Nil}
  IN  Charge([v EXCEPT !.open = NoGroup,
                       !.instr = [i \in Instruments |-> [@[i] EXCEPT !.awaiting = Nil]]],
        If(v.open # NoGroup /\ ~v.open.dirty, {"BEGIN_ORDER_END_GROUPING"})
          \cup If(Due # {} /\ g.bound /\ g.mkt /\ g.snap, {"SNAPSHOT_FOLLOWS"})
          \cup If(v.maxCycle >= 2 /\ g.snap /\ \E i \in listed : v.snap[i].count = 0,
                  {"ROUND_ROBIN_COVERS_MANIFEST"}))
=============================================================================

----------------------------- MODULE MbpConsumer -----------------------------
(***************************************************************************)
(* The market-by-price validator of one channel (engine/mbp.go): it        *)
(* rebuilds each instrument's ladder from the deltas, checks the snapshot  *)
(* groups, and diffs the two whenever a group completes.                   *)
(*                                                                         *)
(* The validator is driven by classified frames and reads nothing else, so *)
(* it is written as operators on its state, one per message handler; the   *)
(* modules that own the frames keep that state in a variable.              *)
(*                                                                         *)
(* Abstractions. A ladder maps every level to its quantity, 0 for a level  *)
(* that is absent. A journal entry is the set of levels a delta touches    *)
(* and the quantity it leaves there. The journal is a set: Per-Instrument  *)
(* Seq identifies and orders its entries. Only violations are recorded as  *)
(* findings; passes and unverifiable verdicts leave no state. One source   *)
(* address, no capture-loss admissions; the live book, which no rule reads,*)
(* is left out.                                                            *)
(***************************************************************************)
EXTENDS Integers, FiniteSets, Sequences

CONSTANTS
  Instruments,
  Sides,        \* a subset of {"bid", "ask"}
  Prices,       \* a set of integers
  MaxQty,       \* bound on quantities
  MaxJournal    \* maxMBPJournal

ASSUME SidesAssumption   == Sides \subseteq {"bid", "ask"}
ASSUME PricesAssumption  == Prices \subseteq Int /\ IsFiniteSet(Prices)
ASSUME JournalAssumption == MaxJournal \in Nat /\ MaxQty \in Nat

-----------------------------------------------------------------------------
(* Ladders.                                                                *)
Levels == [side : Sides, price : Prices]
Ladder == [Levels -> 0 .. MaxQty]
Empty  == [l \in Levels |-> 0]

Present(ladder) == {l \in Levels : ladder[l] # 0}

(* applyBookClear: Scope 1 clears from a price outward to the far end.     *)
Cleared(m) ==
  {l \in Levels :
     /\ m.side # "both" => l.side = m.side
     /\ m.fromPrice => IF l.side = "bid" THEN l.price <= m.price ELSE l.price >= m.price}

(* Messages: a LevelUpdate states the resulting quantity of one level.     *)
Touched(m) == IF m.type = "level" THEN {m.key} ELSE Cleared(m)
Leaves(m)  == IF m.type = "level" THEN m.qty ELSE 0

MalformedClear(m) == m.type = "clear" /\ m.fromPrice /\ m.side = "both"

-----------------------------------------------------------------------------
(* mbpInstr: what is known of one instrument.                              *)
Entry == [seq : Nat, levels : SUBSET Levels, qty : 0 .. MaxQty]

NewInstr ==
  [ lastSeq |-> 0, lastSeqSet |-> FALSE, gapped |-> FALSE, sawSnapshot |-> FALSE,
    base |-> Empty, baseK |-> 0, baseSet |-> FALSE,
    journal |-> {}, overflow |-> FALSE, droppedMax |-> 0 ]

Instr ==
  [ lastSeq : Nat, lastSeqSet : BOOLEAN, gapped : BOOLEAN, sawSnapshot : BOOLEAN,
    base : Ladder, baseK : Nat, baseSet : BOOLEAN,
    journal : SUBSET Entry, overflow : BOOLEAN, droppedMax : Nat ]

(* stateAsOf: the base with every journalled delta at or below k on top.   *)
StateAsOf(in, k) ==
  [l \in Levels |->
     LET hits == {e \in in.journal : e.seq <= k /\ l \in e.levels}
     IN  IF hits = {} THEN in.base[l]
         ELSE (CHOOSE e \in hits : \A f \in hits : f.seq <= e.seq).qty]

(* Variant: the bound is off by one.                                       *)
RecordOneMore(in, m) ==
  IF Cardinality(in.journal) > MaxJournal
    THEN [in EXCEPT !.overflow = TRUE,
                    !.droppedMax = IF m.seq > @ THEN m.seq ELSE @]
    ELSE [in EXCEPT !.journal = @ \cup {[seq |-> m.seq, levels |-> Touched(m), qty |-> Leaves(m)]}]

Record(in, m) ==
  IF Cardinality(in.journal) >= MaxJournal
    THEN [in EXCEPT !.overflow = TRUE,
                    !.droppedMax = IF m.seq > @ THEN m.seq ELSE @]
    ELSE [in EXCEPT !.journal = @ \cup {[seq |-> m.seq, levels |-> Touched(m), qty |-> Leaves(m)]}]

-----------------------------------------------------------------------------
(* checkMBPSeq.                                                            *)
SeqOutcome(in, got) ==
  IF ~in.lastSeqSet                                       THEN "first"
  ELSE IF in.sawSnapshot /\ got = 1 /\ in.lastSeq > 1      THEN "restart"
  ELSE IF got = in.lastSeq + 1                            THEN "dense"
  ELSE IF got > in.lastSeq + 1                            THEN "gap"
  ELSE                                                         "late"

Accepts(in, got) == SeqOutcome(in, got) \in {"first", "dense", "gap"}

AfterSeq(in, got) ==
  [in EXCEPT !.sawSnapshot = FALSE,
             !.lastSeqSet  = TRUE,
             !.lastSeq     = IF Accepts(in, got) THEN got ELSE @,
             !.gapped      = @ \/ SeqOutcome(in, got) \in {"restart", "gap"}]

SeqRule(in, got) ==
  CASE SeqOutcome(in, got) = "restart" -> {"PERINSTR_NO_SNAPSHOT_RESET"}
    [] SeqOutcome(in, got) = "gap"     -> {"PERINSTR_DENSITY"}
    [] OTHER                           -> {}

(* LevelUpdate and BookClear.                                              *)
OnDelta(v, m) ==
  LET in    == v.instr[m.instr]
      after == AfterSeq(in, m.seq)
  IN  [v EXCEPT
         !.instr[m.instr] =
            CASE MalformedClear(m)                        -> [after EXCEPT !.gapped = TRUE]
              [] ~MalformedClear(m) /\ Accepts(in, m.seq) -> Record(after, m)
              [] OTHER                                    -> after,
         !.findings = @ \cup SeqRule(in, m.seq)
                        \cup (IF MalformedClear(m) THEN {"ABSOLUTE_APPLY"} ELSE {})]

NoGroup == [instr |-> "none"]

(* InstrumentReset: the ladder restarts from the next group. lastSeq and   *)
(* baseK keep their values, only the flags beside them are cleared.        *)
OnInstrumentReset(v, m) ==
  [v EXCEPT !.instr[m.instr] = [NewInstr EXCEPT !.lastSeq = v.instr[m.instr].lastSeq,
                                                !.baseK = v.instr[m.instr].baseK],
            !.open = IF @.instr = m.instr THEN NoGroup ELSE @]

-----------------------------------------------------------------------------
(* The snapshot port. clean is gateDetectorSnap: the channel's snapshot    *)
(* series has shown no gap this era.                                       *)
(* mbpGroupStatus: whether a structural defect is charged.                 *)
GroupStatus(open, clean) == (open # NoGroup => ~open.dirty) /\ clean

(* mbpOrphanStatus.                                                        *)
OrphanCharged(v, clean) == v.sawBegin /\ GroupStatus(NoGroup, clean)

Charge(v, charged) ==
  IF charged THEN [v EXCEPT !.findings = @ \cup {"GROUP_STRUCTURE"}] ELSE v

(* A gap on the snapshot port inside an open group.                        *)
NoteSnapSeq(v, seq) ==
  IF v.open = NoGroup THEN v
  ELSE LET o == v.open
           hole == seq > o.lastSnapSeq + 1 /\ ~o.dirty
       IN  [v EXCEPT !.open =
              [o EXCEPT !.lastSnapSeq = seq,
                        !.dirty     = @ \/ hole,
                        !.cleanCount = IF hole THEN o.count ELSE @,
                        !.cleanDups  = IF hole THEN o.dups ELSE @]]

OnSnapshotBegin(v, m, seq, clean) ==
  LET interleaved == v.open # NoGroup /\ v.open.instr # m.instr
  IN  [Charge(v, interleaved /\ GroupStatus(v.open, clean)) EXCEPT
         !.sawBegin = TRUE,
         !.open = [ instr |-> m.instr, id |-> m.id, anchor |-> m.anchor,
                    total |-> m.total, lastK |-> m.lastK, levels |-> Empty, keys |-> {},
                    count |-> 0, dups |-> 0, dirty |-> FALSE,
                    cleanCount |-> 0, cleanDups |-> 0, lastSnapSeq |-> seq ]]

OnSnapshotLevel(v, m, clean) ==
  CASE v.open = NoGroup -> Charge(v, OrphanCharged(v, clean))
    [] v.open # NoGroup /\ m.id # v.open.id -> Charge(v, GroupStatus(v.open, clean))
    [] OTHER ->
         [Charge(v, m.qty = 0) EXCEPT
            !.open.levels[m.key] = m.qty,
            !.open.keys = @ \cup {m.key},
            !.open.count = @ + 1,
            !.open.dups = IF m.key \in v.open.keys THEN @ + 1 ELSE @]

-----------------------------------------------------------------------------
(* finishMBPSnapshot. A dropped SnapshotEnd followed by a dropped          *)
(* SnapshotBegin merges two groups: only that shape excuses an over-count  *)
(* or a repeated key.                                                      *)
MergeShapeByAnchor(o, m) ==   \* variant: the groups are told by their anchors
  o.dirty /\ m.instr # o.instr /\ m.anchor = o.anchor

MergeShape(o, m) == o.dirty /\ m.instr # o.instr /\ m.id = o.id

DefectOf(o, m) ==
  {x \in {"field", "under", "over", "dup"} :
     \/ x = "field" /\ (m.instr # o.instr \/ m.anchor # o.anchor \/ m.id # o.id)
     \/ x = "under" /\ o.count < o.total
     \/ x = "over"  /\ o.count > o.total
     \/ x = "dup"   /\ o.dups > 0}

ChargedDefect(o, m, clean, x) ==
  CASE x \in {"field", "under"} -> GroupStatus(o, clean)
    [] x = "over" -> MergeShape(o, m) /\ o.cleanCount <= o.total => GroupStatus(o, clean)
    [] x = "dup"  -> MergeShape(o, m) /\ o.cleanDups = 0 => GroupStatus(o, clean)

ComparableAhead(in, k) ==    \* variant: a group ahead of the deltas is compared
  /\ ~in.gapped /\ ~in.overflow
  /\ in.baseSet /\ k >= in.baseK

(* The reconstruction oracle compares only where the deltas reach.         *)
Comparable(in, k) ==
  /\ ~in.gapped /\ ~in.overflow
  /\ in.baseSet /\ k >= in.baseK
  /\ in.lastSeqSet /\ k <= in.lastSeq

AdoptDroppingAll(in, o) ==   \* variant: the journal past the group is dropped too
  [in EXCEPT !.base = o.levels, !.baseK = o.lastK, !.baseSet = TRUE,
             !.journal = {}, !.overflow = FALSE, !.droppedMax = 0,
             !.gapped = FALSE, !.sawSnapshot = TRUE,
             !.lastSeq    = IF o.lastK > in.lastSeq THEN o.lastK ELSE @,
             !.lastSeqSet = @ \/ o.lastK > in.lastSeq]

AdoptRewinding(in, o) ==     \* variant: the tracker moves to the group, even backwards
  [in EXCEPT !.base = o.levels, !.baseK = o.lastK, !.baseSet = TRUE,
             !.journal = {e \in @ : e.seq > o.lastK},
             !.overflow = FALSE, !.droppedMax = 0,
             !.gapped = FALSE, !.sawSnapshot = TRUE,
             !.lastSeq    = o.lastK,
             !.lastSeqSet = TRUE]

(* The group becomes the baseline and the journal it subsumes is dropped.  *)
Adopt(in, o) ==
  LET still == in.droppedMax > o.lastK
  IN  [in EXCEPT !.base = o.levels, !.baseK = o.lastK, !.baseSet = TRUE,
                 !.journal = {e \in @ : e.seq > o.lastK},
                 !.overflow = still,
                 !.droppedMax = IF still THEN @ ELSE 0,
                 !.gapped = FALSE, !.sawSnapshot = TRUE,
                 !.lastSeq    = IF o.lastK > in.lastSeq THEN o.lastK ELSE @,
                 !.lastSeqSet = @ \/ o.lastK > in.lastSeq]

OnSnapshotEnd(v, m, clean) ==
  LET o       == v.open
      closed  == [v EXCEPT !.open = NoGroup]
      defects == DefectOf(o, m)
      in      == v.instr[o.instr]
      wrong   == Comparable(in, o.lastK) /\ StateAsOf(in, o.lastK) # o.levels
  IN  CASE o = NoGroup -> Charge(v, OrphanCharged(v, clean))
        [] o # NoGroup /\ defects # {} ->
             Charge(closed, \E x \in defects : ChargedDefect(o, m, clean, x))
        [] OTHER ->
             [closed EXCEPT
                !.instr[o.instr] = Adopt(in, o),
                !.findings = @ \cup IF wrong THEN {"RECONSTRUCTED_BOOK"} ELSE {}]

-----------------------------------------------------------------------------
(* checkMBP and checkMBPSnapshot: the messages of one frame, in order.     *)
OnMktdata(v, m) ==
  IF m.type = "reset" THEN OnInstrumentReset(v, m) ELSE OnDelta(v, m)

OnSnapshot(v, m, seq, clean) ==
  CASE m.type = "begin" -> OnSnapshotBegin(v, m, seq, clean)
    [] m.type = "entry" -> OnSnapshotLevel(v, m, clean)
    [] m.type = "end"   -> OnSnapshotEnd(v, m, clean)

(* mbpObserveEra: the first accepted frame of a new era, on any port,      *)
(* wipes the channel's state; the first era of a run is only recorded.     *)
NoCount == -1

NewEra(v, eraPos, era) ==
  /\ eraPos > v.mbpSeen
  /\ v.resetCount # NoCount /\ v.resetCount # era

ObserveEra(v, eraPos, era) ==
  IF eraPos <= v.mbpSeen THEN v
  ELSE [v EXCEPT
          !.mbpSeen = eraPos,
          !.resetCount = era,
          !.instr = IF NewEra(v, eraPos, era) THEN [i \in Instruments |-> NewInstr] ELSE @,
          !.open = IF NewEra(v, eraPos, era) THEN NoGroup ELSE @]

NewConsumer ==
  [ instr |-> [i \in Instruments |-> NewInstr], open |-> NoGroup, sawBegin |-> FALSE,
    resetCount |-> NoCount, mbpSeen |-> 0, findings |-> {} ]
=============================================================================

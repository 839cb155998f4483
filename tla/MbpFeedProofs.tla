---------------------------- MODULE MbpFeedProofs ----------------------------
(***************************************************************************)
(* What the market-by-price validator (engine/mbp.go) keeps is typed, for  *)
(* every set of instruments, prices and plans. A message is typed when it  *)
(* is sent, and the frames under way and in the reorder buffers keep the   *)
(* order they were sent in, so each buffer holds a number once. While no   *)
(* delta is lost, what it believes is true, too.                           *)
(***************************************************************************)
EXTENDS MbpFeed, PortSeriesProofs

-----------------------------------------------------------------------------
(* The validator's state is typed.                                         *)
StateFields == {"instr", "open", "sawBegin", "resetCount", "mbpSeen", "findings"}

GroupFields ==
  {"instr", "id", "anchor", "total", "lastK", "levels", "keys", "count", "dups",
   "dirty", "cleanCount", "cleanDups", "lastSnapSeq"}

InstrTyped(in) ==
  /\ in \in Instr
  /\ IsFiniteSet(in.journal) /\ Cardinality(in.journal) <= MaxJournal

OpenTyped(o) ==
  \/ o = NoGroup
  \/ /\ DOMAIN o = GroupFields
     /\ o.instr \in Instruments /\ o.levels \in Ladder /\ o.lastK \in Nat

StateTyped(w) ==
  /\ DOMAIN w = StateFields
  /\ w.instr \in [Instruments -> Instr] /\ \A i \in Instruments : InstrTyped(w.instr[i])
  /\ OpenTyped(w.open)
  /\ w.mbpSeen \in Nat
  /\ w.findings \subseteq Rules

(* The messages a handler may be given. *)
DeltaTyped(m) ==
  /\ m.instr \in Instruments
  /\ m.type \in {"level", "clear"} => m.seq \in Nat
  /\ m.type = "level" => m.key \in Levels /\ m.qty \in 0 .. MaxQty
  /\ m.type \in {"level", "clear", "reset"}

SnapshotTyped(m) ==
  /\ m.type = "begin" => m.instr \in Instruments /\ m.lastK \in Nat
  /\ m.type = "entry" => m.key \in Levels /\ m.qty \in 0 .. MaxQty
  /\ m.type \in {"begin", "entry", "end"}

MessageTyped(p, m) == IF p = "snapshot" THEN SnapshotTyped(m) ELSE DeltaTyped(m)

LEMMA NoGroupApart == \A o : DOMAIN o = GroupFields => o # NoGroup
  BY DEF GroupFields, NoGroup

LEMMA InstrIs == \A in : InstrTyped(in) => in \in Instr
  BY DEF InstrTyped

LEMMA EmptyLadder == Empty \in Ladder
  BY JournalAssumption DEF Empty, Ladder

LEMMA NewInstrTyped == InstrTyped(NewInstr)
<1>1. IsFiniteSet({}) /\ Cardinality({}) = 0
  BY FS_EmptySet
<1>2. NewInstr \in Instr
  BY EmptyLadder DEF NewInstr, Instr
<1>3. NewInstr.journal = {}
  BY DEF NewInstr
<1> QED
  BY <1>1, <1>2, <1>3, JournalAssumption DEF InstrTyped

LEMMA AfterSeqTyped ==
  ASSUME NEW in, InstrTyped(in), NEW got \in Nat
  PROVE  /\ InstrTyped(AfterSeq(in, got))
         /\ AfterSeq(in, got).journal = in.journal
<1> DEFINE after == AfterSeq(in, got)
<1>1. in \in Instr
  BY DEF InstrTyped
<1>2. after \in Instr /\ after.journal = in.journal
  <2> DEFINE ok == Accepts(in, got)
             gap == SeqOutcome(in, got) \in {"restart", "gap"}
  <2>1. ok \in BOOLEAN /\ gap \in BOOLEAN
    BY DEF Accepts
  <2>2. after = [in EXCEPT !.sawSnapshot = FALSE, !.lastSeqSet = TRUE,
                           !.lastSeq = IF ok THEN got ELSE @, !.gapped = @ \/ gap]
    BY DEF AfterSeq
  <2> HIDE DEF ok, gap, after
  <2> QED
    BY <1>1, <2>1, <2>2 DEF Instr
<1> QED
  BY <1>2 DEF InstrTyped

LEMMA TouchedTyped ==
  ASSUME NEW m, DeltaTyped(m), m.type # "reset"
  PROVE  Touched(m) \subseteq Levels /\ Leaves(m) \in 0 .. MaxQty
BY JournalAssumption DEF DeltaTyped, Touched, Leaves, Cleared

LEMMA RecordTyped ==
  ASSUME NEW in, InstrTyped(in), NEW m, DeltaTyped(m), m.type # "reset"
  PROVE  InstrTyped(Record(in, m))
<1> DEFINE e == [seq |-> m.seq, levels |-> Touched(m), qty |-> Leaves(m)]
           r == Record(in, m)
<1>1. e \in Entry /\ m.seq \in Nat
  BY TouchedTyped DEF Entry, DeltaTyped
<1>2. in \in Instr /\ IsFiniteSet(in.journal) /\ Cardinality(in.journal) \in Nat
  BY FS_CardinalityType DEF InstrTyped
<1> HIDE DEF e
<1>3. CASE Cardinality(in.journal) >= MaxJournal
  <2>1. r = [in EXCEPT !.overflow = TRUE,
                       !.droppedMax = IF m.seq > @ THEN m.seq ELSE @]
    BY <1>3 DEF Record
  <2> HIDE DEF r
  <2>2. r \in Instr /\ r.journal = in.journal
    BY <1>1, <1>2, <2>1 DEF Instr
  <2> QED
    BY <2>2 DEF InstrTyped, r
<1>4. CASE ~(Cardinality(in.journal) >= MaxJournal)
  <2>1. r = [in EXCEPT !.journal = @ \cup {e}]
    BY <1>4 DEF Record, e
  <2> HIDE DEF r
  <2>2. r \in Instr /\ r.journal = in.journal \cup {e}
    BY <1>1, <1>2, <2>1 DEF Instr
  <2>3. IsFiniteSet(in.journal \cup {e})
        /\ Cardinality(in.journal \cup {e}) <= Cardinality(in.journal) + 1
    <3> DEFINE J == in.journal
    <3>1. IsFiniteSet(J) /\ Cardinality(J) \in Nat
      BY <1>2
    <3> HIDE DEF J
    <3>2. /\ IsFiniteSet(J \cup {e})
          /\ Cardinality(J \cup {e}) = IF e \in J THEN Cardinality(J) ELSE Cardinality(J) + 1
      BY <3>1, FS_AddElement
    <3> QED
      BY <3>1, <3>2 DEF J
  <2>4. Cardinality(in.journal \cup {e}) \in Nat
    BY <2>3, FS_CardinalityType
  <2> QED
    BY <1>2, <1>4, <2>2, <2>3, <2>4, JournalAssumption DEF InstrTyped, r
<1> QED
  BY <1>3, <1>4

LEMMA AdoptTyped ==
  ASSUME NEW in, InstrTyped(in), NEW o, o.levels \in Ladder, o.lastK \in Nat
  PROVE  InstrTyped(Adopt(in, o))
<1> DEFINE still == in.droppedMax > o.lastK
           ahead == o.lastK > in.lastSeq
           kept  == {e \in in.journal : e.seq > o.lastK}
           a     == Adopt(in, o)
<1>1. in \in Instr /\ IsFiniteSet(in.journal) /\ Cardinality(in.journal) \in Nat
  BY FS_CardinalityType DEF InstrTyped
<1>2. still \in BOOLEAN /\ ahead \in BOOLEAN /\ kept \subseteq in.journal
  OBVIOUS
<1>3. a = [in EXCEPT !.base = o.levels, !.baseK = o.lastK, !.baseSet = TRUE,
                     !.journal = kept, !.overflow = still,
                     !.droppedMax = IF still THEN @ ELSE 0,
                     !.gapped = FALSE, !.sawSnapshot = TRUE,
                     !.lastSeq    = IF ahead THEN o.lastK ELSE @,
                     !.lastSeqSet = @ \/ ahead]
  BY DEF Adopt
<1> HIDE DEF still, ahead, kept, a
<1>4. a \in Instr /\ a.journal = kept
  BY <1>1, <1>2, <1>3 DEF Instr
<1>5. IsFiniteSet(kept) /\ Cardinality(kept) <= Cardinality(in.journal) /\ Cardinality(kept) \in Nat
  BY <1>1, <1>2, FS_Subset, FS_CardinalityType
<1> QED
  BY <1>1, <1>4, <1>5, JournalAssumption DEF InstrTyped, a

-----------------------------------------------------------------------------
(* The handlers.                                                           *)
LEMMA ChargeTyped ==
  ASSUME NEW w, StateTyped(w), NEW charged
  PROVE  StateTyped(Charge(w, charged))
<1> DEFINE c == [w EXCEPT !.findings = @ \cup {"GROUP_STRUCTURE"}]
<1>1. StateTyped(c)
  <2>1. /\ DOMAIN c = StateFields /\ c.instr = w.instr /\ c.open = w.open
        /\ c.mbpSeen = w.mbpSeen /\ c.findings = w.findings \cup {"GROUP_STRUCTURE"}
    BY DEF StateTyped, StateFields
  <2> HIDE DEF c
  <2> QED
    BY <2>1 DEF StateTyped, Rules
<1> QED
  BY <1>1 DEF Charge

LEMMA DeltaKeepsTypes ==
  ASSUME NEW w, StateTyped(w), NEW m, DeltaTyped(m), m.type # "reset"
  PROVE  StateTyped(OnDelta(w, m))
<1> DEFINE in    == w.instr[m.instr]
           after == AfterSeq(in, m.seq)
           new   == CASE MalformedClear(m)                        -> [after EXCEPT !.gapped = TRUE]
                      [] ~MalformedClear(m) /\ Accepts(in, m.seq) -> Record(after, m)
                      [] OTHER                                    -> after
           found == SeqRule(in, m.seq) \cup (IF MalformedClear(m) THEN {"ABSOLUTE_APPLY"} ELSE {})
           u     == OnDelta(w, m)
<1>1. m.instr \in Instruments /\ m.seq \in Nat /\ InstrTyped(in)
  BY DEF DeltaTyped, StateTyped
<1>2. InstrTyped(after)
  BY <1>1, AfterSeqTyped
<1>3. InstrTyped(Record(after, m))
  BY <1>2, RecordTyped
<1>4. InstrTyped([after EXCEPT !.gapped = TRUE])
  <2> HIDE DEF after
  <2>1. [after EXCEPT !.gapped = TRUE] \in Instr
        /\ [after EXCEPT !.gapped = TRUE].journal = after.journal
    BY <1>2 DEF InstrTyped, Instr
  <2> QED
    BY <1>2, <2>1 DEF InstrTyped
<1>5. InstrTyped(new)
  BY <1>2, <1>3, <1>4
<1>6. found \subseteq Rules
  BY DEF SeqRule, Rules
<1>7. u = [w EXCEPT !.instr[m.instr] = new, !.findings = @ \cup found]
  BY DEF OnDelta
<1> HIDE DEF in, after, new, found, u
<1>8. /\ DOMAIN u = StateFields /\ u.instr = [w.instr EXCEPT ![m.instr] = new] /\ u.open = w.open
      /\ u.mbpSeen = w.mbpSeen /\ u.findings = w.findings \cup found
  BY <1>7 DEF StateTyped, StateFields
<1>9. StateTyped(u)
  BY InstrIs, <1>1, <1>5, <1>6, <1>8 DEF StateTyped
<1> QED
  BY <1>9 DEF u

LEMMA ResetKeepsTypes ==
  ASSUME NEW w, StateTyped(w), NEW m, m.instr \in Instruments
  PROVE  StateTyped(OnInstrumentReset(w, m))
<1> DEFINE in  == w.instr[m.instr]
           new == [NewInstr EXCEPT !.lastSeq = in.lastSeq, !.baseK = in.baseK]
           u   == OnInstrumentReset(w, m)
<1>1. InstrTyped(in)
  BY DEF StateTyped
<1>2. InstrTyped(new)
  <2> HIDE DEF in
  <2>1. new \in Instr /\ new.journal = NewInstr.journal
    BY <1>1, NewInstrTyped DEF InstrTyped, Instr
  <2> QED
    BY <2>1, NewInstrTyped DEF InstrTyped
<1>3. u = [w EXCEPT !.instr[m.instr] = new, !.open = IF @.instr = m.instr THEN NoGroup ELSE @]
  BY DEF OnInstrumentReset
<1> HIDE DEF in, new, u
<1>4. /\ DOMAIN u = StateFields /\ u.instr = [w.instr EXCEPT ![m.instr] = new]
      /\ u.open \in {NoGroup, w.open} /\ u.mbpSeen = w.mbpSeen /\ u.findings = w.findings
  BY <1>3 DEF StateTyped, StateFields
<1>5. StateTyped(u)
  BY InstrIs, <1>2, <1>4 DEF StateTyped, OpenTyped
<1> QED
  BY <1>5 DEF u

LEMMA NoteKeepsTypes ==
  ASSUME NEW w, StateTyped(w), NEW seq
  PROVE  StateTyped(NoteSnapSeq(w, seq))
<1> DEFINE o    == w.open
           hole == seq > o.lastSnapSeq + 1 /\ ~o.dirty
           n    == [o EXCEPT !.lastSnapSeq = seq,
                             !.dirty     = @ \/ hole,
                             !.cleanCount = IF hole THEN o.count ELSE @,
                             !.cleanDups  = IF hole THEN o.dups ELSE @]
           u    == [w EXCEPT !.open = n]
<1>1. CASE w.open = NoGroup
  BY <1>1 DEF NoteSnapSeq
<1>2. CASE w.open # NoGroup
  <2>1. NoteSnapSeq(w, seq) = u
    BY <1>2 DEF NoteSnapSeq
  <2>2. DOMAIN o = GroupFields /\ o.instr \in Instruments /\ o.levels \in Ladder /\ o.lastK \in Nat
    BY <1>2 DEF StateTyped, OpenTyped
  <2> HIDE DEF hole, o
  <2>3. DOMAIN n = GroupFields /\ n.instr = o.instr /\ n.levels = o.levels /\ n.lastK = o.lastK
    BY <2>2 DEF GroupFields
  <2> HIDE DEF n
  <2>4. /\ DOMAIN u = StateFields /\ u.instr = w.instr /\ u.open = n
        /\ u.mbpSeen = w.mbpSeen /\ u.findings = w.findings
    BY DEF StateTyped, StateFields
  <2> HIDE DEF u
  <2>5. StateTyped(u)
    BY <2>2, <2>3, <2>4 DEF StateTyped, OpenTyped
  <2> QED
    BY <2>1, <2>5
<1> QED
  BY <1>1, <1>2

(* Only the open group, and perhaps findings, differ. *)
LEMMA OpenReplaced ==
  ASSUME NEW w, StateTyped(w), NEW o, OpenTyped(o), NEW u,
         DOMAIN u = StateFields, u.instr = w.instr, u.mbpSeen = w.mbpSeen,
         u.findings = w.findings, u.open = o
  PROVE  StateTyped(u)
BY DEF StateTyped

LEMMA BeginKeepsTypes ==
  ASSUME NEW w, StateTyped(w), NEW m, m.instr \in Instruments, m.lastK \in Nat,
         NEW seq, NEW clean
  PROVE  StateTyped(OnSnapshotBegin(w, m, seq, clean))
<1> DEFINE o == [ instr |-> m.instr, id |-> m.id, anchor |-> m.anchor,
                  total |-> m.total, lastK |-> m.lastK, levels |-> Empty, keys |-> {},
                  count |-> 0, dups |-> 0, dirty |-> FALSE,
                  cleanCount |-> 0, cleanDups |-> 0, lastSnapSeq |-> seq ]
           b == w.open # NoGroup /\ w.open.instr # m.instr /\ GroupStatus(w.open, clean)
           c == Charge(w, b)
           u == [c EXCEPT !.sawBegin = TRUE, !.open = o]
<1>1. OnSnapshotBegin(w, m, seq, clean) = u
  BY DEF OnSnapshotBegin
<1>2. OpenTyped(o)
  BY EmptyLadder DEF OpenTyped, GroupFields
<1>3. StateTyped(c)
  BY ChargeTyped
<1> HIDE DEF o, c
<1>4. /\ DOMAIN u = StateFields /\ u.instr = c.instr /\ u.open = o
      /\ u.mbpSeen = c.mbpSeen /\ u.findings = c.findings
  BY <1>3 DEF StateTyped, StateFields
<1> HIDE DEF u
<1> QED
  BY <1>1, <1>2, <1>3, <1>4, OpenReplaced

LEMMA LevelKeepsTypes ==
  ASSUME NEW w, StateTyped(w), NEW m, m.key \in Levels, m.qty \in 0 .. MaxQty, NEW clean
  PROVE  StateTyped(OnSnapshotLevel(w, m, clean))
<1> DEFINE c == Charge(w, m.qty = 0)
           o == c.open
           n == [o EXCEPT !.levels[m.key] = m.qty, !.keys = @ \cup {m.key}, !.count = @ + 1,
                          !.dups = IF m.key \in w.open.keys THEN @ + 1 ELSE @]
           u == [c EXCEPT !.open = n]
<1>1. \A b : StateTyped(Charge(w, b))
  BY ChargeTyped
<1>2. CASE w.open = NoGroup \/ m.id # w.open.id
  BY <1>1, <1>2 DEF OnSnapshotLevel
<1>3. CASE ~(w.open = NoGroup \/ m.id # w.open.id)
  <2>1. OnSnapshotLevel(w, m, clean) =
          [c EXCEPT !.open.levels[m.key] = m.qty, !.open.keys = @ \cup {m.key},
                    !.open.count = @ + 1,
                    !.open.dups = IF m.key \in w.open.keys THEN @ + 1 ELSE @]
    BY <1>3 DEF OnSnapshotLevel
  <2>2. StateTyped(c) /\ c.open = w.open
    BY <1>1 DEF Charge, StateTyped, StateFields
  <2>3. DOMAIN o = GroupFields /\ o.instr \in Instruments /\ o.levels \in Ladder /\ o.lastK \in Nat
    BY <1>3, <2>2 DEF StateTyped, OpenTyped
  <2> HIDE DEF c
  <2>4. OnSnapshotLevel(w, m, clean) = u
    BY <2>1, <2>2, <2>3 DEF StateTyped, StateFields, GroupFields
  <2> HIDE DEF o
  <2>5. /\ DOMAIN n = GroupFields /\ n.instr = o.instr /\ n.lastK = o.lastK
        /\ n.levels = [o.levels EXCEPT ![m.key] = m.qty]
    BY <2>3 DEF GroupFields
  <2> HIDE DEF n
  <2>6. OpenTyped(n)
    BY <2>3, <2>5 DEF OpenTyped, Ladder
  <2>7. /\ DOMAIN u = StateFields /\ u.instr = c.instr /\ u.open = n
        /\ u.mbpSeen = c.mbpSeen /\ u.findings = c.findings
    BY <2>2 DEF StateTyped, StateFields
  <2> HIDE DEF u
  <2> QED
    BY <2>2, <2>4, <2>6, <2>7, OpenReplaced
<1> QED
  BY <1>2, <1>3

LEMMA ClosedTyped ==
  ASSUME NEW w, StateTyped(w)
  PROVE  LET u == [w EXCEPT !.open = NoGroup]
         IN  StateTyped(u) /\ u.instr = w.instr /\ u.open = NoGroup /\ u.findings = w.findings
             /\ u.resetCount = w.resetCount
<1> DEFINE u == [w EXCEPT !.open = NoGroup]
<1>1. /\ DOMAIN u = StateFields /\ u.instr = w.instr /\ u.open = NoGroup
      /\ u.mbpSeen = w.mbpSeen /\ u.findings = w.findings /\ u.resetCount = w.resetCount
  BY DEF StateTyped, StateFields
<1> HIDE DEF u
<1> QED
  BY <1>1, OpenReplaced DEF OpenTyped, u

LEMMA EndKeepsTypes ==
  ASSUME NEW w, StateTyped(w), NEW m, NEW clean
  PROVE  StateTyped(OnSnapshotEnd(w, m, clean))
<1> DEFINE o       == w.open
           closed  == [w EXCEPT !.open = NoGroup]
           in      == w.instr[o.instr]
           wrong   == Comparable(in, o.lastK) /\ StateAsOf(in, o.lastK) # o.levels
           found   == IF wrong THEN {"RECONSTRUCTED_BOOK"} ELSE {}
           u       == [closed EXCEPT !.instr[o.instr] = Adopt(in, o), !.findings = @ \cup found]
<1>1. StateTyped(closed) /\ closed.instr = w.instr /\ closed.open = NoGroup
  BY ClosedTyped
<1>2. \A b : StateTyped(Charge(w, b)) /\ StateTyped(Charge(closed, b))
  BY <1>1, ChargeTyped
<1>3. found \subseteq Rules
  BY DEF Rules
<1>4. ASSUME o # NoGroup
      PROVE  StateTyped(u)
  <2>1. o.instr \in Instruments /\ o.levels \in Ladder /\ o.lastK \in Nat
    BY <1>4 DEF StateTyped, OpenTyped
  <2>2. InstrTyped(in)
    BY <2>1 DEF StateTyped
  <2>3. InstrTyped(Adopt(in, o))
    BY <2>1, <2>2, AdoptTyped
  <2> HIDE DEF o, closed, in, found
  <2>4. /\ DOMAIN u = StateFields /\ u.instr = [closed.instr EXCEPT ![o.instr] = Adopt(in, o)]
        /\ u.open = closed.open /\ u.mbpSeen = closed.mbpSeen
        /\ u.findings = closed.findings \cup found
    BY <1>1 DEF StateTyped, StateFields
  <2> HIDE DEF u
  <2> QED
    BY InstrIs, <1>1, <1>3, <2>1, <2>3, <2>4 DEF StateTyped
<1> DEFINE ends == OnSnapshotEnd(w, m, clean)
<1>5. \/ o = NoGroup /\ ends = Charge(w, OrphanCharged(w, clean))
      \/ o # NoGroup /\ DefectOf(o, m) # {}
         /\ ends = Charge(closed, \E x \in DefectOf(o, m) : ChargedDefect(o, m, clean, x))
      \/ o # NoGroup /\ DefectOf(o, m) = {} /\ ends = u
  BY DEF OnSnapshotEnd
<1> HIDE DEF o, u, closed, ends
<1> QED
  BY <1>2, <1>4, <1>5 DEF ends

LEMMA ObserveKeepsTypes ==
  ASSUME NEW w, StateTyped(w), NEW eraPos \in Nat, NEW era
  PROVE  StateTyped(ObserveEra(w, eraPos, era))
<1> DEFINE fresh == NewEra(w, eraPos, era)
           is    == IF fresh THEN [i \in Instruments |-> NewInstr] ELSE w.instr
           o     == IF fresh THEN NoGroup ELSE w.open
           u == [w EXCEPT !.mbpSeen = eraPos, !.resetCount = era, !.instr = is, !.open = o]
<1>1. ObserveEra(w, eraPos, era) \in {w, u}
  BY DEF ObserveEra
<1>2. is \in [Instruments -> Instr] /\ \A i \in Instruments : InstrTyped(is[i])
  BY InstrIs, NewInstrTyped DEF StateTyped
<1>3. OpenTyped(o)
  BY DEF StateTyped, OpenTyped
<1> HIDE DEF is, o
<1>4. /\ DOMAIN u = StateFields /\ u.instr = is /\ u.open = o
      /\ u.mbpSeen = eraPos /\ u.findings = w.findings
  BY DEF StateTyped, StateFields
<1> HIDE DEF u
<1>5. StateTyped(u)
  BY InstrIs, <1>2, <1>3, <1>4 DEF StateTyped
<1> QED
  BY <1>1, <1>5

LEMMA MessageKeepsTypes ==
  ASSUME NEW p, NEW w, StateTyped(w), NEW m, MessageTyped(p, m), NEW seq, NEW clean
  PROVE  StateTyped(OnMessage(p, w, m, seq, clean))
<1>1. CASE p = "snapshot"
  BY <1>1, BeginKeepsTypes, LevelKeepsTypes, EndKeepsTypes
     DEF OnMessage, OnSnapshot, MessageTyped, SnapshotTyped
<1>2. CASE p # "snapshot"
  <2>1. DeltaTyped(m)
    BY <1>2 DEF MessageTyped
  <2>2. m.type = "reset" => StateTyped(OnInstrumentReset(w, m))
    BY <2>1, ResetKeepsTypes DEF DeltaTyped
  <2>3. m.type # "reset" => StateTyped(OnDelta(w, m))
    BY <2>1, DeltaKeepsTypes
  <2> QED
    BY <1>2, <2>2, <2>3 DEF OnMessage, OnMktdata
<1> QED
  BY <1>1, <1>2

-----------------------------------------------------------------------------
(* The messages of a frame, and the items of a batch, one after the other. *)
IsReading(f, k, p, w, msgs, seq, clean) ==
  f = [n \in 0 .. k |-> IF n = 0 THEN w ELSE OnMessage(p, f[n - 1], msgs[n], seq, clean)]

LEMMA ReadingExists ==
  ASSUME NEW k \in Nat, NEW p, NEW w, NEW msgs, NEW seq, NEW clean
  PROVE  \E f : IsReading(f, k, p, w, msgs, seq, clean)
<1> DEFINE S == {j \in Nat : \E f : IsReading(f, j, p, w, msgs, seq, clean)}
<1>1. 0 \in S
  <2>1. IsReading([n \in 0 .. 0 |-> w], 0, p, w, msgs, seq, clean)
    BY DEF IsReading
  <2> QED
    BY <2>1
<1>2. ASSUME NEW j \in 1 .. k, j - 1 \in S
      PROVE  j \in S
  <2>1. PICK f : IsReading(f, j - 1, p, w, msgs, seq, clean)
    BY <1>2
  <2> DEFINE last == OnMessage(p, f[j - 1], msgs[j], seq, clean)
             g    == [n \in 0 .. j |-> IF n <= j - 1 THEN f[n] ELSE last]
  <2>2. \A n \in 0 .. j - 1 : f[n] = IF n = 0 THEN w ELSE OnMessage(p, f[n - 1], msgs[n], seq, clean)
    BY <1>2, <2>1 DEF IsReading
  <2>3. ASSUME NEW n \in 0 .. j
        PROVE  g[n] = IF n = 0 THEN w ELSE OnMessage(p, g[n - 1], msgs[n], seq, clean)
    <3>1. CASE n <= j - 1
      BY <1>2, <2>2, <3>1
    <3>2. CASE n = j
      BY <1>2, <2>2, <3>2
    <3> QED
      BY <1>2, <3>1, <3>2
  <2>4. g = [n \in 0 .. j |-> g[n]]
    OBVIOUS
  <2> HIDE DEF g, last
  <2>5. IsReading(g, j, p, w, msgs, seq, clean)
    BY <2>3, <2>4 DEF IsReading
  <2> QED
    BY <1>2, <2>5
<1>3. k \in S
  <2> HIDE DEF S
  <2> QED
    BY <1>1, <1>2, UpTo
<1> QED
  BY <1>3

Reading(f, p, w, msgs, seq, clean) ==
  /\ ReadAll(p, w, msgs, seq, clean) = f[Len(msgs)] /\ f[0] = w
  /\ \A n \in 1 .. Len(msgs) : f[n] = OnMessage(p, f[n - 1], msgs[n], seq, clean)

LEMMA ReadAllReads ==
  ASSUME NEW p, NEW w, NEW msgs, NEW seq, NEW clean, Len(msgs) \in Nat
  PROVE  \E f : Reading(f, p, w, msgs, seq, clean)
<1> DEFINE read[n \in 0 .. Len(msgs)] ==
             IF n = 0 THEN w ELSE OnMessage(p, read[n - 1], msgs[n], seq, clean)
<1>1. \E f : IsReading(f, Len(msgs), p, w, msgs, seq, clean)
  BY ReadingExists
<1>2. read = [n \in 0 .. Len(msgs) |->
                IF n = 0 THEN w ELSE OnMessage(p, read[n - 1], msgs[n], seq, clean)]
  BY <1>1 DEF IsReading
<1>3. ReadAll(p, w, msgs, seq, clean) = read[Len(msgs)]
  BY DEF ReadAll
<1> HIDE DEF read
<1>4. Reading(read, p, w, msgs, seq, clean)
  BY <1>2, <1>3 DEF Reading
<1> QED
  BY <1>4

WalkStep(p, before, S, n) ==
  IF At(S, n) = {} THEN before ELSE ClassifyItem(p, before, CHOOSE item \in At(S, n) : TRUE)

IsWalk(f, k, p, acc, S) ==
  f = [n \in -1 .. k |-> IF n = -1 THEN acc ELSE WalkStep(p, f[n - 1], S, n)]

LEMMA WalkExists ==
  ASSUME NEW k \in Nat, NEW p, NEW acc, NEW S
  PROVE  \E f : IsWalk(f, k - 1, p, acc, S)
<1> DEFINE T == {j \in Nat : \E f : IsWalk(f, j - 1, p, acc, S)}
<1>1. 0 \in T
  <2>1. IsWalk([n \in -1 .. -1 |-> acc], -1, p, acc, S)
    BY DEF IsWalk
  <2>2. 0 - 1 = -1
    OBVIOUS
  <2> QED
    BY <2>1, <2>2
<1>2. ASSUME NEW j \in 1 .. k, j - 1 \in T
      PROVE  j \in T
  <2>1. PICK f : IsWalk(f, (j - 1) - 1, p, acc, S)
    BY <1>2
  <2> DEFINE last == WalkStep(p, f[j - 2], S, j - 1)
             g    == [n \in -1 .. j - 1 |-> IF n <= j - 2 THEN f[n] ELSE last]
  <2>2. \A n \in -1 .. j - 2 : f[n] = IF n = -1 THEN acc ELSE WalkStep(p, f[n - 1], S, n)
    <3>1. (j - 1) - 1 = j - 2
      BY <1>2
    <3> QED
      BY <2>1, <3>1 DEF IsWalk
  <2>3. ASSUME NEW n \in -1 .. j - 1
        PROVE  g[n] = IF n = -1 THEN acc ELSE WalkStep(p, g[n - 1], S, n)
    <3>1. CASE n <= j - 2
      BY <1>2, <2>2, <3>1
    <3>2. CASE n = j - 1
      BY <1>2, <2>2, <3>2
    <3> QED
      BY <1>2, <3>1, <3>2
  <2>4. g = [n \in -1 .. j - 1 |-> g[n]]
    OBVIOUS
  <2> HIDE DEF g, last
  <2>5. IsWalk(g, j - 1, p, acc, S)
    BY <2>3, <2>4 DEF IsWalk
  <2> QED
    BY <1>2, <2>5
<1>3. k \in T
  <2> HIDE DEF T
  <2> QED
    BY <1>1, <1>2, UpTo
<1> QED
  BY <1>3

LEMMA LastPlaceNat == LastPlace \in Nat
<1>1. MaxSeq * (W + 1) \in Nat
  BY WindowAssumption, SeqAssumption
<1> QED
  BY <1>1, WindowAssumption DEF LastPlace

LEMMA WalkWalks ==
  ASSUME NEW p, NEW acc, NEW S
  PROVE  \E f : /\ Walk(p, acc, S) = f[LastPlace] /\ f[-1] = acc
                /\ \A n \in 0 .. LastPlace : f[n] = WalkStep(p, f[n - 1], S, n)
<1> DEFINE walked[n \in -1 .. LastPlace] ==
             IF n = -1 THEN acc
             ELSE IF At(S, n) = {} THEN walked[n - 1]
             ELSE ClassifyItem(p, walked[n - 1], CHOOSE item \in At(S, n) : TRUE)
<1>1. \E f : IsWalk(f, LastPlace, p, acc, S)
  <2>1. LastPlace + 1 \in Nat /\ (LastPlace + 1) - 1 = LastPlace
    BY LastPlaceNat
  <2>2. \E f : IsWalk(f, (LastPlace + 1) - 1, p, acc, S)
    BY <2>1, WalkExists
  <2> QED
    BY <2>1, <2>2
<1>2. walked = [n \in -1 .. LastPlace |->
                  IF n = -1 THEN acc
                  ELSE IF At(S, n) = {} THEN walked[n - 1]
                  ELSE ClassifyItem(p, walked[n - 1], CHOOSE item \in At(S, n) : TRUE)]
  BY <1>1 DEF IsWalk, WalkStep
<1>3. Walk(p, acc, S) = walked[LastPlace]
  BY DEF Walk
<1> HIDE DEF walked
<1>4. \A n \in -1 .. LastPlace : walked[n] = IF n = -1 THEN acc ELSE WalkStep(p, walked[n - 1], S, n)
  BY <1>2 DEF WalkStep
<1>5. walked[-1] = acc /\ \A n \in 0 .. LastPlace : walked[n] = WalkStep(p, walked[n - 1], S, n)
  BY <1>4, LastPlaceNat
<1> QED
  BY <1>3, <1>5

-----------------------------------------------------------------------------
(* What a walk leaves of the validator's types.                            *)
TrackerTyped(t) == DOMAIN t = TrackerFields /\ t.eraPos \in Nat

Walking(acc) ==
  /\ DOMAIN acc = {"t", "v", "led"}
  /\ TrackerTyped(acc.t) /\ StateTyped(acc.v)

MessagesTyped(p, msgs) ==
  Len(msgs) \in Nat /\ \A n \in 1 .. Len(msgs) : MessageTyped(p, msgs[n])

LEMMA FrameKeepsTypes ==
  ASSUME NEW p, NEW w, StateTyped(w), NEW t, t.eraPos \in Nat,
         NEW item, MessagesTyped(p, item.body.msgs)
  PROVE  StateTyped(OnFrame(p, w, t, item))
<1> DEFINE seen  == ObserveEra(w, t.eraPos, t.era)
           noted == IF p = "snapshot" THEN NoteSnapSeq(seen, item.seq) ELSE seen
           msgs  == item.body.msgs
           clean == ~t.dirty
<1>1. StateTyped(noted)
  BY ObserveKeepsTypes, NoteKeepsTypes
<1>2. OnFrame(p, w, t, item) = ReadAll(p, noted, msgs, item.seq, clean)
  BY DEF OnFrame
<1> HIDE DEF noted, msgs, clean
<1>3. Len(msgs) \in Nat /\ \A n \in 1 .. Len(msgs) : MessageTyped(p, msgs[n])
  BY DEF MessagesTyped, msgs
<1>4. PICK f : Reading(f, p, noted, msgs, item.seq, clean)
  BY <1>3, ReadAllReads
<1> DEFINE S == {n \in 0 .. Len(msgs) : StateTyped(f[n])}
<1>5. 0 \in S
  BY <1>1, <1>3, <1>4 DEF Reading
<1>6. ASSUME NEW n \in 1 .. Len(msgs), n - 1 \in S
      PROVE  n \in S
  BY <1>3, <1>4, <1>6, MessageKeepsTypes DEF Reading
<1> HIDE DEF S
<1>7. Len(msgs) \in S
  BY <1>3, <1>5, <1>6, UpTo
<1> QED
  BY <1>2, <1>4, <1>7 DEF S, Reading

LEMMA ClassifiedTyped ==
  ASSUME NEW t, TrackerTyped(t), NEW S
  PROVE  LET c == Classify(t, S)
         IN  /\ TrackerTyped(c) /\ c.era = t.era /\ c.eraPos = t.eraPos /\ c.buf = t.buf
BY DEF TrackerTyped, TrackerFields, Classify

LEMMA ItemKeepsTypes ==
  ASSUME NEW p, NEW acc, Walking(acc), NEW item, MessagesTyped(p, item.body.msgs)
  PROVE  LET u == ClassifyItem(p, acc, item)
         IN  /\ Walking(u) /\ u.t.era = acc.t.era /\ u.t.eraPos = acc.t.eraPos
             /\ u.t.buf = acc.t.buf
<1> DEFINE alone == [item EXCEPT !.copy = 0]
           t     == Classify(acc.t, {alone})
           w     == OnFrame(p, acc.v, t, item)
           led   == acc.led \/ (p # "snapshot" /\ NewEra(acc.v, t.eraPos, t.era))
           u     == ClassifyItem(p, acc, item)
<1>1. TrackerTyped(t) /\ t.era = acc.t.era /\ t.eraPos = acc.t.eraPos /\ t.buf = acc.t.buf
  BY ClassifiedTyped DEF Walking
<1>2. StateTyped(w)
  <2> HIDE DEF t
  <2> QED
    BY <1>1, FrameKeepsTypes DEF TrackerTyped, Walking
<1>3. u \in {[acc EXCEPT !.t = t], [t |-> t, v |-> w, led |-> led]}
  BY DEF ClassifyItem
<1> HIDE DEF t, w, led, u
<1>4. DOMAIN u = {"t", "v", "led"} /\ u.t = t /\ u.v \in {acc.v, w}
  BY <1>3 DEF Walking
<1> QED
  BY <1>1, <1>2, <1>4 DEF Walking, u

LEMMA WalkKeepsTypes ==
  ASSUME NEW p, NEW acc, Walking(acc),
         NEW S, \A item \in S : MessagesTyped(p, item.body.msgs)
  PROVE  LET u == Walk(p, acc, S)
         IN  /\ Walking(u) /\ u.t.era = acc.t.era /\ u.t.eraPos = acc.t.eraPos
             /\ u.t.buf = acc.t.buf
<1> DEFINE Good(u) == /\ Walking(u) /\ u.t.era = acc.t.era /\ u.t.eraPos = acc.t.eraPos
                      /\ u.t.buf = acc.t.buf
<1>1. PICK f : /\ Walk(p, acc, S) = f[LastPlace] /\ f[-1] = acc
               /\ \A n \in 0 .. LastPlace : f[n] = WalkStep(p, f[n - 1], S, n)
  BY WalkWalks
<1> DEFINE T == {n \in 0 .. LastPlace + 1 : Good(f[n - 1])}
<1>2. 0 \in T
  <2>1. 0 - 1 = -1 /\ 0 \in 0 .. LastPlace + 1
    BY LastPlaceNat
  <2> QED
    BY <1>1, <2>1
<1>3. ASSUME NEW n \in 1 .. LastPlace + 1, n - 1 \in T
      PROVE  n \in T
  <2> DEFINE k    == n - 1
             b    == f[k - 1]
             item == CHOOSE i \in At(S, k) : TRUE
  <2>1. k \in 0 .. LastPlace /\ n \in 0 .. LastPlace + 1
    BY LastPlaceNat
  <2>2. f[k] = WalkStep(p, b, S, k) /\ Good(b)
    BY <1>1, <1>3, <2>1
  <2>3. CASE At(S, k) = {}
    BY <2>1, <2>2, <2>3 DEF WalkStep
  <2>4. CASE At(S, k) # {}
    <3>1. item \in S
      BY <2>4 DEF At
    <3>2. f[k] = ClassifyItem(p, b, item)
      BY <2>2, <2>4 DEF WalkStep
    <3> HIDE DEF item, b
    <3>3. Good(ClassifyItem(p, b, item))
      BY <2>2, <3>1, ItemKeepsTypes
    <3> QED
      BY <2>1, <3>2, <3>3
  <2> QED
    BY <2>3, <2>4
<1> HIDE DEF T, Good
<1>4. LastPlace + 1 \in T
  BY <1>2, <1>3, LastPlaceNat, UpTo
<1>5. (LastPlace + 1) - 1 = LastPlace
  BY LastPlaceNat
<1>6. Good(f[LastPlace])
  BY <1>4, <1>5 DEF T
<1> QED
  BY <1>1, <1>6 DEF Good

-----------------------------------------------------------------------------
(* The messages of a snapshot group: the begin, one entry for each level   *)
(* present in the ladder, the end.                                         *)
LEMMA LevelsFinite == IsFiniteSet(Levels)
<1> DEFINE pairs == Sides \X Prices
           f     == [x \in pairs |-> [side |-> x[1], price |-> x[2]]]
<1>1. IsFiniteSet({"bid", "ask"})
  <2>1. IsFiniteSet(({} \cup {"bid"}) \cup {"ask"})
    BY FS_EmptySet, FS_AddElement
  <2>2. ({} \cup {"bid"}) \cup {"ask"} = {"bid", "ask"}
    OBVIOUS
  <2> QED
    BY <2>1, <2>2
<1>2. IsFiniteSet(pairs)
  BY <1>1, SidesAssumption, PricesAssumption, FS_Subset, FS_Product
<1>3. f \in Surjection(pairs, Levels)
  <2>1. f \in [pairs -> Levels]
    BY DEF Levels
  <2>2. ASSUME NEW l \in Levels PROVE \E x \in pairs : f[x] = l
    <3>1. <<l.side, l.price>> \in pairs /\ l = [side |-> l.side, price |-> l.price]
      BY DEF Levels
    <3>2. f[<<l.side, l.price>>] = [side |-> l.side, price |-> l.price]
      BY <3>1
    <3> QED
      BY <3>1, <3>2
  <2> HIDE DEF f, pairs
  <2> QED
    BY <2>1, <2>2 DEF Surjection
<1> HIDE DEF f, pairs
<1> QED
  BY <1>2, <1>3, FS_Surjection

LEMMA SameTop == \A a, b \in Nat : 1 .. a = 1 .. b => a = b
<1> SUFFICES ASSUME NEW a \in Nat, NEW b \in Nat, 1 .. a = 1 .. b, a < b PROVE FALSE
  OBVIOUS
<1>1. b \in 1 .. b /\ b \notin 1 .. a
  OBVIOUS
<1> QED
  BY <1>1

LEMMA KeysOf ==
  ASSUME NEW S, IsFiniteSet(S)
  PROVE  /\ Cardinality(S) \in Nat
         /\ SetToSeq(S) \in [1 .. Cardinality(S) -> S]
         /\ \A a, b \in 1 .. Cardinality(S) : SetToSeq(S)[a] = SetToSeq(S)[b] => a = b
         /\ \A x \in S : \E a \in 1 .. Cardinality(S) : SetToSeq(S)[a] = x
         /\ Len(SetToSeq(S)) = Cardinality(S)
<1> DEFINE n == Cardinality(S)
           k == SetToSeq(S)
<1>1. n \in Nat /\ ExistsBijection(1 .. n, S)
  BY FS_CardinalityType
<1>2. \E f \in [1 .. n -> S] : IsInjective(f)
  BY <1>1 DEF ExistsBijection, Bijection, Injection
<1>3. k \in [1 .. n -> S] /\ IsInjective(k)
  BY <1>2 DEF SetToSeq
<1> HIDE DEF k
<1>4. \A a, b \in 1 .. n : k[a] = k[b] => a = b
  BY <1>3 DEF IsInjective
<1>5. \A x \in S : \E a \in 1 .. n : k[a] = x
  <2>1. IsFiniteSet(1 .. n) /\ Cardinality(1 .. n) = n
    BY <1>1, FS_Interval
  <2>2. k \in Injection(1 .. n, S)
    BY <1>3 DEF Injection
  <2> DEFINE T == {k[a] : a \in 1 .. n}
  <2>3. k \in Surjection(1 .. n, T) /\ k \in Injection(1 .. n, T) /\ T \subseteq S
    BY <1>3, <2>2 DEF Surjection, Injection
  <2> HIDE DEF T
  <2>4. Cardinality(T) = n
    BY <2>1, <2>3, FS_Surjection
  <2>5. T = S
    BY <2>3, <2>4, FS_Subset
  <2> QED
    BY <2>5 DEF T
<1>6. Len(k) = n
  <2>1. k \in Seq(S)
    BY <1>1, <1>3, SeqDef
  <2>2. DOMAIN k = 1 .. Len(k) /\ Len(k) \in Nat /\ DOMAIN k = 1 .. n
    BY <1>3, <2>1, LenProperties
  <2> QED
    BY <1>1, <2>2, SameTop
<1> QED
  BY <1>1, <1>3, <1>4, <1>5, <1>6 DEF k

BeginOf(i, id, ladder, anchor, k) ==
  [type |-> "begin", instr |-> i, id |-> id, anchor |-> anchor,
   total |-> Cardinality(Present(ladder)), lastK |-> k]

EntryOf(i, id, ladder, l) ==
  [type |-> "entry", instr |-> i, id |-> id, key |-> l, qty |-> ladder[l]]

EndOf(i, id, anchor) == [type |-> "end", instr |-> i, id |-> id, anchor |-> anchor]

LEMMA OneSeq ==
  ASSUME NEW S, NEW x \in S
  PROVE  <<x>> \in Seq(S) /\ Len(<<x>>) = 1 /\ <<x>>[1] = x
OBVIOUS

LEMMA Framed ==
  ASSUME NEW S, NEW x \in S, NEW y \in S, NEW b \in Seq(S)
  PROVE  LET g == <<x>> \o b \o <<y>>
         IN  /\ g \in Seq(S) /\ Len(b) \in Nat /\ Len(g) = Len(b) + 2
             /\ g[1] = x /\ g[Len(b) + 2] = y
             /\ \A m \in 1 .. Len(b) : g[m + 1] = b[m]
<1> DEFINE h == <<x>>
           e == <<y>>
<1>1. h \in Seq(S) /\ Len(h) = 1 /\ h[1] = x /\ e \in Seq(S) /\ Len(e) = 1 /\ e[1] = y
  BY OneSeq
<1>2. Len(b) \in Nat
  BY LenProperties
<1> DEFINE a == h \o b
           g == a \o e
<1> HIDE DEF h, e
<1>3. /\ a \in Seq(S) /\ Len(a) = 1 + Len(b)
      /\ \A m \in 1 .. 1 + Len(b) : a[m] = IF m <= 1 THEN h[m] ELSE b[m - 1]
  <2>1. /\ a \in Seq(S) /\ Len(a) = Len(h) + Len(b)
        /\ \A m \in 1 .. Len(h) + Len(b) : a[m] = IF m <= Len(h) THEN h[m] ELSE b[m - Len(h)]
    BY <1>1, ConcatProperties
  <2> QED
    BY <1>1, <2>1
<1> HIDE DEF a
<1>4. /\ g \in Seq(S) /\ Len(g) = 1 + Len(b) + 1
      /\ \A m \in 1 .. 1 + Len(b) + 1 : g[m] = IF m <= 1 + Len(b) THEN a[m] ELSE e[m - (1 + Len(b))]
  <2>1. /\ g \in Seq(S) /\ Len(g) = Len(a) + Len(e)
        /\ \A m \in 1 .. Len(a) + Len(e) : g[m] = IF m <= Len(a) THEN a[m] ELSE e[m - Len(a)]
    BY <1>1, <1>3, ConcatProperties
  <2> QED
    BY <1>1, <1>3, <2>1
<1> HIDE DEF g
<1>5. g[1] = x
  <2>1. 1 \in 1 .. 1 + Len(b) + 1 /\ 1 <= 1 + Len(b) /\ 1 \in 1 .. 1 + Len(b)
    BY <1>2
  <2> QED
    BY <1>1, <1>3, <1>4, <2>1
<1>6. g[Len(b) + 2] = y
  <2>1. /\ Len(b) + 2 \in 1 .. 1 + Len(b) + 1 /\ ~(Len(b) + 2 <= 1 + Len(b))
        /\ Len(b) + 2 - (1 + Len(b)) = 1
    BY <1>2
  <2> QED
    BY <1>1, <1>4, <2>1
<1>7. ASSUME NEW m \in 1 .. Len(b) PROVE g[m + 1] = b[m]
  <2>1. /\ m + 1 \in 1 .. 1 + Len(b) + 1 /\ m + 1 <= 1 + Len(b) /\ m + 1 \in 1 .. 1 + Len(b)
        /\ ~(m + 1 <= 1) /\ (m + 1) - 1 = m
    BY <1>2
  <2> QED
    BY <1>3, <1>4, <2>1
<1>8. Len(g) = Len(b) + 2
  BY <1>2, <1>4
<1> QED
  BY <1>2, <1>4, <1>5, <1>6, <1>7, <1>8 DEF g, a, h, e

LEMMA GroupSays ==
  ASSUME NEW i
  PROVE  LET g  == Group(i)
             L  == BookNow(i)
             id == Len(groups[i]) + 1
             n  == Cardinality(Present(L))
             k  == SetToSeq(Present(L))
         IN  /\ n \in Nat /\ k \in [1 .. n -> Present(L)]
             /\ \A l \in Present(L) : \E m \in 1 .. n : k[m] = l
             /\ \A a, b \in 1 .. n : k[a] = k[b] => a = b
             /\ \E S : g \in Seq(S)
             /\ Len(g) = n + 2
             /\ g[1] = BeginOf(i, id, L, sent["mktdata"], SeqNow(i))
             /\ \A m \in 1 .. n : g[m + 1] = EntryOf(i, id, L, k[m])
             /\ g[n + 2] = EndOf(i, id, sent["mktdata"])
<1> DEFINE L == BookNow(i)
           id == Len(groups[i]) + 1
           n == Cardinality(Present(L))
           k == SetToSeq(Present(L))
           x == BeginOf(i, id, L, sent["mktdata"], SeqNow(i))
           y == EndOf(i, id, sent["mktdata"])
           b == [m \in 1 .. n |-> EntryOf(i, id, L, k[m])]
           S == {x, y} \cup {b[m] : m \in 1 .. n}
           g == <<x>> \o b \o <<y>>
<1>1. IsFiniteSet(Present(L))
  BY LevelsFinite, FS_Subset DEF Present
<1>2. /\ n \in Nat /\ k \in [1 .. n -> Present(L)]
      /\ \A l \in Present(L) : \E m \in 1 .. n : k[m] = l
      /\ \A a, c \in 1 .. n : k[a] = k[c] => a = c
      /\ Len(k) = n
  <2> DEFINE T == Present(L)
  <2>1. IsFiniteSet(T)
    BY <1>1
  <2> HIDE DEF T
  <2>2. /\ Cardinality(T) \in Nat
        /\ SetToSeq(T) \in [1 .. Cardinality(T) -> T]
        /\ \A a, c \in 1 .. Cardinality(T) : SetToSeq(T)[a] = SetToSeq(T)[c] => a = c
        /\ \A l \in T : \E m \in 1 .. Cardinality(T) : SetToSeq(T)[m] = l
        /\ Len(SetToSeq(T)) = Cardinality(T)
    BY <2>1, KeysOf
  <2> QED
    BY <2>2 DEF T
<1>3. Group(i) = g
  BY <1>2 DEF Group, BeginOf, EntryOf, EndOf
<1> HIDE DEF L, id, k, x, y, n
<1>4. b \in Seq(S) /\ Len(b) = n
  <2>1. b \in [1 .. n -> S]
    OBVIOUS
  <2> HIDE DEF S, b
  <2>2. b \in Seq(S)
    BY <1>2, <2>1, SeqDef
  <2>3. DOMAIN b = 1 .. n /\ DOMAIN b = 1 .. Len(b) /\ Len(b) \in Nat
    BY <2>1, <2>2, LenProperties
  <2>4. Len(b) = n
    BY <1>2, <2>3, SameTop
  <2> QED
    BY <2>2, <2>4
<1>5. x \in S /\ y \in S
  OBVIOUS
<1>6. \A m \in 1 .. n : b[m] = EntryOf(i, id, L, k[m])
  OBVIOUS
<1> HIDE DEF S, b
<1>7. /\ g \in Seq(S) /\ Len(g) = n + 2 /\ g[1] = x /\ g[n + 2] = y
      /\ \A m \in 1 .. n : g[m + 1] = b[m]
  BY <1>4, <1>5, Framed
<1> HIDE DEF g
<1>8. \A m \in 1 .. n : g[m + 1] = EntryOf(i, id, L, k[m])
  BY <1>6, <1>7
<1> QED
  BY <1>2, <1>3, <1>7, <1>8 DEF L, id, k, x, y, n

-----------------------------------------------------------------------------
(* The feed. No Reset Count returns within a run: the code cannot tell two *)
(* eras of one Reset Count apart.                                          *)
CountsDiffer ==
  \A p \in Plans : \A a, b \in 0 .. p.resets : ResetCountOf(a) = ResetCountOf(b) => a = b

PubTyped ==
  /\ plan \in Plans /\ feedEra \in 0 .. plan.resets
  /\ \A i \in Instruments : books[i] \in Seq(Ladder) /\ Len(books[i]) >= 1
  /\ DOMAIN books = Instruments
  /\ groups \in [Instruments -> Seq(Nat)]
  /\ (\E S : rest \in Seq(S)) /\ MessagesTyped("snapshot", rest)

Numbered(q, x) ==
  /\ x.seq \in Nat
  /\ \E e \in 0 .. feedEra : x.rc = ResetCountOf(e) /\ (e = feedEra => x.seq < sent[q])

FrameFrom(q, x) == Numbered(q, x) /\ MessagesTyped(q, x.body.msgs)

(* The frames under way, each port's in the order they were sent. *)
NetInv ==
  /\ sent \in [Ports -> Nat]
  /\ net \in Seq({net[n] : n \in DOMAIN net})
  /\ \A n \in DOMAIN net : net[n].port \in Ports /\ FrameFrom(net[n].port, net[n])
  /\ \A m, n \in DOMAIN net :
       m < n /\ net[m].port = net[n].port /\ net[m].rc = net[n].rc => net[m].seq < net[n].seq

(* The frames a port holds: all were sent before those under way. *)
BufferInv ==
  \A q \in Ports : \A i \in pt[q].buf :
    /\ FrameFrom(q, i) /\ i.copy = 0 /\ i.rc = pt[q].era
    /\ \A n \in DOMAIN net : net[n].port = q /\ net[n].rc = i.rc => i.seq < net[n].seq
    /\ \A j \in pt[q].buf : i.seq = j.seq => i = j

IntakeInv ==
  /\ DOMAIN pt = Ports
  /\ \A q \in Ports : TrackerTyped(pt[q]) /\ (pt[q].eraPos = 0 => pt[q].buf = {})
  /\ pos \in [ResetCounts -> Nat] /\ next \in Nat

FlowInv == NetInv /\ BufferInv /\ IntakeInv

(* What a run notes of the order of its deliveries.                        *)
Notes == {"era", "reset", "merge"}

MbpInv ==
  /\ PubTyped
  /\ running => FlowInv
  /\ StateTyped(v)
  /\ crossed \subseteq Notes

(* A sent frame stays one while the publisher goes on. *)
Onward ==
  \/ feedEra' = feedEra /\ \A q \in Ports : sent'[q] \in Nat /\ sent[q] <= sent'[q]
  \/ feedEra' = feedEra + 1

LEMMA FrameStays ==
  ASSUME Onward, feedEra \in Nat, sent \in [Ports -> Nat], NEW q \in Ports, NEW x, FrameFrom(q, x)
  PROVE  FrameFrom(q, x)'
<1>1. Numbered(q, x)'
  <2>1. PICK e \in 0 .. feedEra : x.rc = ResetCountOf(e) /\ (e = feedEra => x.seq < sent[q])
    BY DEF FrameFrom, Numbered
  <2>2. x.seq \in Nat
    BY DEF FrameFrom, Numbered
  <2>3. CASE feedEra' = feedEra /\ sent'[q] \in Nat /\ sent[q] <= sent'[q]
    BY <2>1, <2>2, <2>3 DEF Numbered
  <2>4. CASE feedEra' = feedEra + 1
    <3>1. e \in 0 .. feedEra' /\ e # feedEra'
      BY <2>1, <2>4
    <3> QED
      BY <2>1, <2>2, <3>1 DEF Numbered
  <2> QED
    BY <2>3, <2>4 DEF Onward
<1> QED
  BY <1>1 DEF FrameFrom

(* Nothing is sent. *)
LEMMA NothingSent ==
  ASSUME FlowInv, Onward, feedEra \in Nat, sent' \in [Ports -> Nat], UNCHANGED <<vars, net>>
  PROVE  FlowInv'
<1>1. \A q \in Ports : \A x : FrameFrom(q, x) => FrameFrom(q, x)'
  BY FrameStays DEF FlowInv, NetInv
<1>2. NetInv'
  BY <1>1 DEF FlowInv, NetInv
<1>3. BufferInv'
  BY <1>1 DEF FlowInv, BufferInv, vars
<1>4. IntakeInv'
  BY DEF FlowInv, IntakeInv, vars
<1> QED
  BY <1>2, <1>3, <1>4 DEF FlowInv

(* Nothing sent before on its port has the number of the frame sent now. *)
LEMMA SentBefore ==
  ASSUME PubTyped, NetInv, CountsDiffer, NEW p \in Ports, NEW x, Numbered(p, x),
         x.rc = ResetCountOf(feedEra)
  PROVE  x.seq < sent[p]
<1>1. PICK e \in 0 .. feedEra : x.rc = ResetCountOf(e) /\ (e = feedEra => x.seq < sent[p])
  BY DEF Numbered
<1>2. e \in 0 .. plan.resets /\ feedEra \in 0 .. plan.resets
  BY PlansAssumption DEF PubTyped
<1>3. e = feedEra
  BY <1>1, <1>2 DEF CountsDiffer, PubTyped
<1> QED
  BY <1>1, <1>3

LEMMA Sent ==
  ASSUME FlowInv, PubTyped, CountsDiffer, NEW p \in Ports, NEW msgs, Put(p, msgs),
         UNCHANGED <<vars, plan>>, MessagesTyped(p, msgs)
  PROVE  FlowInv'
<1>1. PICK f : /\ net' = Append(net, f) /\ f.port = p /\ f.rc = ResetCountOf(feedEra)
               /\ f.seq = sent[p] /\ f.body.msgs = msgs
  BY DEF Put
<1> DEFINE S == {net[n] : n \in DOMAIN net}
           k == Len(net) + 1
<1>2. sent \in [Ports -> Nat] /\ net \in Seq(S) /\ feedEra \in Nat /\ feedEra <= plan.resets
      /\ plan.resets \in Nat
  BY PlansAssumption DEF FlowInv, NetInv, PubTyped
<1>3. /\ DOMAIN net = 1 .. Len(net) /\ Len(net) \in Nat /\ DOMAIN net' = 1 .. k
      /\ net'[k] = f /\ \A n \in DOMAIN net : net'[n] = net[n]
      /\ net' \in Seq(S \cup {f})
  <2>1. net \in Seq(S \cup {f}) /\ f \in S \cup {f}
    BY <1>2
  <2> HIDE DEF S
  <2> QED
    BY <1>1, <1>2, <2>1, LenProperties, AppendProperties
<1>4. {net'[n] : n \in DOMAIN net'} = S \cup {f}
  BY <1>3
<1>5. sent' = [sent EXCEPT ![p] = sent[p] + 1] /\ feedEra' = feedEra
  BY DEF Put
<1>6. Onward
  BY <1>2, <1>5 DEF Onward
<1>7. \A q \in Ports : \A x : FrameFrom(q, x) => FrameFrom(q, x)'
  BY <1>2, <1>6, FrameStays
<1>8. FrameFrom(p, f)'
  <2>1. f.rc = ResetCountOf(feedEra) /\ f.seq \in Nat /\ f.seq < sent'[p]
    BY <1>1, <1>2, <1>5
  <2>2. feedEra' \in 0 .. feedEra' /\ f.rc = ResetCountOf(feedEra')
    BY <1>2, <1>5, <2>1
  <2> QED
    BY <1>1, <2>1, <2>2 DEF Numbered, FrameFrom
<1>9. \A x : Numbered(p, x) /\ x.rc = f.rc => x.seq < f.seq
  BY <1>1, SentBefore DEF FlowInv
<1>10. NetInv'
  <2>1. sent' \in [Ports -> Nat]
    BY <1>2, <1>5
  <2>2. (net \in Seq({net[n] : n \in DOMAIN net}))'
    BY <1>3, <1>4
  <2>3. \A n \in DOMAIN net' : net'[n].port \in Ports /\ FrameFrom(net[n].port, net[n])'
    BY <1>1, <1>3, <1>7, <1>8 DEF FlowInv, NetInv
  <2>4. ASSUME NEW m \in DOMAIN net', NEW n \in DOMAIN net', m < n,
               net'[m].port = net'[n].port, net'[m].rc = net'[n].rc
        PROVE  net'[m].seq < net'[n].seq
    <3>1. CASE n \in DOMAIN net
      <4>1. m \in DOMAIN net
        BY <1>3, <2>4, <3>1
      <4> QED
        BY <1>3, <2>4, <3>1, <4>1 DEF FlowInv, NetInv
    <3>2. CASE n = k
      <4>1. m \in DOMAIN net
        BY <1>3, <2>4, <3>2
      <4>2. net'[m] = net[m] /\ net[m].port = p /\ net[m].rc = f.rc /\ Numbered(p, net[m])
        BY <1>1, <1>3, <2>4, <3>2, <4>1 DEF FlowInv, NetInv, FrameFrom
      <4> QED
        BY <1>3, <1>9, <3>2, <4>2
    <3> QED
      BY <1>3, <3>1, <3>2
  <2> QED
    BY <2>1, <2>2, <2>3, <2>4 DEF NetInv
<1>11. BufferInv'
  <2>1. pt' = pt
    BY DEF vars
  <2> SUFFICES ASSUME NEW q \in Ports, NEW i \in pt[q].buf
               PROVE  /\ FrameFrom(q, i)' /\ i.copy = 0 /\ i.rc = pt[q].era
                      /\ \A n \in DOMAIN net' :
                           net'[n].port = q /\ net'[n].rc = i.rc => i.seq < net'[n].seq
    BY <2>1 DEF FlowInv, BufferInv
  <2>2. FrameFrom(q, i) /\ i.copy = 0 /\ i.rc = pt[q].era
        /\ \A n \in DOMAIN net : net[n].port = q /\ net[n].rc = i.rc => i.seq < net[n].seq
    BY DEF FlowInv, BufferInv
  <2>3. q = p /\ i.rc = f.rc => i.seq < f.seq
    BY <1>9, <2>2 DEF FrameFrom
  <2> QED
    BY <1>1, <1>3, <1>7, <2>2, <2>3
<1>12. IntakeInv'
  BY DEF FlowInv, IntakeInv, vars
<1> QED
  BY <1>10, <1>11, <1>12 DEF FlowInv

-----------------------------------------------------------------------------
(* The publisher's steps.                                                  *)
LEMMA PublisherStep ==
  ASSUME MbpInv, PublisherOnly, PubTyped', FlowInv'
  PROVE  MbpInv'
BY DEF MbpInv, PublisherOnly

LEMMA BookTyped ==
  ASSUME PubTyped, NEW i \in Instruments
  PROVE  BookNow(i) \in Ladder /\ SeqNow(i) \in Nat
<1>1. books[i] \in Seq(Ladder) /\ Len(books[i]) >= 1
  BY DEF PubTyped
<1>2. Len(books[i]) \in Nat
  BY <1>1, LenProperties
<1> QED
  BY <1>1, <1>2, ElementOfSeq DEF BookNow, SeqNow, Last

LEMMA InstrumentsOf == ASSUME PubTyped PROVE plan.instruments \subseteq Instruments
BY MbpPlansAssumption DEF PubTyped

LEMMA DeltaStep ==
  ASSUME MbpInv, CountsDiffer, NEW i \in Instruments, NEW m, NEW after \in Ladder,
         m.type \in {"level", "clear"}, m.instr = i, m.seq = SeqNow(i) + 1,
         m.type = "level" => m.key \in Levels /\ m.qty \in 0 .. MaxQty,
         Delta(i, m, after)
  PROVE  MbpInv'
<1>1. /\ PublisherOnly /\ Put("mktdata", <<m>>)
      /\ books' = [books EXCEPT ![i] = Append(@, after)]
      /\ UNCHANGED <<groups, rest, awaiting, plan, feedEra, running>>
  BY DEF Delta, PublisherOnly, Put
<1>2. PubTyped /\ FlowInv /\ SeqNow(i) \in Nat
  BY <1>1, BookTyped DEF MbpInv, PublisherOnly
<1>3. MessagesTyped("mktdata", <<m>>)
  <2>1. DeltaTyped(m)
    BY <1>2 DEF DeltaTyped
  <2>2. Len(<<m>>) = 1 /\ <<m>>[1] = m
    OBVIOUS
  <2>3. "mktdata" # "snapshot"
    OBVIOUS
  <2> QED
    BY <2>1, <2>2, <2>3 DEF MessagesTyped, MessageTyped
<1>4. PubTyped'
  <2>1. \A j \in Instruments : books[j] \in Seq(Ladder) /\ Len(books[j]) \in Nat /\ Len(books[j]) >= 1
    BY <1>2, LenProperties DEF PubTyped
  <2>2. Append(books[i], after) \in Seq(Ladder) /\ Len(Append(books[i], after)) = Len(books[i]) + 1
    BY <2>1, AppendProperties
  <2>3. /\ DOMAIN books' = Instruments
        /\ \A j \in Instruments : books'[j] = IF j = i THEN Append(books[i], after) ELSE books[j]
    BY <1>1, <1>2 DEF PubTyped
  <2>4. \A j \in Instruments : books'[j] \in Seq(Ladder) /\ Len(books'[j]) >= 1
    BY <2>1, <2>2, <2>3
  <2> QED
    BY <1>1, <1>2, <2>3, <2>4 DEF PubTyped, MessagesTyped
<1>5. FlowInv'
  BY <1>1, <1>2, <1>3, Sent, PlansAssumption DEF PublisherOnly
<1> QED
  BY <1>1, <1>4, <1>5, PublisherStep

LEMMA LevelStep ==
  ASSUME MbpInv, CountsDiffer, NEW i \in Instruments, NEW l \in Levels, NEW q \in 0 .. MaxQty,
         SendLevel(i, l, q)
  PROVE  MbpInv'
<1> DEFINE m == [type |-> "level", instr |-> i, seq |-> SeqNow(i) + 1, key |-> l, qty |-> q]
           after == [BookNow(i) EXCEPT ![l] = q]
<1>1. Delta(i, m, after)
  BY DEF SendLevel
<1>2. after \in Ladder
  BY BookTyped DEF MbpInv, Ladder
<1>3. /\ m.type = "level" /\ m.instr = i /\ m.seq = SeqNow(i) + 1
      /\ m.key \in Levels /\ m.qty \in 0 .. MaxQty
  OBVIOUS
<1> HIDE DEF m, after
<1> QED
  BY <1>1, <1>2, <1>3, DeltaStep

LEMMA ClearStep ==
  ASSUME MbpInv, CountsDiffer, NEW i \in Instruments, NEW l \in Levels, SendClear(i, l)
  PROVE  MbpInv'
<1> DEFINE Outer(k) == k.side = l.side /\ IF l.side = "bid" THEN k.price <= l.price
                                                            ELSE k.price >= l.price
           m == [type |-> "clear", instr |-> i, seq |-> SeqNow(i) + 1,
                 side |-> l.side, fromPrice |-> TRUE, price |-> l.price]
           after == [k \in Levels |-> IF Outer(k) THEN 0 ELSE BookNow(i)[k]]
<1>1. Delta(i, m, after)
  BY DEF SendClear
<1>2. after \in Ladder
  BY BookTyped, JournalAssumption DEF MbpInv, Ladder
<1>3. m.type = "clear" /\ m.instr = i /\ m.seq = SeqNow(i) + 1
  OBVIOUS
<1> HIDE DEF m, after
<1> QED
  BY <1>1, <1>2, <1>3, DeltaStep

LEMMA NoMessages == \A p : MessagesTyped(p, << >>)
BY DEF MessagesTyped

LEMMA HeartbeatStep ==
  ASSUME MbpInv, CountsDiffer, Heartbeat
  PROVE  MbpInv'
<1>1. /\ PublisherOnly /\ Put("mktdata", << >>)
      /\ UNCHANGED <<books, groups, rest, awaiting, plan, feedEra, running>>
  BY DEF Heartbeat, PublisherOnly, Put
<1>2. PubTyped /\ FlowInv
  BY <1>1 DEF MbpInv, PublisherOnly
<1>3. PubTyped'
  BY <1>1, <1>2 DEF PubTyped, MessagesTyped
<1>4. FlowInv'
  BY <1>1, <1>2, Sent, NoMessages, PlansAssumption DEF PublisherOnly
<1> QED
  BY <1>1, <1>3, <1>4, PublisherStep

(* The first message of a sequence, and the others. *)
LEMMA Split ==
  ASSUME NEW s, \E S : s \in Seq(S), s # << >>, NEW p, MessagesTyped(p, s)
  PROVE  /\ MessagesTyped(p, <<Head(s)>>) /\ MessagesTyped(p, Tail(s))
         /\ \E S : Tail(s) \in Seq(S)
<1>1. PICK S : s \in Seq(S)
  OBVIOUS
<1>2. Len(s) \in Nat /\ Len(s) # 0
  BY <1>1, EmptySeq
<1>3. /\ Head(s) = s[1] /\ Tail(s) \in Seq(S) /\ Len(Tail(s)) = Len(s) - 1
      /\ \A i \in 1 .. Len(Tail(s)) : Tail(s)[i] = s[i + 1]
  BY <1>1, HeadTailProperties
<1>4. MessageTyped(p, Head(s))
  BY <1>2, <1>3 DEF MessagesTyped
<1>5. Len(<<Head(s)>>) = 1 /\ <<Head(s)>>[1] = Head(s)
  OBVIOUS
<1>6. \A i \in 1 .. Len(s) - 1 : i + 1 \in 1 .. Len(s)
  BY <1>2
<1>7. MessagesTyped(p, Tail(s))
  BY <1>2, <1>3, <1>6 DEF MessagesTyped
<1> QED
  BY <1>3, <1>4, <1>5, <1>7 DEF MessagesTyped

LEMMA GroupTyped ==
  ASSUME PubTyped, NEW i \in Instruments
  PROVE  /\ MessagesTyped("snapshot", Group(i)) /\ Group(i) # << >>
         /\ \E S : Group(i) \in Seq(S)
<1> DEFINE g  == Group(i)
           L  == BookNow(i)
           id == Len(groups[i]) + 1
           n  == Cardinality(Present(L))
           k  == SetToSeq(Present(L))
<1>1. /\ n \in Nat /\ k \in [1 .. n -> Present(L)]
      /\ \E S : g \in Seq(S)
      /\ Len(g) = n + 2
      /\ g[1] = BeginOf(i, id, L, sent["mktdata"], SeqNow(i))
      /\ \A m \in 1 .. n : g[m + 1] = EntryOf(i, id, L, k[m])
      /\ g[n + 2] = EndOf(i, id, sent["mktdata"])
  BY GroupSays
<1>2. L \in Ladder /\ SeqNow(i) \in Nat
  BY BookTyped
<1> HIDE DEF g, k, n, id, L
<1>3. SnapshotTyped(g[1])
  BY <1>1, <1>2 DEF SnapshotTyped, BeginOf
<1>4. SnapshotTyped(g[n + 2])
  BY <1>1 DEF SnapshotTyped, EndOf
<1>5. \A m \in 1 .. n : SnapshotTyped(g[m + 1])
  <2> SUFFICES ASSUME NEW m \in 1 .. n PROVE SnapshotTyped(g[m + 1])
    OBVIOUS
  <2>1. k[m] \in Levels /\ L[k[m]] \in 0 .. MaxQty
    BY <1>1, <1>2 DEF Present, Ladder
  <2> DEFINE e == EntryOf(i, id, L, k[m])
  <2>2. e.type = "entry" /\ e.key = k[m] /\ e.qty = L[k[m]]
    BY DEF EntryOf
  <2>3. g[m + 1] = e
    BY <1>1
  <2> HIDE DEF e
  <2>4. SnapshotTyped(e)
    BY <2>1, <2>2 DEF SnapshotTyped
  <2> QED
    BY <2>3, <2>4
<1>6. \A m \in 1 .. n + 2 : m = 1 \/ m = n + 2 \/ (m - 1 \in 1 .. n /\ m = (m - 1) + 1)
  BY <1>1
<1>7. \A m \in 1 .. Len(g) : MessageTyped("snapshot", g[m])
  <2>1. \A m \in 1 .. n + 2 : SnapshotTyped(g[m])
    BY <1>3, <1>4, <1>5, <1>6
  <2> QED
    BY <1>1, <2>1 DEF MessageTyped
<1>8. MessagesTyped("snapshot", g)
  BY <1>1, <1>7 DEF MessagesTyped
<1>9. g # << >>
  <2>1. Len(<< >>) = 0
    OBVIOUS
  <2> QED
    BY <1>1, <2>1
<1> QED
  BY <1>1, <1>8, <1>9 DEF g

LEMMA GroupStep ==
  ASSUME MbpInv, CountsDiffer, NEW i \in Instruments, SendGroup(i)
  PROVE  MbpInv'
<1> DEFINE msgs == IF plan.packed THEN Group(i) ELSE <<Head(Group(i))>>
<1>1. /\ PublisherOnly /\ Put("snapshot", msgs)
      /\ rest' = IF plan.packed THEN << >> ELSE Tail(Group(i))
      /\ groups' = [groups EXCEPT ![i] = Append(@, SeqNow(i))]
      /\ UNCHANGED <<books, plan, feedEra, running>>
  BY DEF SendGroup, PublisherOnly, Put
<1>2. PubTyped /\ FlowInv /\ SeqNow(i) \in Nat
  BY <1>1, BookTyped DEF MbpInv, PublisherOnly
<1>3. /\ MessagesTyped("snapshot", Group(i)) /\ Group(i) # << >>
      /\ \E S : Group(i) \in Seq(S)
  BY <1>2, GroupTyped
<1>4. /\ MessagesTyped("snapshot", <<Head(Group(i))>>)
      /\ MessagesTyped("snapshot", Tail(Group(i)))
      /\ \E S : Tail(Group(i)) \in Seq(S)
  <2> DEFINE g == Group(i)
  <2> HIDE DEF g
  <2>1. /\ MessagesTyped("snapshot", <<Head(g)>>) /\ MessagesTyped("snapshot", Tail(g))
        /\ \E S : Tail(g) \in Seq(S)
    BY <1>3, Split DEF g
  <2> QED
    BY <2>1 DEF g
<1>5. MessagesTyped("snapshot", msgs)
  BY <1>3, <1>4
<1>6. MessagesTyped("snapshot", rest') /\ \E S : rest' \in Seq(S)
  <2>1. << >> \in Seq({})
    OBVIOUS
  <2> QED
    BY <1>1, <1>4, <2>1, NoMessages
<1>7. groups' \in [Instruments -> Seq(Nat)]
  <2>1. groups \in [Instruments -> Seq(Nat)]
    BY <1>2 DEF PubTyped
  <2>2. Append(groups[i], SeqNow(i)) \in Seq(Nat)
    BY <1>2, <2>1, AppendProperties
  <2> QED
    BY <1>1, <2>1, <2>2
<1> HIDE DEF msgs
<1>8. PubTyped'
  BY <1>1, <1>2, <1>6, <1>7 DEF PubTyped, MessagesTyped
<1>9. FlowInv'
  BY <1>1, <1>2, <1>5, Sent, MbpPlansAssumption DEF PublisherOnly
<1> QED
  BY <1>1, <1>8, <1>9, PublisherStep

LEMMA RestStep ==
  ASSUME MbpInv, CountsDiffer, SendRest
  PROVE  MbpInv'
<1>1. /\ PublisherOnly /\ rest # << >> /\ Put("snapshot", <<Head(rest)>>) /\ rest' = Tail(rest)
      /\ UNCHANGED <<books, groups, plan, feedEra, running>>
  BY DEF SendRest, PublisherOnly, Put
<1>2. PubTyped /\ FlowInv
  BY <1>1 DEF MbpInv, PublisherOnly
<1>3. /\ MessagesTyped("snapshot", <<Head(rest)>>) /\ MessagesTyped("snapshot", Tail(rest))
      /\ \E S : Tail(rest) \in Seq(S)
  BY <1>1, <1>2, Split DEF PubTyped
<1>4. PubTyped'
  BY <1>1, <1>2, <1>3 DEF PubTyped, MessagesTyped
<1>5. FlowInv'
  BY <1>1, <1>2, <1>3, Sent, MbpPlansAssumption DEF PublisherOnly
<1> QED
  BY <1>1, <1>4, <1>5, PublisherStep

LEMMA InstrumentResetStep ==
  ASSUME MbpInv, CountsDiffer, NEW i \in Instruments, NEW ladder \in Ladder,
         SendInstrumentReset(i, ladder)
  PROVE  MbpInv'
<1> DEFINE m == [type |-> "reset", instr |-> i]
<1>1. /\ PublisherOnly /\ Put("mktdata", <<m>>)
      /\ books' = [books EXCEPT ![i] = [@ EXCEPT ![Len(@)] = ladder]]
      /\ UNCHANGED <<groups, rest, plan, feedEra, running>>
  BY DEF SendInstrumentReset, PublisherOnly, Put
<1>2. PubTyped /\ FlowInv
  BY <1>1 DEF MbpInv, PublisherOnly
<1>3. MessagesTyped("mktdata", <<m>>)
  <2>1. DeltaTyped(m)
    BY DEF DeltaTyped
  <2>2. Len(<<m>>) = 1 /\ <<m>>[1] = m
    OBVIOUS
  <2>3. "mktdata" # "snapshot"
    OBVIOUS
  <2> QED
    BY <2>1, <2>2, <2>3 DEF MessagesTyped, MessageTyped
<1>4. PubTyped'
  <2> DEFINE b == books[i]
             c == [b EXCEPT ![Len(b)] = ladder]
  <2>1. \A j \in Instruments : books[j] \in Seq(Ladder) /\ Len(books[j]) \in Nat /\ Len(books[j]) >= 1
    BY <1>2, LenProperties DEF PubTyped
  <2>2. c \in Seq(Ladder) /\ Len(c) = Len(b)
    <3>1. Len(b) \in 1 .. Len(b) /\ b \in Seq(Ladder)
      BY <2>1
    <3> HIDE DEF b
    <3> QED
      BY <3>1, ExceptSeq
  <2>3. /\ DOMAIN books' = Instruments
        /\ \A j \in Instruments : books'[j] = IF j = i THEN c ELSE books[j]
    BY <1>1, <1>2 DEF PubTyped
  <2> HIDE DEF c
  <2>4. \A j \in Instruments : books'[j] \in Seq(Ladder) /\ Len(books'[j]) >= 1
    BY <2>1, <2>2, <2>3
  <2> QED
    BY <1>1, <1>2, <2>3, <2>4 DEF PubTyped, MessagesTyped
<1> HIDE DEF m
<1>5. FlowInv'
  BY <1>1, <1>2, <1>3, Sent, PlansAssumption DEF PublisherOnly
<1> QED
  BY <1>1, <1>4, <1>5, PublisherStep

LEMMA ChannelResetStep ==
  ASSUME MbpInv, ChannelReset
  PROVE  MbpInv'
<1>1. /\ PublisherOnly /\ feedEra < plan.resets /\ feedEra' = feedEra + 1
      /\ sent' = [p \in Ports |-> 0]
      /\ books' = [i \in Instruments |-> <<BookNow(i)>>]
      /\ groups' = [i \in Instruments |-> << >>] /\ rest' = << >>
      /\ UNCHANGED <<vars, net, plan, running>>
  BY DEF ChannelReset, PublisherOnly, NextEra
<1>2. PubTyped /\ FlowInv /\ feedEra \in Nat /\ plan.resets \in Nat
  BY <1>1, PlansAssumption DEF MbpInv, PublisherOnly, PubTyped
<1>3. PubTyped'
  <2>1. \A i \in Instruments : <<BookNow(i)>> \in Seq(Ladder) /\ Len(<<BookNow(i)>>) >= 1
    BY <1>2, BookTyped
  <2>2. << >> \in Seq(Nat)
    OBVIOUS
  <2>3. (\E S : rest' \in Seq(S)) /\ MessagesTyped("snapshot", rest')
    BY <1>1, <2>2, NoMessages
  <2>4. groups' \in [Instruments -> Seq(Nat)]
    BY <1>1, <2>2
  <2>5. feedEra' \in 0 .. plan'.resets /\ plan' \in Plans
    BY <1>1, <1>2 DEF PubTyped
  <2> QED
    BY <1>1, <2>1, <2>3, <2>4, <2>5 DEF PubTyped, MessagesTyped
<1>4. FlowInv'
  <2>1. Onward /\ sent' \in [Ports -> Nat]
    BY <1>1 DEF Onward
  <2> QED
    BY <1>1, <1>2, <2>1, NothingSent
<1> QED
  BY <1>1, <1>3, <1>4, PublisherStep

-----------------------------------------------------------------------------
(* The network loses or hands over one frame.                              *)
LEMMA NetShrinks ==
  ASSUME NetInv, NEW n \in DOMAIN net, net' = RemoveAt(net, n), UNCHANGED <<feedEra, sent>>
  PROVE  /\ NetInv'
         /\ \A m \in DOMAIN net' : \E j \in DOMAIN net : j # n /\ net'[m] = net[j]
<1> DEFINE S == {net[m] : m \in DOMAIN net}
           at(i) == IF i < n THEN i ELSE i + 1
<1>1. net \in Seq(S) /\ Len(net) \in Nat /\ DOMAIN net = 1 .. Len(net)
  <2>1. net \in Seq(S)
    BY DEF NetInv
  <2> HIDE DEF S
  <2> QED
    BY <2>1, LenProperties
<1> HIDE DEF S
<1>2. /\ net' \in Seq(S) /\ DOMAIN net' = 1 .. Len(net) - 1
      /\ \A i \in DOMAIN net' : net'[i] = net[at(i)]
  BY <1>1, OneRemoved
<1>3. \A i \in DOMAIN net' : at(i) \in DOMAIN net /\ at(i) # n
  BY <1>1, <1>2
<1>4. \A i, j \in DOMAIN net' : i < j => at(i) < at(j)
  BY <1>1, <1>2
<1> HIDE DEF at
<1>5. \A q, x : FrameFrom(q, x) => FrameFrom(q, x)'
  BY DEF FrameFrom, Numbered
<1>6. NetInv'
  <2>1. (net \in Seq({net[m] : m \in DOMAIN net}))'
    BY <1>2, OwnRange
  <2>2. \A m \in DOMAIN net' : net'[m].port \in Ports /\ FrameFrom(net[m].port, net[m])'
    BY <1>2, <1>3, <1>5 DEF NetInv
  <2>3. ASSUME NEW i \in DOMAIN net', NEW j \in DOMAIN net', i < j,
               net'[i].port = net'[j].port, net'[i].rc = net'[j].rc
        PROVE  net'[i].seq < net'[j].seq
    <3>1. at(i) \in DOMAIN net /\ at(j) \in DOMAIN net
      BY <1>3
    <3>2. net'[i] = net[at(i)] /\ net'[j] = net[at(j)]
      BY <1>2
    <3>3. at(i) < at(j)
      BY <1>4, <2>3
    <3> QED
      BY <2>3, <3>1, <3>2, <3>3 DEF NetInv
  <2>4. sent' \in [Ports -> Nat]
    BY DEF NetInv
  <2> QED
    BY <2>1, <2>2, <2>3, <2>4 DEF NetInv
<1> QED
  BY <1>2, <1>3, <1>6

LEMMA LoseStep ==
  ASSUME MbpInv, NEW n \in DOMAIN net, Lose(n)
  PROVE  MbpInv'
<1>1. /\ running /\ net' = RemoveAt(net, n)
      /\ UNCHANGED <<plan, feedEra, sent, books, groups, rest>>
      /\ UNCHANGED <<pt, pos, next, v, running, crossed>>
  BY DEF Lose, Dropping, vars, pubVars
<1>2. PubTyped /\ FlowInv /\ StateTyped(v)
  BY <1>1 DEF MbpInv
<1>3. PubTyped'
  BY <1>1, <1>2 DEF PubTyped, MessagesTyped
<1>4. /\ NetInv'
      /\ \A m \in DOMAIN net' : \E j \in DOMAIN net : j # n /\ net'[m] = net[j]
  BY <1>1, <1>2, NetShrinks DEF FlowInv
<1>5. \A q, x : FrameFrom(q, x) => FrameFrom(q, x)'
  BY <1>1 DEF FrameFrom, Numbered
<1>6. BufferInv'
  BY <1>1, <1>2, <1>4, <1>5 DEF FlowInv, BufferInv
<1>7. IntakeInv'
  BY <1>1, <1>2 DEF FlowInv, IntakeInv
<1> QED
  BY <1>1, <1>2, <1>3, <1>4, <1>6, <1>7 DEF MbpInv, FlowInv

(* The era order keeps its types. *)
LEMMA EntersTyped ==
  ASSUME pos \in [ResetCounts -> Nat], next \in Nat, NEW p, NEW d, d.rc \in ResetCounts,
         EntersFor(p, d)
  PROVE  pos' \in [ResetCounts -> Nat] /\ next' \in Nat
<1>1. (\E from : Enter(d.rc, from)) \/ UNCHANGED <<pos, next>>
  BY DEF EntersFor
<1> QED
  BY <1>1 DEF Enter

(* The buffer without its head, of items that have a number each. *)
LEMMA PoppedNew ==
  ASSUME NEW t, "buf" \in DOMAIN t, NEW h \in t.buf,
         \A i \in t.buf : i.seq = h.seq => i = h
  PROVE  Without(t, h) = [t EXCEPT !.buf = t.buf \ {h}]
<1> DEFINE B == {IF i.seq = h.seq THEN [i EXCEPT !.copy = @ - 1] ELSE i : i \in t.buf \ {h}}
<1>1. B = t.buf \ {h}
  OBVIOUS
<1> HIDE DEF B
<1>2. Without(t, h) = [t EXCEPT !.buf = B]
  BY DEF Without, B
<1> QED
  BY <1>1, <1>2

(* Engine.Process of a frame under way: the buffer holds at most it on top *)
(* of what it held.                                                        *)
LEMMA ProcessedKeeps ==
  ASSUME FlowInv, StateTyped(v), NEW p \in Ports, NEW d, FrameFrom(p, d), d.rc \in ResetCounts,
         \A i \in pt[p].buf : i.rc = d.rc => i.seq < d.seq,
         ~Quarantines(p, d)
  PROVE  LET s    == Processed(p, d)
             item == [rc |-> d.rc, seq |-> d.seq, body |-> d.body, copy |-> 0]
         IN  /\ Walking(s) /\ s.t.era = d.rc /\ s.t.eraPos # 0
             /\ \A i \in s.t.buf : i.rc = d.rc /\ (i \in pt[p].buf \/ i = item)
<1> DEFINE o       == Opened(p, d)
           item    == [rc |-> d.rc, seq |-> d.seq, body |-> d.body, copy |-> 0]
           drained == IF Advances(p, d) THEN pt[p].buf ELSE {}
           start   == [t |-> pt[p], v |-> v, led |-> FALSE]
           first   == Walk(p, start, drained)
           pushed  == Push(o, d)
           h       == HeadOf(pushed)
           w       == Without(pushed, h)
           s       == Processed(p, d)
<1>1. /\ DOMAIN o = TrackerFields /\ o.era = d.rc /\ o.eraPos \in Nat /\ o.eraPos # 0
      /\ o.buf \subseteq pt[p].buf /\ \A i \in o.buf : i.rc = d.rc
  BY OpenedOf DEF FlowInv, IntakeInv, BufferInv, TrackerTyped
<1>2. \A i \in pt[p].buf : i.seq \in Nat /\ i.copy = 0 /\ MessagesTyped(p, i.body.msgs)
  BY DEF FlowInv, BufferInv, FrameFrom, Numbered
<1>3. d.seq \in Nat /\ MessagesTyped(p, d.body.msgs)
  BY DEF FrameFrom, Numbered
<1>4. Walking(start)
  BY DEF Walking, FlowInv, IntakeInv
<1>5. Walking(first)
  <2>1. \A i \in drained : MessagesTyped(p, i.body.msgs)
    BY <1>2
  <2> HIDE DEF start, drained
  <2> QED
    BY <1>4, <2>1, WalkKeepsTypes
<1> HIDE DEF first, start
<1>6. pushed = [o EXCEPT !.buf = o.buf \cup {item}]
  <2>1. \A i \in o.buf : i.seq # d.seq
    BY <1>1, <1>2, <1>3
  <2>2. "buf" \in DOMAIN o
    BY <1>1 DEF TrackerFields
  <2> HIDE DEF o
  <2> QED
    BY <2>1, <2>2, PushedNew
<1>7. item.rc = d.rc /\ item.seq = d.seq /\ item.body = d.body /\ item.copy = 0
  OBVIOUS
<1> HIDE DEF item, o, pushed
<1>8. /\ DOMAIN pushed = TrackerFields /\ pushed.era = d.rc
      /\ pushed.eraPos \in Nat /\ pushed.eraPos # 0 /\ pushed.buf = o.buf \cup {item}
  BY <1>1, <1>6 DEF TrackerFields
<1>9. h \in pushed.buf
  <2>1. pushed.buf # {} /\ \A i \in pushed.buf : i.seq \in Nat /\ i.copy = 0
    BY <1>1, <1>2, <1>3, <1>7, <1>8
  <2> QED
    BY <2>1, HeadIn
<1>10. w = [pushed EXCEPT !.buf = pushed.buf \ {h}]
  <2>1. "buf" \in DOMAIN pushed
    BY <1>8 DEF TrackerFields
  <2>2. \A i \in o.buf : /\ i \in pt[p].buf /\ i.seq # item.seq
                         /\ \A j \in o.buf : i.seq = j.seq => i = j
    BY <1>1, <1>2, <1>3, <1>7 DEF FlowInv, BufferInv
  <2>3. \A i \in pushed.buf : i.seq = h.seq => i = h
    BY <1>8, <1>9, <2>2
  <2> HIDE DEF h
  <2> QED
    BY <1>9, <2>1, <2>3, PoppedNew
<1>11. MessagesTyped(p, h.body.msgs)
  BY <1>1, <1>2, <1>3, <1>7, <1>8, <1>9
<1> HIDE DEF h, w
<1>12. /\ TrackerTyped(w) /\ w.era = d.rc /\ w.eraPos # 0 /\ w.buf \subseteq pushed.buf
  BY <1>8, <1>10 DEF TrackerFields, TrackerTyped
<1>13. s = IF Overflows(pushed) THEN ClassifyItem(p, [first EXCEPT !.t = w], h)
                                ELSE [first EXCEPT !.t = pushed]
  BY DEF Processed, pushed, first, start, o, h, w
<1>14. CASE ~Overflows(pushed)
  <2> DEFINE u == [first EXCEPT !.t = pushed]
  <2>1. DOMAIN u = {"t", "v", "led"} /\ u.t = pushed /\ u.v = first.v
    BY <1>5 DEF Walking
  <2>2. s = u
    BY <1>13, <1>14
  <2> HIDE DEF u, s
  <2>3. Walking(u)
    BY <1>5, <1>8, <2>1 DEF Walking, TrackerTyped
  <2> QED
    BY <1>1, <1>7, <1>8, <2>1, <2>2, <2>3 DEF s, item
<1>15. CASE Overflows(pushed)
  <2> DEFINE b == [first EXCEPT !.t = w]
             u == ClassifyItem(p, b, h)
  <2>1. DOMAIN b = {"t", "v", "led"} /\ b.t = w /\ b.v = first.v
    BY <1>5 DEF Walking
  <2>2. s = u
    BY <1>13, <1>15
  <2> HIDE DEF b, s
  <2>3. Walking(b)
    BY <1>5, <1>12, <2>1 DEF Walking
  <2>4. Walking(u) /\ u.t.era = b.t.era /\ u.t.eraPos = b.t.eraPos /\ u.t.buf = b.t.buf
    BY <1>11, <2>3, ItemKeepsTypes
  <2> HIDE DEF u
  <2> QED
    BY <1>1, <1>7, <1>8, <1>12, <2>1, <2>2, <2>4 DEF s, item
<1> QED
  BY <1>14, <1>15

(* A taint changes one tracker's dirty flag. *)
LEMMA TaintedTyped ==
  ASSUME NEW trackers, DOMAIN trackers = Ports,
         \A q \in Ports : DOMAIN trackers[q] = TrackerFields, NEW led
  PROVE  LET u == WithTaint(trackers, led)
         IN  /\ DOMAIN u = Ports
             /\ \A q \in Ports : /\ DOMAIN u[q] = TrackerFields
                                 /\ u[q].era = trackers[q].era /\ u[q].eraPos = trackers[q].eraPos
                                 /\ u[q].buf = trackers[q].buf
                                 /\ u[q].accepted = trackers[q].accepted
             /\ \A q \in Ports : q # "snapshot" => u[q] = trackers[q]
<1> DEFINE u == [trackers EXCEPT !["snapshot"].dirty = TRUE]
<1>1. WithTaint(trackers, led) \in {trackers, u}
  BY DEF WithTaint
<1>2. /\ DOMAIN u = Ports
      /\ \A q \in Ports : /\ DOMAIN u[q] = TrackerFields
                          /\ u[q].era = trackers[q].era /\ u[q].eraPos = trackers[q].eraPos
                          /\ u[q].buf = trackers[q].buf
                          /\ u[q].accepted = trackers[q].accepted
      /\ \A q \in Ports : q # "snapshot" => u[q] = trackers[q]
  BY DEF TrackerFields
<1> HIDE DEF u
<1> QED
  BY <1>1, <1>2

LEMMA CrossedTyped ==
  (\A pairs : Crossed(pairs) \subseteq Notes) /\ (\A S : Merges(S) \subseteq Notes)
BY DEF Crossed, Merges, Notes

(* The frames under way behind the one handed over. *)
LEMMA Behind ==
  ASSUME NetInv, NEW n \in DOMAIN net, Arriving(n)
  PROVE  \A j \in DOMAIN net :
           j # n /\ net[j].port = net[n].port /\ net[j].rc = net[n].rc => net[n].seq < net[j].seq
<1>1. Len(net) \in Nat /\ DOMAIN net = 1 .. Len(net)
  BY LenProperties DEF NetInv
<1>2. \A j \in DOMAIN net : j < n => net[j].port # net[n].port
  BY <1>1 DEF Arriving
<1> QED
  BY <1>1, <1>2 DEF NetInv

LEMMA DeliverOf ==
  ASSUME MbpInv, NEW n \in DOMAIN net, Deliver(n),
         NEW p, p = net[n].port,
         NEW d, d = [rc |-> net[n].rc, seq |-> net[n].seq, body |-> net[n].body]
  PROVE  MbpInv'
<1> DEFINE item == [rc |-> d.rc, seq |-> d.seq, body |-> d.body, copy |-> 0]
<1>1. /\ running /\ Arriving(n) /\ net' = RemoveAt(net, n)
      /\ Receives(p, d) \/ Drops(p, d)
      /\ \E pairs, S : crossed' = crossed \cup Crossed(pairs) \cup Merges(S)
      /\ UNCHANGED <<plan, feedEra, sent, books, groups, rest, running>>
  BY DEF Deliver, pubVars
<1>2. PubTyped /\ FlowInv /\ StateTyped(v)
  BY <1>1 DEF MbpInv
<1>3. PubTyped'
  BY <1>1, <1>2 DEF PubTyped, MessagesTyped
<1>4. /\ NetInv'
      /\ \A m \in DOMAIN net' : \E j \in DOMAIN net : j # n /\ net'[m] = net[j]
  BY <1>1, <1>2, NetShrinks DEF FlowInv
<1>5. d.rc = net[n].rc /\ d.seq = net[n].seq /\ d.body = net[n].body
  OBVIOUS
<1>6. item.rc = d.rc /\ item.seq = d.seq /\ item.body = d.body /\ item.copy = 0
  OBVIOUS
<1> HIDE DEF item
<1>7. p \in Ports /\ FrameFrom(p, d) /\ FrameFrom(p, item)
  <2>1. p \in Ports /\ FrameFrom(p, net[n])
    BY <1>2 DEF FlowInv, NetInv
  <2> QED
    BY <1>5, <1>6, <2>1 DEF FrameFrom, Numbered
<1>8. d.rc \in ResetCounts
  <2>1. \E e \in 0 .. feedEra : d.rc = ResetCountOf(e)
    BY <1>7 DEF FrameFrom, Numbered
  <2>2. plan \in Plans /\ feedEra \in 0 .. plan.resets /\ plan.resets \in Nat
    BY <1>2, PlansAssumption DEF PubTyped
  <2> QED
    BY <2>1, <2>2, CountsAssumption
<1>9. \A i \in pt[p].buf : i.rc = d.rc => i.seq < d.seq
  BY <1>2, <1>5, <1>7 DEF FlowInv, BufferInv
<1>10. \A m \in DOMAIN net' : net'[m].port = p /\ net'[m].rc = d.rc => d.seq < net'[m].seq
  <2>1. \A j \in DOMAIN net : j # n /\ net[j].port = p /\ net[j].rc = d.rc => d.seq < net[j].seq
    BY <1>1, <1>2, <1>5, Behind DEF FlowInv
  <2> QED
    BY <1>4, <2>1
<1>11. \A q \in Ports : \A i \in pt[q].buf :
         /\ FrameFrom(q, i)' /\ i.copy = 0 /\ i.rc = pt[q].era
         /\ \A m \in DOMAIN net' : net'[m].port = q /\ net'[m].rc = i.rc => i.seq < net'[m].seq
         /\ \A j \in pt[q].buf : i.seq = j.seq => i = j
  <2>1. \A q, x : FrameFrom(q, x) => FrameFrom(q, x)'
    BY <1>1 DEF FrameFrom, Numbered
  <2> QED
    BY <1>2, <1>4, <2>1 DEF FlowInv, BufferInv
<1>12. FrameFrom(p, item)'
  BY <1>1, <1>7 DEF FrameFrom, Numbered
<1>13. /\ DOMAIN pt = Ports
       /\ \A q \in Ports : /\ DOMAIN pt[q] = TrackerFields /\ pt[q].eraPos \in Nat
                           /\ pt[q].eraPos = 0 => pt[q].buf = {}
       /\ pos \in [ResetCounts -> Nat] /\ next \in Nat
  BY <1>2 DEF FlowInv, IntakeInv, TrackerTyped
<1>14. crossed' \subseteq Notes
  BY <1>1, CrossedTyped DEF MbpInv
<1>15. CASE Drops(p, d)
  <2>1. pt' = [pt EXCEPT ![p].stragglers = @ + 1] /\ UNCHANGED <<pos, next>> /\ v' = v
    BY <1>15 DEF Drops, Quarantine
  <2>2. /\ DOMAIN pt' = Ports
        /\ \A q \in Ports : /\ DOMAIN pt'[q] = TrackerFields /\ pt'[q].eraPos = pt[q].eraPos
                            /\ pt'[q].buf = pt[q].buf /\ pt'[q].era = pt[q].era
    BY <1>7, <1>13, <2>1 DEF TrackerFields
  <2>3. BufferInv'
    BY <1>11, <2>2 DEF BufferInv
  <2>4. IntakeInv'
    BY <1>13, <2>1, <2>2 DEF IntakeInv, TrackerTyped
  <2> QED
    BY <1>2, <1>3, <1>4, <1>14, <2>1, <2>3, <2>4 DEF MbpInv, FlowInv
<1>16. CASE Receives(p, d)
  <2> DEFINE s == Processed(p, d)
             u == [pt EXCEPT ![p] = s.t]
  <2>1. ~Quarantines(p, d) /\ pt' = WithTaint(u, s.led) /\ v' = s.v /\ EntersFor(p, d)
    BY <1>16 DEF Receives
  <2>2. /\ Walking(s) /\ s.t.era = d.rc /\ s.t.eraPos # 0
        /\ \A i \in s.t.buf : i.rc = d.rc /\ (i \in pt[p].buf \/ i = item)
    BY <1>2, <1>7, <1>8, <1>9, <2>1, ProcessedKeeps DEF item
  <2> HIDE DEF s
  <2>3. /\ DOMAIN u = Ports /\ u[p] = s.t /\ \A q \in Ports : q # p => u[q] = pt[q]
    BY <1>7, <1>13
  <2>4. \A q \in Ports : DOMAIN u[q] = TrackerFields
    BY <1>13, <2>2, <2>3 DEF Walking, TrackerTyped
  <2> HIDE DEF u
  <2>5. /\ DOMAIN pt' = Ports
        /\ \A q \in Ports : /\ DOMAIN pt'[q] = TrackerFields
                            /\ pt'[q].era = u[q].era /\ pt'[q].eraPos = u[q].eraPos
                            /\ pt'[q].buf = u[q].buf
    BY <2>1, <2>3, <2>4, TaintedTyped
  <2>6. BufferInv'
    <3>1. ASSUME NEW i \in s.t.buf
          PROVE  /\ FrameFrom(p, i)' /\ i.copy = 0 /\ i.rc = s.t.era
                 /\ \A m \in DOMAIN net' : net'[m].port = p /\ net'[m].rc = i.rc => i.seq < net'[m].seq
                 /\ \A j \in s.t.buf : i.seq = j.seq => i = j
      <4>1. i.rc = d.rc /\ (i \in pt[p].buf \/ i = item)
        BY <2>2, <3>1
      <4>2. \A j \in pt[p].buf : j.rc = d.rc => j.seq # item.seq
        <5>1. d.seq \in Nat /\ \A j \in pt[p].buf : j.seq \in Nat
          BY <1>2, <1>7 DEF FlowInv, BufferInv, FrameFrom, Numbered
        <5> QED
          BY <1>6, <1>9, <5>1
      <4>3. \A j \in s.t.buf : i.seq = j.seq => i = j
        BY <1>7, <1>11, <2>2, <4>1, <4>2
      <4> QED
        BY <1>6, <1>7, <1>10, <1>11, <1>12, <2>2, <4>1, <4>3
    <3>2. \A q \in Ports : pt'[q].buf = IF q = p THEN s.t.buf ELSE pt[q].buf
      BY <1>7, <2>3, <2>5
    <3>3. \A q \in Ports : pt'[q].era = IF q = p THEN s.t.era ELSE pt[q].era
      BY <1>7, <2>3, <2>5
    <3> QED
      BY <1>11, <3>1, <3>2, <3>3 DEF BufferInv
  <2>7. IntakeInv'
    <3>1. pos' \in [ResetCounts -> Nat] /\ next' \in Nat
      BY <1>8, <1>13, <2>1, EntersTyped
    <3>2. \A q \in Ports : TrackerTyped(pt'[q]) /\ (pt'[q].eraPos = 0 => pt'[q].buf = {})
      BY <1>7, <1>13, <2>2, <2>3, <2>5 DEF Walking, TrackerTyped
    <3> QED
      BY <2>5, <3>1, <3>2 DEF IntakeInv
  <2> QED
    BY <1>1, <1>3, <1>4, <1>14, <2>1, <2>2, <2>6, <2>7 DEF MbpInv, FlowInv, Walking
<1> QED
  BY <1>1, <1>15, <1>16

LEMMA DeliverStep ==
  ASSUME MbpInv, NEW n \in DOMAIN net, Deliver(n)
  PROVE  MbpInv'
BY DeliverOf

LEMMA EndRunStep ==
  ASSUME MbpInv, EndRun
  PROVE  MbpInv'
<1> DEFINE start   == [t |-> pt["mktdata"], v |-> v, led |-> FALSE]
           m       == Walk("mktdata", start, pt["mktdata"].buf)
           tainted == WithTaint(pt, m.led)
           b       == [m EXCEPT !.t = tainted["snapshot"]]
           s       == Walk("snapshot", b, pt["snapshot"].buf)
<1>1. /\ running /\ ~running' /\ v' = s.v
      /\ \E pairs, S : crossed' = crossed \cup Crossed(pairs) \cup Merges(S)
      /\ UNCHANGED <<plan, feedEra, books, groups, rest>>
  BY DEF EndRun, pubVars
<1>2. PubTyped /\ FlowInv /\ StateTyped(v) /\ "mktdata" \in Ports /\ "snapshot" \in Ports
  BY <1>1, PlansAssumption, MbpPlansAssumption DEF MbpInv
<1>3. PubTyped'
  BY <1>1, <1>2 DEF PubTyped, MessagesTyped
<1>4. \A q \in Ports : /\ \A i \in pt[q].buf : MessagesTyped(q, i.body.msgs)
                       /\ TrackerTyped(pt[q])
  BY <1>2 DEF FlowInv, IntakeInv, BufferInv, FrameFrom
<1>5. Walking(start)
  BY <1>2, <1>4 DEF Walking
<1> HIDE DEF start
<1>6. Walking(m)
  BY <1>2, <1>4, <1>5, WalkKeepsTypes
<1> HIDE DEF m
<1>7. TrackerTyped(tainted["snapshot"])
  <2>1. DOMAIN pt = Ports /\ \A q \in Ports : DOMAIN pt[q] = TrackerFields
    BY <1>2, <1>4 DEF FlowInv, IntakeInv, TrackerTyped
  <2> QED
    BY <1>2, <1>4, <2>1, TaintedTyped DEF TrackerTyped
<1> HIDE DEF tainted
<1>8. Walking(b)
  <2>1. DOMAIN b = {"t", "v", "led"} /\ b.t = tainted["snapshot"] /\ b.v = m.v
    BY <1>6 DEF Walking
  <2> HIDE DEF b
  <2> QED
    BY <1>6, <1>7, <2>1 DEF Walking
<1> HIDE DEF b
<1>9. Walking(s)
  BY <1>2, <1>4, <1>8, WalkKeepsTypes
<1> HIDE DEF s
<1> QED
  BY <1>1, <1>3, <1>9, CrossedTyped DEF MbpInv, Walking

-----------------------------------------------------------------------------
LEMMA StartsRight ==
  ASSUME MbpInit
  PROVE  MbpInv
<1>1. /\ Init /\ plan \in Plans /\ feedEra = 0 /\ sent = [p \in Ports |-> 0] /\ net = << >>
      /\ crossed = {}
      /\ books = [i \in Instruments |-> <<Empty>>] /\ groups = [i \in Instruments |-> << >>]
      /\ rest = << >> /\ v = NewConsumer
  BY DEF MbpInit, NetInit
<1>2. PubTyped
  <2>1. <<Empty>> \in Seq(Ladder) /\ Len(<<Empty>>) >= 1
    BY EmptyLadder
  <2>2. << >> \in Seq(Nat)
    OBVIOUS
  <2>3. (\E S : rest \in Seq(S)) /\ MessagesTyped("snapshot", rest)
    BY <1>1, <2>2, NoMessages
  <2>4. plan.resets \in Nat
    BY <1>1, PlansAssumption
  <2> QED
    BY <1>1, <2>1, <2>2, <2>3, <2>4 DEF PubTyped
<1>3. FlowInv
  <2>1. NetInv
    <3>1. net \in Seq({net[n] : n \in DOMAIN net}) /\ DOMAIN net = {}
      BY <1>1
    <3> QED
      BY <1>1, <3>1 DEF NetInv
  <2>2. /\ DOMAIN pt = Ports
        /\ \A q \in Ports : DOMAIN pt[q] = TrackerFields /\ pt[q].eraPos = 0 /\ pt[q].buf = {}
        /\ pos \in [ResetCounts -> Nat] /\ next \in Nat
    BY <1>1 DEF Init, NewTracker, TrackerFields
  <2> QED
    BY <2>1, <2>2 DEF FlowInv, BufferInv, IntakeInv, TrackerTyped
<1>4. StateTyped(v)
  <2>1. /\ DOMAIN NewConsumer = StateFields
        /\ NewConsumer.instr = [i \in Instruments |-> NewInstr]
        /\ NewConsumer.open = NoGroup /\ NewConsumer.mbpSeen = 0 /\ NewConsumer.findings = {}
    BY DEF NewConsumer, StateFields
  <2> QED
    BY InstrIs, <1>1, <2>1, NewInstrTyped DEF StateTyped, OpenTyped
<1> QED
  BY <1>1, <1>2, <1>3, <1>4 DEF MbpInv

LEMMA Stutters ==
  ASSUME MbpInv, UNCHANGED allVars
  PROVE  MbpInv'
<1>1. /\ UNCHANGED <<pt, pos, next, v, running, net, sent, plan, feedEra, books, groups, rest>>
      /\ UNCHANGED crossed
  BY DEF allVars, vars, netVars, pubVars
<1>2. PubTyped => PubTyped'
  BY <1>1 DEF PubTyped, MessagesTyped
<1>3. FlowInv => FlowInv'
  <2>1. \A q, x : FrameFrom(q, x) => FrameFrom(q, x)'
    BY <1>1 DEF FrameFrom, Numbered
  <2>2. NetInv => NetInv'
    BY <1>1, <2>1 DEF NetInv
  <2>3. BufferInv => BufferInv'
    BY <1>1, <2>1 DEF BufferInv
  <2>4. IntakeInv => IntakeInv'
    BY <1>1 DEF IntakeInv
  <2> QED
    BY <2>2, <2>3, <2>4 DEF FlowInv
<1> QED
  BY <1>1, <1>2, <1>3 DEF MbpInv

LEMMA MbpNextKeeps ==
  ASSUME MbpInv, CountsDiffer, [MbpNext]_allVars
  PROVE  MbpInv'
<1>1. plan.instruments \subseteq Instruments /\ Traded \subseteq Levels
  BY InstrumentsOf DEF MbpInv, Traded
<1>2. ASSUME NEW i \in Instruments, NEW l \in Levels, NEW q \in 0 .. MaxQty, SendLevel(i, l, q)
      PROVE  MbpInv'
  BY <1>2, LevelStep
<1>3. ASSUME NEW i \in Instruments, NEW l \in Levels, SendClear(i, l)
      PROVE  MbpInv'
  BY <1>3, ClearStep
<1>4. ASSUME NEW i \in Instruments, SendGroup(i)
      PROVE  MbpInv'
  BY <1>4, GroupStep
<1>5. ASSUME NEW i \in Instruments, NEW ladder \in Ladder, SendInstrumentReset(i, ladder)
      PROVE  MbpInv'
  BY <1>5, InstrumentResetStep
<1>6. ASSUME NEW n \in DOMAIN net, Deliver(n) \/ Lose(n)
      PROVE  MbpInv'
  BY <1>6, DeliverStep, LoseStep
<1>7. ASSUME Heartbeat \/ SendRest \/ ChannelReset \/ EndRun \/ UNCHANGED allVars
      PROVE  MbpInv'
  BY <1>7, HeartbeatStep, RestStep, ChannelResetStep, EndRunStep, Stutters
<1> QED
  BY <1>1, <1>2, <1>3, <1>4, <1>5, <1>6, <1>7 DEF MbpNext

(* What the validator keeps is typed, and its journals stay within their   *)
(* bound, however groups, deltas and resets interleave.                    *)
THEOREM MbpTypes == ASSUME CountsDiffer PROVE MbpSpec => []MbpTypeOK
<1>1. MbpInit => MbpInv
  BY StartsRight
<1>2. MbpInv /\ [MbpNext]_allVars => MbpInv'
  BY MbpNextKeeps
<1>3. MbpInv => MbpTypeOK
  BY NoGroupApart DEF MbpInv, StateTyped, OpenTyped, InstrTyped, MbpTypeOK, Notes
<1> QED
  BY <1>1, <1>2, <1>3, PTL DEF MbpSpec

-----------------------------------------------------------------------------
(* What the validator believes is what was published, while the publisher  *)
(* keeps its era and no delta is lost.                                     *)
(*                                                                         *)
(* The invariant follows every frame from the publisher to the validator:  *)
(* what it has read of an instrument agrees with the published history     *)
(* (InstrTrue), the deltas to come, in the network or in the reorder       *)
(* buffer, continue that history without a hole (DeltasOK), and the groups *)
(* to come show ladders of it, no earlier than the baseline, whatever was  *)
(* lost of them (GroupsOK). Two things make it inductive: a port reads its *)
(* frames in the order they were sent (OneEra), and a group that ends as   *)
(* announced is the whole ladder of its point (Pure).                      *)

Era0 == ResetCountOf(0)

Steady(p) == p.resets = 0 /\ ~p.correcting /\ "mktdata" \notin p.lossy

(* Delta s of a ladder's history leaves qty at the levels. *)
Changes(history, s, levels, qty) ==
  \A l \in Levels : history[s + 1][l] = IF l \in levels THEN qty ELSE history[s][l]

(* What the validator keeps of an instrument agrees with what was published: *)
(* the base is the ladder of its point, the journal holds true deltas, and   *)
(* every delta since the base is there or known to be dropped.               *)
InstrTrue(in, i) ==
  /\ in.lastSeq <= SeqNow(i)
  /\ ~in.lastSeqSet => in.lastSeq = 0
  /\ in.baseK <= in.lastSeq
  /\ IF in.baseSet THEN in.base = books[i][in.baseK + 1] ELSE in.baseK = 0
  /\ \A e \in in.journal : /\ e.seq \in in.baseK + 1 .. in.lastSeq
                           /\ Changes(books[i], e.seq, e.levels, e.qty)
  /\ \A s \in in.baseK + 1 .. in.lastSeq :
       (\E e \in in.journal : e.seq = s) \/ (in.overflow /\ s <= in.droppedMax)

(* The frames of a port the validator has not read yet. *)
Frame(x)   == [seq |-> x.seq, msgs |-> x.body.msgs]
Pending(p) == {Frame(i) : i \in pt[p].buf}
              \cup {Frame(net[n]) : n \in {m \in DOMAIN net : net[m].port = p}}

(* The deltas to come: each one is next for its instrument, or comes after *)
(* the one before it.                                                      *)
TrueDelta(m) ==
  /\ m.type \in {"level", "clear"} /\ ~MalformedClear(m)
  /\ m.instr \in Instruments /\ m.seq \in 1 .. SeqNow(m.instr)
  /\ Changes(books[m.instr], m.seq, Touched(m), Leaves(m))

Tells(x, i, s) == Len(x.msgs) = 1 /\ x.msgs[1].instr = i /\ x.msgs[1].seq = s

Reached(in, i, s, D) == s <= in.lastSeq \/ \E y \in D : Tells(y, i, s)

DeltasOK(w, D) ==
  /\ \A x \in D : x.seq \in Nat /\ (Len(x.msgs) = 0 \/ (Len(x.msgs) = 1 /\ TrueDelta(x.msgs[1])))
  /\ \A x \in D, i \in Instruments, s \in Nat :
       Tells(x, i, s) => Reached(w.instr[i], i, s - 1, {y \in D : y.seq < x.seq})
  /\ \A i \in Instruments : Reached(w.instr[i], i, SeqNow(i), D)

(* The groups to come: each instrument's in the order they were captured,  *)
(* one after the other, none from before the baseline.                     *)
Shown(i, id) == books[i][groups[i][id] + 1]

TrueMessage(m, i, id) ==
  /\ m.type \in {"begin", "entry", "end"} /\ m.instr = i /\ m.id = id
  /\ m.type = "begin" => m.lastK = groups[i][id] /\ m.total = Cardinality(Present(Shown(i, id)))
  /\ m.type = "entry" => m.key \in Present(Shown(i, id)) /\ m.qty = Shown(i, id)[m.key]

IsGroup(i, id) == i \in Instruments /\ id \in DOMAIN groups[i]

TrueGroup(x, i, id) ==
  /\ IsGroup(i, id)
  /\ Len(x.msgs) >= 1 /\ \A n \in 1 .. Len(x.msgs) : TrueMessage(x.msgs[n], i, id)

Of(x, i, id) == x.msgs[1].instr = i /\ x.msgs[1].id = id

Pure(o) ==
  LET ladder == Shown(o.instr, o.id)
  IN  /\ o.keys \subseteq Present(ladder)
      /\ o.levels = [l \in Levels |-> IF l \in o.keys THEN ladder[l] ELSE 0]
      /\ o.lastK = groups[o.instr][o.id] /\ o.total = Cardinality(Present(ladder))
      /\ o.dups \in Nat /\ o.count = Cardinality(o.keys) + o.dups

SeriesOK(S) ==
  /\ \A x \in S : x.seq \in Nat /\ \E i, id : TrueGroup(x, i, id)
  /\ \A x, y \in S, i \in Instruments : \A a, b \in DOMAIN groups[i] :
       x.seq < y.seq /\ Of(x, i, a) /\ Of(y, i, b) => a <= b
  /\ \A x, y, z \in S : \A i, id :
       x.seq <= y.seq /\ y.seq <= z.seq /\ Of(x, i, id) /\ Of(z, i, id) => Of(y, i, id)

(* What is left of the group being collected is next. *)
OpenOK(o, S) ==
  o # NoGroup =>
    /\ IsGroup(o.instr, o.id)
    /\ \A x \in S : Of(x, o.instr, o.id) =>
         /\ Pure(o)
         /\ \A y \in S : y.seq <= x.seq => Of(y, o.instr, o.id)

GroupsOK(w, S) ==
  /\ SeriesOK(S)
  /\ \A x \in S, i \in Instruments : \A id \in DOMAIN groups[i] :
       Of(x, i, id) => w.instr[i].baseK <= groups[i][id]
  /\ OpenOK(w.open, S)

Believed(w) ==
  /\ \A i \in Instruments : InstrTrue(w.instr[i], i)
  /\ w.resetCount \in {NoCount, Era0}
  /\ "PERINSTR_DENSITY" \notin w.findings /\ "RECONSTRUCTED_BOOK" \notin w.findings

Truth(w, D, S) == DeltasOK(w, D) /\ GroupsOK(w, S) /\ Believed(w)

(* The rest of a group is the frame that comes after all the others. *)
Remains == IF rest = << >> THEN {} ELSE {[seq |-> sent["snapshot"], msgs |-> rest]}

Captured ==
  \A i \in Instruments : \A b \in DOMAIN groups[i] :
    groups[i][b] <= SeqNow(i) /\ \A a \in DOMAIN groups[i] : a <= b => groups[i][a] <= groups[i][b]

(* An item of a reorder buffer, the first of its number. *)
Whole(i) == i = [rc |-> i.rc, seq |-> i.seq, body |-> i.body, copy |-> 0]

(* One era, entered by every port that has heard anything; what a port     *)
(* accepted was sent before what it has not.                               *)
OneEra ==
  /\ \A n \in DOMAIN net : net[n].port \in {"mktdata", "snapshot"}
  /\ \A q \in Ports :
       /\ IF pt[q].eraPos = 0 THEN pt[q].accepted = {}
                              ELSE pt[q].era = Era0 /\ pt[q].eraPos = pos[Era0]
       /\ \A i \in pt[q].buf : Whole(i)
       /\ \A a \in pt[q].accepted :
            /\ a.seq \in Nat /\ a.seq < sent[q]
            /\ \A i \in pt[q].buf : a.seq < i.seq
            /\ \A n \in DOMAIN net : net[n].port = q => a.seq < net[n].seq

SteadyInv ==
  Steady(plan) =>
    /\ Captured
    /\ running => OneEra /\ Truth(v, Pending("mktdata"), Pending("snapshot") \cup Remains)
    /\ Believed(v)

-----------------------------------------------------------------------------
(* A level no delta from a to k touches is the same at both.               *)
LEMMA Unchanging ==
  ASSUME NEW B, NEW l, NEW a \in Nat, NEW k \in Nat, a <= k,
         \A s \in a + 1 .. k : B[s + 1][l] = B[s][l]
  PROVE  B[k + 1][l] = B[a + 1][l]
<1> DEFINE T == {n \in Nat : a + n <= k => B[a + n + 1][l] = B[a + 1][l]}
<1>1. 0 \in T
  <2>1. a + 0 + 1 = a + 1
    OBVIOUS
  <2> QED
    BY <2>1
<1>2. ASSUME NEW n \in 1 .. k - a, n - 1 \in T
      PROVE  n \in T
  <2>1. a + n \in a + 1 .. k /\ a + (n - 1) <= k /\ a + (n - 1) + 1 = a + n
    OBVIOUS
  <2>2. B[a + n][l] = B[a + 1][l]
    BY <1>2, <2>1
  <2>3. B[a + n + 1][l] = B[a + n][l]
    BY <2>1
  <2> QED
    BY <2>2, <2>3
<1>3. k - a \in Nat
  OBVIOUS
<1> HIDE DEF T
<1>4. k - a \in T
  BY <1>1, <1>2, <1>3, UpTo
<1>5. a + (k - a) <= k /\ a + (k - a) + 1 = k + 1
  OBVIOUS
<1> QED
  BY <1>4, <1>5 DEF T

(* Replaying the journal on the base gives the published ladder. *)
LEMMA ReplayIsTrue ==
  ASSUME NEW i \in Instruments, books[i] \in Seq(Ladder), NEW in, InstrTyped(in), InstrTrue(in, i),
         in.baseSet, ~in.overflow, NEW k \in in.baseK .. in.lastSeq
  PROVE  StateAsOf(in, k) = books[i][k + 1]
<1> DEFINE B == books[i]
           J == in.journal
           a == in.baseK
<1>1. a \in Nat /\ in.lastSeq \in Nat /\ k \in Nat /\ J \subseteq Entry
  BY DEF InstrTyped, Instr
<1>2. Len(B) \in Nat /\ in.lastSeq <= Len(B) - 1 /\ \A n \in 1 .. Len(B) : B[n] \in Ladder
  BY LenProperties, ElementOfSeq DEF InstrTrue, SeqNow
<1>3. /\ in.base = B[a + 1]
      /\ \A e \in J : e.seq \in a + 1 .. in.lastSeq /\ Changes(B, e.seq, e.levels, e.qty)
      /\ \A s \in a + 1 .. in.lastSeq : \E e \in J : e.seq = s
  BY DEF InstrTrue
<1> HIDE DEF B, a, J
<1>4. ASSUME NEW l \in Levels, NEW f \in Nat, a <= f, f <= k,
             \A e \in J : e.seq <= k /\ l \in e.levels => e.seq <= f
      PROVE  B[k + 1][l] = B[f + 1][l]
  <2>1. ASSUME NEW s \in f + 1 .. k PROVE B[s + 1][l] = B[s][l]
    <3>1. PICK e \in J : e.seq = s
      BY <1>1, <1>3, <1>4
    <3>2. l \notin e.levels
      BY <1>1, <1>4, <3>1
    <3> QED
      BY <1>3, <3>1, <3>2 DEF Changes
  <2> HIDE DEF a
  <2>2. f \in Nat /\ k \in Nat /\ f <= k
    BY <1>1, <1>4
  <2> QED
    BY <2>1, <2>2, Unchanging
<1>5. ASSUME NEW l \in Levels
      PROVE  StateAsOf(in, k)[l] = B[k + 1][l]
  <2> DEFINE hits == {e \in J : e.seq <= k /\ l \in e.levels}
             last == CHOOSE e \in hits : \A f \in hits : f.seq <= e.seq
  <2>1. StateAsOf(in, k)[l] = IF hits = {} THEN in.base[l] ELSE last.qty
    BY DEF StateAsOf, J
  <2>2. CASE hits = {}
    <3>1. a <= a /\ a <= k
      BY <1>1 DEF a
    <3>2. B[k + 1][l] = B[a + 1][l]
      BY <1>1, <1>4, <2>2, <3>1
    <3> QED
      BY <1>3, <2>1, <2>2, <3>2
  <2>3. CASE hits # {}
    <3> DEFINE nums == {e.seq : e \in hits}
    <3>1. nums \in SUBSET (0 .. k) /\ nums # {}
      BY <1>1, <2>3 DEF Entry
    <3> HIDE DEF nums
    <3>2. \E n \in nums : \A m \in nums : m <= n
      BY <1>1, <3>1, GreatestOf
    <3>3. \E e \in hits : \A f \in hits : f.seq <= e.seq
      BY <3>2 DEF nums
    <3>4. last \in hits /\ \A f \in hits : f.seq <= last.seq
      BY <3>3
    <3> HIDE DEF last
    <3>5. /\ last \in J /\ last.seq <= k /\ l \in last.levels
          /\ \A e \in J : e.seq <= k /\ l \in e.levels => e.seq <= last.seq
      BY <3>4
    <3> HIDE DEF hits
    <3>6. last.seq \in Nat /\ a <= last.seq
      BY <1>1, <1>3, <3>5
    <3>7. B[k + 1][l] = B[last.seq + 1][l]
      BY <1>4, <3>5, <3>6
    <3>8. B[last.seq + 1][l] = last.qty
      BY <1>3, <3>5 DEF Changes
    <3> QED
      BY <2>1, <2>3, <3>7, <3>8
  <2> QED
    BY <2>2, <2>3
<1>6. B[k + 1] \in Ladder
  <2>1. k + 1 \in 1 .. Len(B)
    BY <1>1, <1>2
  <2> QED
    BY <1>2, <2>1
<1>7. StateAsOf(in, k) = [l \in Levels |-> StateAsOf(in, k)[l]]
  BY DEF StateAsOf
<1>8. B[k + 1] = [l \in Levels |-> B[k + 1][l]]
  BY <1>6 DEF Ladder
<1> QED
  BY <1>5, <1>7, <1>8 DEF B

-----------------------------------------------------------------------------
(* One instrument: a delta, a group.                                       *)
LEMMA AfterSeqFields ==
  ASSUME NEW in, InstrTyped(in), NEW got
  PROVE  LET a == AfterSeq(in, got)
         IN  /\ DOMAIN a = DOMAIN in /\ a.lastSeqSet
             /\ a.lastSeq = IF Accepts(in, got) THEN got ELSE in.lastSeq
             /\ a.base = in.base /\ a.baseK = in.baseK /\ a.baseSet = in.baseSet
             /\ a.journal = in.journal /\ a.overflow = in.overflow
             /\ a.droppedMax = in.droppedMax
<1> DEFINE ok  == Accepts(in, got)
           gap == SeqOutcome(in, got) \in {"restart", "gap"}
           a   == AfterSeq(in, got)
<1>1. a = [in EXCEPT !.sawSnapshot = FALSE, !.lastSeqSet = TRUE,
                     !.lastSeq = IF ok THEN got ELSE @, !.gapped = @ \/ gap]
  BY DEF AfterSeq
<1> HIDE DEF ok, gap, a
<1>2. in \in Instr
  BY DEF InstrTyped
<1>3. /\ DOMAIN a = DOMAIN in /\ a.lastSeqSet
      /\ a.lastSeq = IF ok THEN got ELSE in.lastSeq
      /\ a.base = in.base /\ a.baseK = in.baseK /\ a.baseSet = in.baseSet
      /\ a.journal = in.journal /\ a.overflow = in.overflow
      /\ a.droppedMax = in.droppedMax
  BY <1>1, <1>2 DEF Instr
<1> QED
  BY <1>3 DEF a, ok

LEMMA RecordFields ==
  ASSUME NEW in, in \in Instr, NEW m, m.seq \in Nat
  PROVE  LET r == Record(in, m)
             e == [seq |-> m.seq, levels |-> Touched(m), qty |-> Leaves(m)]
         IN  /\ r.lastSeq = in.lastSeq /\ r.lastSeqSet = in.lastSeqSet
             /\ r.base = in.base /\ r.baseK = in.baseK /\ r.baseSet = in.baseSet
             /\ r.droppedMax \in Nat
             /\ \/ /\ r.journal = in.journal \cup {e} /\ r.overflow = in.overflow
                   /\ r.droppedMax = in.droppedMax
                \/ /\ r.journal = in.journal /\ r.overflow
                   /\ r.droppedMax >= m.seq /\ r.droppedMax >= in.droppedMax
<1> DEFINE e == [seq |-> m.seq, levels |-> Touched(m), qty |-> Leaves(m)]
           a == [in EXCEPT !.overflow = TRUE, !.droppedMax = IF m.seq > @ THEN m.seq ELSE @]
           b == [in EXCEPT !.journal = @ \cup {e}]
<1>1. Record(in, m) \in {a, b}
  BY DEF Record
<1> HIDE DEF e
<1>2. /\ a.lastSeq = in.lastSeq /\ a.lastSeqSet = in.lastSeqSet
      /\ a.base = in.base /\ a.baseK = in.baseK /\ a.baseSet = in.baseSet
      /\ a.journal = in.journal /\ a.overflow
      /\ a.droppedMax = IF m.seq > in.droppedMax THEN m.seq ELSE in.droppedMax
  BY DEF Instr
<1>3. /\ b.lastSeq = in.lastSeq /\ b.lastSeqSet = in.lastSeqSet
      /\ b.base = in.base /\ b.baseK = in.baseK /\ b.baseSet = in.baseSet
      /\ b.journal = in.journal \cup {e} /\ b.overflow = in.overflow
      /\ b.droppedMax = in.droppedMax
  BY DEF Instr
<1>4. in.droppedMax \in Nat
  BY DEF Instr
<1> HIDE DEF a, b
<1> QED
  BY <1>1, <1>2, <1>3, <1>4 DEF e

LEMMA AdoptFields ==
  ASSUME NEW in, in \in Instr, NEW o
  PROVE  LET a == Adopt(in, o)
             still == in.droppedMax > o.lastK
             ahead == o.lastK > in.lastSeq
         IN  /\ a.base = o.levels /\ a.baseK = o.lastK /\ a.baseSet
             /\ a.journal = {e \in in.journal : e.seq > o.lastK}
             /\ (a.overflow <=> still)
             /\ a.droppedMax = IF still THEN in.droppedMax ELSE 0
             /\ a.lastSeq = IF ahead THEN o.lastK ELSE in.lastSeq
             /\ (a.lastSeqSet <=> (in.lastSeqSet \/ ahead))
<1> DEFINE still == in.droppedMax > o.lastK
           ahead == o.lastK > in.lastSeq
           kept  == {e \in in.journal : e.seq > o.lastK}
           a     == Adopt(in, o)
<1>1. a = [in EXCEPT !.base = o.levels, !.baseK = o.lastK, !.baseSet = TRUE,
                     !.journal = kept, !.overflow = still,
                     !.droppedMax = IF still THEN @ ELSE 0,
                     !.gapped = FALSE, !.sawSnapshot = TRUE,
                     !.lastSeq    = IF ahead THEN o.lastK ELSE @,
                     !.lastSeqSet = @ \/ ahead]
  BY DEF Adopt
<1> HIDE DEF still, ahead, kept, a
<1>2. /\ a.base = o.levels /\ a.baseK = o.lastK /\ a.baseSet
      /\ a.journal = kept /\ (a.overflow <=> still)
      /\ a.droppedMax = IF still THEN in.droppedMax ELSE 0
      /\ a.lastSeq = IF ahead THEN o.lastK ELSE in.lastSeq
      /\ (a.lastSeqSet <=> (in.lastSeqSet \/ ahead))
  BY <1>1 DEF Instr
<1> QED
  BY <1>2 DEF still, ahead, kept, a

(* The next delta, or an old one again. *)
LEMMA DeltaIsTrue ==
  ASSUME NEW i \in Instruments, SeqNow(i) \in Nat, NEW in, InstrTyped(in), InstrTrue(in, i),
         NEW m, TrueDelta(m), m.instr = i, m.seq - 1 <= in.lastSeq
  PROVE  LET after == AfterSeq(in, m.seq)
             new   == IF Accepts(in, m.seq) THEN Record(after, m) ELSE after
         IN  /\ InstrTrue(new, i) /\ new.baseK = in.baseK
             /\ in.lastSeq <= new.lastSeq /\ m.seq <= new.lastSeq
             /\ SeqOutcome(in, m.seq) # "gap"
<1> DEFINE after == AfterSeq(in, m.seq)
           new   == IF Accepts(in, m.seq) THEN Record(after, m) ELSE after
           e     == [seq |-> m.seq, levels |-> Touched(m), qty |-> Leaves(m)]
<1>1. /\ in.lastSeq \in Nat /\ in.baseK \in Nat /\ in.droppedMax \in Nat /\ m.seq \in Nat
      /\ m.seq >= 1 /\ m.seq <= SeqNow(i) /\ in \in Instr
      /\ \A f \in in.journal : f.seq \in Nat
  BY DEF InstrTyped, Instr, Entry, TrueDelta
<1>2. /\ after.lastSeqSet /\ after \in Instr
      /\ after.lastSeq = IF Accepts(in, m.seq) THEN m.seq ELSE in.lastSeq
      /\ after.base = in.base /\ after.baseK = in.baseK /\ after.baseSet = in.baseSet
      /\ after.journal = in.journal /\ after.overflow = in.overflow
      /\ after.droppedMax = in.droppedMax
  BY <1>1, AfterSeqFields, AfterSeqTyped DEF InstrTyped
<1>3. SeqOutcome(in, m.seq) # "gap"
  BY <1>1 DEF SeqOutcome, InstrTrue
<1>4. ~Accepts(in, m.seq) => m.seq <= in.lastSeq
  BY <1>1 DEF SeqOutcome, Accepts, InstrTrue
<1>5. Accepts(in, m.seq) => m.seq = in.lastSeq + 1
  BY <1>1, <1>3 DEF SeqOutcome, Accepts, InstrTrue
<1>6. CASE ~Accepts(in, m.seq)
  <2>1. new = after
    BY <1>6
  <2> HIDE DEF after, new
  <2>2. InstrTrue(after, i)
    BY <1>2, <1>6 DEF InstrTrue
  <2> QED
    BY <1>1, <1>2, <1>3, <1>4, <1>6, <2>1, <2>2 DEF after, new
<1>7. CASE Accepts(in, m.seq)
  <2>1. new = Record(after, m)
    BY <1>7
  <2>2. e.seq = m.seq /\ e.levels = Touched(m) /\ e.qty = Leaves(m)
    OBVIOUS
  <2> HIDE DEF after, new
  <2>3. /\ new.lastSeq = m.seq /\ new.lastSeqSet
        /\ new.base = in.base /\ new.baseK = in.baseK /\ new.baseSet = in.baseSet
        /\ new.droppedMax \in Nat
        /\ \/ /\ new.journal = in.journal \cup {e} /\ new.overflow = in.overflow
              /\ new.droppedMax = in.droppedMax
           \/ /\ new.journal = in.journal /\ new.overflow
              /\ new.droppedMax >= m.seq /\ new.droppedMax >= in.droppedMax
    BY <1>1, <1>2, <1>7, <2>1, RecordFields
  <2> HIDE DEF e
  <2>4. \A f \in new.journal : /\ f.seq \in new.baseK + 1 .. new.lastSeq
                               /\ Changes(books[i], f.seq, f.levels, f.qty)
    <3>1. m.seq \in in.baseK + 1 .. m.seq /\ Changes(books[i], e.seq, e.levels, e.qty)
      BY <1>1, <1>5, <1>7, <2>2 DEF TrueDelta, InstrTrue
    <3>2. \A f \in in.journal : /\ f.seq \in in.baseK + 1 .. m.seq
                                /\ Changes(books[i], f.seq, f.levels, f.qty)
      BY <1>1, <1>5, <1>7 DEF InstrTrue
    <3> QED
      BY <2>2, <2>3, <3>1, <3>2
  <2>5. ASSUME NEW s \in new.baseK + 1 .. new.lastSeq
        PROVE  (\E f \in new.journal : f.seq = s) \/ (new.overflow /\ s <= new.droppedMax)
    <3>1. CASE s = m.seq
      BY <2>2, <2>3, <3>1
    <3>2. CASE s # m.seq
      <4>1. s \in in.baseK + 1 .. in.lastSeq
        BY <1>1, <1>5, <1>7, <2>3, <3>2
      <4>2. (\E f \in in.journal : f.seq = s) \/ (in.overflow /\ s <= in.droppedMax)
        BY <4>1 DEF InstrTrue
      <4> QED
        BY <1>1, <2>3, <4>1, <4>2
    <3> QED
      BY <3>1, <3>2
  <2>6. /\ new.lastSeq <= SeqNow(i) /\ new.baseK <= new.lastSeq
        /\ IF new.baseSet THEN new.base = books[i][new.baseK + 1] ELSE new.baseK = 0
    BY <1>1, <1>5, <1>7, <2>3 DEF InstrTrue
  <2>7. InstrTrue(new, i)
    BY <2>3, <2>4, <2>5, <2>6 DEF InstrTrue
  <2> QED
    BY <1>1, <1>3, <1>5, <1>7, <2>3, <2>7 DEF new, after
<1> QED
  BY <1>6, <1>7

(* A true group becomes the base. *)
LEMMA AdoptIsTrue ==
  ASSUME NEW i \in Instruments, NEW in, InstrTyped(in), InstrTrue(in, i), SeqNow(i) \in Nat,
         NEW o, o.lastK \in Nat, o.lastK <= SeqNow(i), in.baseK <= o.lastK,
         o.levels = books[i][o.lastK + 1]
  PROVE  /\ InstrTrue(Adopt(in, o), i) /\ Adopt(in, o).baseK = o.lastK
         /\ in.lastSeq <= Adopt(in, o).lastSeq
<1> DEFINE a == Adopt(in, o)
<1>1. in \in Instr
  BY DEF InstrTyped
<1>2. /\ a.base = o.levels /\ a.baseK = o.lastK /\ a.baseSet
      /\ a.journal = {e \in in.journal : e.seq > o.lastK}
      /\ (a.overflow <=> in.droppedMax > o.lastK)
      /\ a.droppedMax = IF in.droppedMax > o.lastK THEN in.droppedMax ELSE 0
      /\ a.lastSeq = IF o.lastK > in.lastSeq THEN o.lastK ELSE in.lastSeq
      /\ (a.lastSeqSet <=> (in.lastSeqSet \/ o.lastK > in.lastSeq))
  BY <1>1, AdoptFields
<1> HIDE DEF a
<1>3. /\ in.lastSeq \in Nat /\ in.baseK \in Nat /\ in.droppedMax \in Nat
      /\ in.lastSeq <= SeqNow(i) /\ in.baseK <= in.lastSeq /\ (~in.lastSeqSet => in.lastSeq = 0)
      /\ \A e \in in.journal : e.seq \in Nat
  BY <1>1 DEF Instr, Entry, InstrTrue
<1>4. /\ a.lastSeq \in Nat /\ a.lastSeq <= SeqNow(i) /\ (~a.lastSeqSet => a.lastSeq = 0)
      /\ a.baseK <= a.lastSeq /\ in.lastSeq <= a.lastSeq
  BY <1>2, <1>3
<1>5. ASSUME NEW e \in a.journal
      PROVE  e.seq \in a.baseK + 1 .. a.lastSeq /\ Changes(books[i], e.seq, e.levels, e.qty)
  <2>1. e \in in.journal /\ e.seq > o.lastK
    BY <1>2
  <2>2. e.seq \in in.baseK + 1 .. in.lastSeq /\ Changes(books[i], e.seq, e.levels, e.qty)
    BY <2>1 DEF InstrTrue
  <2> QED
    BY <1>2, <1>3, <1>4, <2>1, <2>2
<1>6. ASSUME NEW s \in a.baseK + 1 .. a.lastSeq
      PROVE  (\E e \in a.journal : e.seq = s) \/ (a.overflow /\ s <= a.droppedMax)
  <2>1. s > o.lastK /\ s \in in.baseK + 1 .. in.lastSeq
    BY <1>2, <1>3, <1>4
  <2>2. (\E e \in in.journal : e.seq = s) \/ (in.overflow /\ s <= in.droppedMax)
    BY <2>1 DEF InstrTrue
  <2>3. CASE \E e \in in.journal : e.seq = s
    BY <1>2, <2>1, <2>3
  <2>4. CASE in.overflow /\ s <= in.droppedMax
    BY <1>2, <1>3, <2>1, <2>4
  <2> QED
    BY <2>2, <2>3, <2>4
<1>7. InstrTrue(a, i)
  BY <1>2, <1>4, <1>5, <1>6 DEF InstrTrue
<1> QED
  BY <1>2, <1>4, <1>7 DEF a

-----------------------------------------------------------------------------
(* The validator: the first of the frames to come.                         *)
First(x, S) == x \in S /\ \A y \in S : y # x => x.seq < y.seq

LEMMA GroupsFewer ==
  ASSUME NEW w, NEW S, GroupsOK(w, S), NEW T, T \subseteq S
  PROVE  GroupsOK(w, T)
<1>1. SeriesOK(T)
  BY DEF GroupsOK, SeriesOK
<1> QED
  BY <1>1 DEF GroupsOK, OpenOK

LEMMA HeartbeatRead ==
  ASSUME NEW w, NEW D, NEW S, Truth(w, D, S), NEW x \in D, Len(x.msgs) = 0
  PROVE  Truth(w, D \ {x}, S)
<1>1. \A i, s : ~Tells(x, i, s)
  BY DEF Tells
<1>2. DeltasOK(w, D \ {x})
  <2>1. ASSUME NEW y \in D \ {x}, NEW i \in Instruments, NEW s \in Nat, Tells(y, i, s)
        PROVE  Reached(w.instr[i], i, s - 1, {z \in D \ {x} : z.seq < y.seq})
    <3>1. Reached(w.instr[i], i, s - 1, {z \in D : z.seq < y.seq})
      BY <2>1 DEF Truth, DeltasOK
    <3> QED
      BY <1>1, <3>1 DEF Reached
  <2>2. \A i \in Instruments : Reached(w.instr[i], i, SeqNow(i), D \ {x})
    BY <1>1 DEF Truth, DeltasOK, Reached
  <2> QED
    BY <2>1, <2>2 DEF Truth, DeltasOK
<1> QED
  BY <1>2 DEF Truth

LEMMA DeltaRead ==
  ASSUME PubTyped, NEW w, StateTyped(w), NEW D, NEW S, Truth(w, D, S),
         NEW x, First(x, D), Len(x.msgs) = 1
  PROVE  Truth(OnDelta(w, x.msgs[1]), D \ {x}, S)
<1> DEFINE m     == x.msgs[1]
           i     == m.instr
           in    == w.instr[i]
           after == AfterSeq(in, m.seq)
           new   == IF Accepts(in, m.seq) THEN Record(after, m) ELSE after
           u     == OnDelta(w, m)
<1>1. x \in D /\ TrueDelta(m)
  BY DEF First, Truth, DeltasOK
<1>2. i \in Instruments /\ ~MalformedClear(m) /\ m.seq \in 1 .. SeqNow(i)
  BY <1>1 DEF TrueDelta
<1>3. SeqNow(i) \in Nat /\ InstrTyped(in) /\ InstrTrue(in, i)
  BY <1>2, BookTyped DEF StateTyped, Truth, Believed
<1>4. m.seq \in Nat /\ in.lastSeq \in Nat
  BY <1>2, <1>3 DEF InstrTyped, Instr
<1>5. m.seq - 1 <= in.lastSeq
  <2>1. Tells(x, i, m.seq)
    BY DEF Tells
  <2>2. Reached(in, i, m.seq - 1, {y \in D : y.seq < x.seq})
    BY <1>1, <1>2, <1>4, <2>1 DEF Truth, DeltasOK
  <2>3. \A y \in D : y.seq \in Nat /\ (y # x => x.seq < y.seq)
    BY DEF First, Truth, DeltasOK
  <2>4. {y \in D : y.seq < x.seq} = {}
    BY <1>1, <2>3
  <2> QED
    BY <2>2, <2>4 DEF Reached
<1>6. /\ InstrTrue(new, i) /\ new.baseK = in.baseK
      /\ in.lastSeq <= new.lastSeq /\ m.seq <= new.lastSeq
      /\ SeqOutcome(in, m.seq) # "gap"
  <2> HIDE DEF in
  <2> QED
    BY <1>1, <1>2, <1>3, <1>5, DeltaIsTrue
<1>7. /\ u.instr = [w.instr EXCEPT ![i] = new] /\ u.open = w.open
      /\ u.resetCount = w.resetCount /\ u.findings = w.findings \cup SeqRule(in, m.seq)
  <2> DEFINE chosen == CASE MalformedClear(m)                        -> [after EXCEPT !.gapped = TRUE]
                         [] ~MalformedClear(m) /\ Accepts(in, m.seq) -> Record(after, m)
                         [] OTHER                                    -> after
             found == SeqRule(in, m.seq) \cup (IF MalformedClear(m) THEN {"ABSOLUTE_APPLY"} ELSE {})
  <2>1. chosen = new /\ found = SeqRule(in, m.seq)
    BY <1>2
  <2>2. u = [w EXCEPT !.instr[i] = chosen, !.findings = @ \cup found]
    BY DEF OnDelta
  <2> HIDE DEF chosen, found, new, u, i
  <2> QED
    BY <2>1, <2>2 DEF StateTyped, StateFields
<1>8. SeqRule(in, m.seq) \subseteq {"PERINSTR_NO_SNAPSHOT_RESET"}
  BY <1>6 DEF SeqRule
<1>9. new.lastSeq \in Nat
  <2>1. new.lastSeq <= SeqNow(i) /\ InstrTyped(after)
    BY <1>3, <1>4, <1>6, AfterSeqTyped DEF InstrTrue
  <2>2. Accepts(in, m.seq) => Record(after, m).lastSeq = after.lastSeq
    <3> HIDE DEF after
    <3> QED
      BY <1>4, <2>1, RecordFields DEF InstrTyped
  <2> HIDE DEF after
  <2> QED
    BY <2>1, <2>2 DEF InstrTyped, Instr
<1> HIDE DEF new, u
<1>10. \A j \in Instruments : u.instr[j] = IF j = i THEN new ELSE w.instr[j]
  BY <1>7 DEF StateTyped
<1>11. Believed(u)
  BY <1>6, <1>7, <1>8, <1>10 DEF Truth, Believed
<1>12. \A j \in Instruments : u.instr[j].baseK = w.instr[j].baseK
  BY <1>6, <1>10
<1>13. GroupsOK(u, S)
  BY <1>7, <1>12 DEF Truth, GroupsOK
<1>14. \A j \in Instruments, s \in Int : \A E :
         Reached(w.instr[j], j, s, E) => Reached(u.instr[j], j, s, E \ {x})
  <2> SUFFICES ASSUME NEW j \in Instruments, NEW s \in Int, NEW E, Reached(w.instr[j], j, s, E)
               PROVE  Reached(u.instr[j], j, s, E \ {x})
    OBVIOUS
  <2>1. w.instr[j].lastSeq \in Nat
    BY DEF StateTyped, InstrTyped, Instr
  <2>2. CASE s <= w.instr[j].lastSeq
    BY <1>4, <1>6, <1>9, <1>10, <2>1, <2>2 DEF Reached
  <2>3. CASE \E y \in E : y # x /\ Tells(y, j, s)
    BY <2>3 DEF Reached
  <2>4. CASE Tells(x, j, s)
    <3>1. j = i /\ s = m.seq
      BY <2>4 DEF Tells
    <3> QED
      BY <1>6, <1>10, <3>1 DEF Reached
  <2> QED
    BY <2>2, <2>3, <2>4 DEF Reached
<1>15. DeltasOK(u, D \ {x})
  <2>1. ASSUME NEW y \in D \ {x}, NEW j \in Instruments, NEW s \in Nat, Tells(y, j, s)
        PROVE  Reached(u.instr[j], j, s - 1, {z \in D \ {x} : z.seq < y.seq})
    <3> DEFINE E == {z \in D : z.seq < y.seq}
    <3>1. Reached(w.instr[j], j, s - 1, E)
      <4>1. DeltasOK(w, D) /\ y \in D
        BY DEF Truth
      <4> QED
        BY <2>1, <4>1 DEF DeltasOK
    <3>2. E \ {x} = {z \in D \ {x} : z.seq < y.seq}
      OBVIOUS
    <3>3. s - 1 \in Int
      OBVIOUS
    <3> HIDE DEF E
    <3>4. Reached(u.instr[j], j, s - 1, E \ {x})
      BY <1>14, <3>1, <3>3
    <3> QED
      BY <3>2, <3>4
  <2>2. ASSUME NEW j \in Instruments PROVE Reached(u.instr[j], j, SeqNow(j), D \ {x})
    <3>1. Reached(w.instr[j], j, SeqNow(j), D) /\ SeqNow(j) \in Int
      BY BookTyped DEF Truth, DeltasOK
    <3> QED
      BY <1>14, <3>1
  <2> QED
    BY <2>1, <2>2 DEF Truth, DeltasOK
<1> QED
  BY <1>11, <1>13, <1>15 DEF Truth, u

(* The group messages. *)
LEMMA OpenChanges ==
  ASSUME NEW w, NEW D, NEW S, Truth(w, D, S),
         NEW u, u.instr = w.instr, u.resetCount = w.resetCount,
         u.findings \subseteq w.findings \cup {"GROUP_STRUCTURE"},
         OpenOK(u.open, S)
  PROVE  Truth(u, D, S)
<1>1. DeltasOK(u, D)
  BY DEF Truth, DeltasOK
<1>2. GroupsOK(u, S)
  BY DEF Truth, GroupsOK
<1>3. Believed(u)
  BY DEF Truth, Believed
<1> QED
  BY <1>1, <1>2, <1>3 DEF Truth

LEMMA ChargeFields ==
  ASSUME NEW w, StateTyped(w), NEW b
  PROVE  LET c == Charge(w, b)
         IN  /\ DOMAIN c = StateFields /\ c.instr = w.instr /\ c.open = w.open
             /\ c.resetCount = w.resetCount
             /\ c.findings \subseteq w.findings \cup {"GROUP_STRUCTURE"}
<1> DEFINE c == [w EXCEPT !.findings = @ \cup {"GROUP_STRUCTURE"}]
<1>1. /\ DOMAIN c = StateFields /\ c.instr = w.instr /\ c.open = w.open
      /\ c.resetCount = w.resetCount /\ c.findings = w.findings \cup {"GROUP_STRUCTURE"}
  BY DEF StateTyped, StateFields
<1>2. Charge(w, b) \in {w, c}
  BY DEF Charge
<1> HIDE DEF c
<1> QED
  BY <1>1, <1>2 DEF StateTyped

LEMMA ChargeIsTrue ==
  ASSUME NEW w, StateTyped(w), NEW D, NEW S, Truth(w, D, S), NEW b
  PROVE  Truth(Charge(w, b), D, S)
<1>1. OpenOK(w.open, S)
  BY DEF Truth, GroupsOK
<1> DEFINE c == Charge(w, b)
<1>2. /\ c.instr = w.instr /\ c.open = w.open /\ c.resetCount = w.resetCount
      /\ c.findings \subseteq w.findings \cup {"GROUP_STRUCTURE"}
  BY ChargeFields
<1> HIDE DEF c
<1>3. Truth(c, D, S)
  BY <1>1, <1>2, OpenChanges
<1> QED
  BY <1>3 DEF c

(* A frame's group is the next one, and goes on until another's frame. *)
LEMMA GroupIsNext ==
  ASSUME NEW S, SeriesOK(S), NEW x, First(x, S), NEW i, NEW id, Of(x, i, id)
  PROVE  \A z \in S : Of(z, i, id) => \A y \in S : y.seq <= z.seq => Of(y, i, id)
<1>1. \A y \in S : x \in S /\ y.seq \in Nat /\ x.seq <= y.seq
  BY DEF First, SeriesOK
<1> QED
  BY <1>1 DEF SeriesOK

LEMMA NotesAreTrue ==
  ASSUME NEW w, StateTyped(w), NEW D, NEW S, Truth(w, D, S), NEW seq
  PROVE  Truth(NoteSnapSeq(w, seq), D, S)
<1> DEFINE o    == w.open
           hole == seq > o.lastSnapSeq + 1 /\ ~o.dirty
           n    == [o EXCEPT !.lastSnapSeq = seq,
                             !.dirty     = @ \/ hole,
                             !.cleanCount = IF hole THEN o.count ELSE @,
                             !.cleanDups  = IF hole THEN o.dups ELSE @]
           u    == [w EXCEPT !.open = n]
<1>1. CASE w.open = NoGroup
  BY <1>1 DEF NoteSnapSeq
<1>2. CASE w.open # NoGroup
  <2>1. NoteSnapSeq(w, seq) = u
    BY <1>2 DEF NoteSnapSeq
  <2>2. DOMAIN o = GroupFields
    BY <1>2 DEF StateTyped, OpenTyped
  <2>3. OpenOK(o, S) /\ o # NoGroup
    BY <1>2 DEF Truth, GroupsOK
  <2> HIDE DEF hole, o
  <2>4. /\ n.instr = o.instr /\ n.id = o.id /\ n.levels = o.levels /\ n.keys = o.keys
        /\ n.lastK = o.lastK /\ n.total = o.total /\ n.dups = o.dups /\ n.count = o.count
    BY <2>2 DEF GroupFields
  <2> HIDE DEF n
  <2>5. Pure(o) => Pure(n)
    BY <2>4 DEF Pure
  <2>6. OpenOK(n, S)
    BY <2>3, <2>4, <2>5 DEF OpenOK
  <2>7. u.instr = w.instr /\ u.open = n /\ u.resetCount = w.resetCount /\ u.findings = w.findings
    BY DEF StateTyped, StateFields
  <2> HIDE DEF u
  <2>8. Truth(u, D, S)
    BY <2>6, <2>7, OpenChanges
  <2> QED
    BY <2>1, <2>8
<1> QED
  BY <1>1, <1>2

LEMMA BeginRead ==
  ASSUME NEW w, StateTyped(w), NEW D, NEW S, Truth(w, D, S),
         NEW x, First(x, S), NEW i, NEW id, TrueGroup(x, i, id), Of(x, i, id),
         NEW m, m.type = "begin", TrueMessage(m, i, id), NEW seq, NEW clean
  PROVE  Truth(OnSnapshotBegin(w, m, seq, clean), D, S)
<1> DEFINE o == [ instr |-> m.instr, id |-> m.id, anchor |-> m.anchor,
                  total |-> m.total, lastK |-> m.lastK, levels |-> Empty, keys |-> {},
                  count |-> 0, dups |-> 0, dirty |-> FALSE,
                  cleanCount |-> 0, cleanDups |-> 0, lastSnapSeq |-> seq ]
           b == w.open # NoGroup /\ w.open.instr # m.instr /\ GroupStatus(w.open, clean)
           c == Charge(w, b)
           u == [c EXCEPT !.sawBegin = TRUE, !.open = o]
<1>1. OnSnapshotBegin(w, m, seq, clean) = u
  BY DEF OnSnapshotBegin
<1>2. /\ o.instr = m.instr /\ o.id = m.id /\ o.total = m.total /\ o.lastK = m.lastK
      /\ o.levels = Empty /\ o.keys = {} /\ o.count = 0 /\ o.dups = 0
  OBVIOUS
<1>3. /\ DOMAIN c = StateFields /\ c.instr = w.instr /\ c.resetCount = w.resetCount
      /\ c.findings \subseteq w.findings \cup {"GROUP_STRUCTURE"}
  BY ChargeFields
<1> HIDE DEF o, c
<1>4. /\ u.instr = w.instr /\ u.open = o /\ u.resetCount = w.resetCount
      /\ u.findings \subseteq w.findings \cup {"GROUP_STRUCTURE"}
  BY <1>3 DEF StateFields
<1>5. m.instr = i /\ m.id = id /\ IsGroup(i, id)
      /\ m.lastK = groups[i][id] /\ m.total = Cardinality(Present(Shown(i, id)))
  BY DEF TrueMessage, TrueGroup
<1>6. Pure(o)
  <2>1. Cardinality({}) = 0
    BY FS_EmptySet
  <2>2. Empty = [l \in Levels |-> IF l \in {} THEN Shown(i, id)[l] ELSE 0]
    BY DEF Empty
  <2>3. 0 \in Nat /\ 0 = Cardinality({}) + 0
    BY <2>1
  <2> QED
    BY <1>2, <1>5, <2>2, <2>3 DEF Pure
<1>7. OpenOK(o, S)
  <2>1. SeriesOK(S)
    BY DEF Truth, GroupsOK
  <2> QED
    BY <1>2, <1>5, <1>6, <2>1, GroupIsNext DEF OpenOK
<1> HIDE DEF u
<1> QED
  BY <1>1, <1>4, <1>7, OpenChanges

LEMMA PresentFinite ==
  ASSUME NEW ladder, NEW S \in SUBSET Present(ladder)
  PROVE  IsFiniteSet(S) /\ IsFiniteSet(Present(ladder))
BY LevelsFinite, FS_Subset DEF Present

LEMMA EntryKeepsPure ==
  ASSUME NEW o, Pure(o), NEW m, m.key \in Present(Shown(o.instr, o.id)),
         m.qty = Shown(o.instr, o.id)[m.key],
         NEW n, n.instr = o.instr, n.id = o.id, n.lastK = o.lastK, n.total = o.total,
         n.levels = [o.levels EXCEPT ![m.key] = m.qty],
         n.keys = o.keys \cup {m.key}, n.count = o.count + 1,
         n.dups = IF m.key \in o.keys THEN o.dups + 1 ELSE o.dups
  PROVE  Pure(n)
<1> DEFINE ladder == Shown(o.instr, o.id)
           K == o.keys
           k == m.key
<1>1. /\ K \subseteq Present(ladder) /\ k \in Present(ladder) /\ k \in Levels
      /\ o.levels = [l \in Levels |-> IF l \in K THEN ladder[l] ELSE 0]
      /\ o.dups \in Nat /\ o.count = Cardinality(K) + o.dups
  BY DEF Pure, Present
<1>2. IsFiniteSet(K)
  BY <1>1, PresentFinite
<1> HIDE DEF K, k, ladder
<1>3. Cardinality(K) \in Nat
  BY <1>2, FS_CardinalityType
<1>4. Cardinality(K \cup {k}) = IF k \in K THEN Cardinality(K) ELSE Cardinality(K) + 1
  BY <1>2, FS_AddElement
<1>5. n.levels = [l \in Levels |-> IF l \in K \cup {k} THEN ladder[l] ELSE 0]
  BY <1>1 DEF k, ladder
<1>6. n.dups \in Nat /\ n.count = Cardinality(K \cup {k}) + n.dups
  BY <1>1, <1>3, <1>4 DEF K, k
<1> QED
  BY <1>1, <1>5, <1>6 DEF Pure, K, k, ladder

LEMMA EntryRead ==
  ASSUME NEW w, StateTyped(w), NEW D, NEW S, Truth(w, D, S),
         NEW x, First(x, S), NEW i, NEW id, TrueGroup(x, i, id), Of(x, i, id),
         NEW m, m.type = "entry", TrueMessage(m, i, id), NEW clean
  PROVE  Truth(OnSnapshotLevel(w, m, clean), D, S)
<1> DEFINE c == Charge(w, m.qty = 0)
           o == w.open
           n == [o EXCEPT !.levels[m.key] = m.qty, !.keys = @ \cup {m.key}, !.count = @ + 1,
                          !.dups = IF m.key \in o.keys THEN @ + 1 ELSE @]
           u == [c EXCEPT !.open = n]
<1>1. \A b : Truth(Charge(w, b), D, S)
  BY ChargeIsTrue
<1>2. CASE w.open = NoGroup \/ m.id # w.open.id
  BY <1>1, <1>2 DEF OnSnapshotLevel
<1>3. CASE ~(w.open = NoGroup \/ m.id # w.open.id)
  <2>1. OnSnapshotLevel(w, m, clean) =
          [c EXCEPT !.open.levels[m.key] = m.qty, !.open.keys = @ \cup {m.key},
                    !.open.count = @ + 1,
                    !.open.dups = IF m.key \in w.open.keys THEN @ + 1 ELSE @]
    BY <1>3 DEF OnSnapshotLevel
  <2>2. /\ DOMAIN c = StateFields /\ c.instr = w.instr /\ c.resetCount = w.resetCount
        /\ c.findings \subseteq w.findings \cup {"GROUP_STRUCTURE"} /\ c.open = o
    BY ChargeFields
  <2>3. DOMAIN o = GroupFields /\ o # NoGroup /\ o.id = m.id /\ OpenOK(o, S)
    BY <1>3 DEF StateTyped, OpenTyped, Truth, GroupsOK
  <2> HIDE DEF c, o
  <2>4. OnSnapshotLevel(w, m, clean) = u
    BY <2>1, <2>2, <2>3 DEF StateFields, GroupFields, o
  <2>5. /\ n.instr = o.instr /\ n.id = o.id /\ n.lastK = o.lastK /\ n.total = o.total
        /\ n.levels = [o.levels EXCEPT ![m.key] = m.qty]
        /\ n.keys = o.keys \cup {m.key} /\ n.count = o.count + 1
        /\ n.dups = IF m.key \in o.keys THEN o.dups + 1 ELSE o.dups
    BY <2>3 DEF GroupFields
  <2> HIDE DEF n
  <2>6. m.instr = i /\ m.id = id /\ m.key \in Present(Shown(i, id)) /\ m.qty = Shown(i, id)[m.key]
    BY DEF TrueMessage
  <2>7. OpenOK(n, S)
    <3>1. ASSUME NEW z \in S, Of(z, o.instr, o.id)
          PROVE  Pure(n) /\ \A y \in S : y.seq <= z.seq => Of(y, o.instr, o.id)
      <4>1. Pure(o) /\ \A y \in S : y.seq <= z.seq => Of(y, o.instr, o.id)
        BY <2>3, <3>1 DEF OpenOK
      <4>2. x \in S /\ x.seq <= z.seq
        BY DEF First, Truth, GroupsOK, SeriesOK
      <4>3. o.instr = i /\ o.id = id
        BY <4>1, <4>2 DEF Of
      <4>4. Pure(n)
        BY <2>5, <2>6, <4>1, <4>3, EntryKeepsPure
      <4> QED
        BY <4>1, <4>4
    <3>2. IsGroup(o.instr, o.id)
      BY <2>3 DEF OpenOK
    <3> QED
      BY <2>5, <3>1, <3>2 DEF OpenOK
  <2>8. /\ u.instr = w.instr /\ u.open = n /\ u.resetCount = w.resetCount
        /\ u.findings \subseteq w.findings \cup {"GROUP_STRUCTURE"}
    BY <2>2 DEF StateFields
  <2> HIDE DEF u
  <2> QED
    BY <2>4, <2>7, <2>8, OpenChanges
<1> QED
  BY <1>2, <1>3

(* A group without a defect is whole. *)
LEMMA WholeGroup ==
  ASSUME NEW o, Pure(o), Shown(o.instr, o.id) \in Ladder, o.count = o.total, o.dups = 0
  PROVE  o.levels = Shown(o.instr, o.id)
<1> DEFINE ladder == Shown(o.instr, o.id)
           K == o.keys
           P == Present(ladder)
<1>1. /\ K \subseteq P /\ o.levels = [l \in Levels |-> IF l \in K THEN ladder[l] ELSE 0]
      /\ o.total = Cardinality(P) /\ o.count = Cardinality(K) + o.dups
  BY DEF Pure
<1>2. IsFiniteSet(K) /\ IsFiniteSet(P)
  BY <1>1, PresentFinite
<1>3. \A l \in Levels : l \notin P => ladder[l] = 0
  BY DEF Present
<1> HIDE DEF K, P, ladder
<1>4. Cardinality(K) \in Nat /\ Cardinality(P) \in Nat
  BY <1>2, FS_CardinalityType
<1>5. Cardinality(K) = Cardinality(P)
  BY <1>1, <1>4
<1>6. K = P
  BY <1>1, <1>2, <1>5, FS_Subset
<1>7. ladder \in [Levels -> 0 .. MaxQty]
  BY DEF ladder, Ladder
<1>8. o.levels = [l \in Levels |-> ladder[l]]
  BY <1>1, <1>3, <1>6
<1> QED
  BY <1>7, <1>8 DEF ladder

LEMMA ShownTyped ==
  ASSUME PubTyped, Captured, NEW i, NEW id, IsGroup(i, id)
  PROVE  /\ groups[i][id] \in Nat /\ groups[i][id] <= SeqNow(i) /\ Shown(i, id) \in Ladder
         /\ id \in Nat
<1>1. i \in Instruments /\ id \in DOMAIN groups[i]
  BY DEF IsGroup
<1>2. groups[i] \in Seq(Nat) /\ books[i] \in Seq(Ladder)
  BY <1>1 DEF PubTyped
<1>3. groups[i][id] \in Nat /\ id \in Nat
  <2>1. DOMAIN groups[i] = 1 .. Len(groups[i]) /\ Len(groups[i]) \in Nat
    BY <1>2, LenProperties
  <2> QED
    BY <1>1, <1>2, <2>1, ElementOfSeq
<1>4. groups[i][id] <= SeqNow(i)
  BY <1>1 DEF Captured
<1>5. Len(books[i]) \in Nat
  BY <1>2, LenProperties
<1>6. groups[i][id] + 1 \in 1 .. Len(books[i])
  BY <1>3, <1>4, <1>5 DEF SeqNow
<1>7. Shown(i, id) \in Ladder
  BY <1>2, <1>6, ElementOfSeq DEF Shown
<1> QED
  BY <1>3, <1>4, <1>7

LEMMA EndRead ==
  ASSUME PubTyped, Captured, NEW w, StateTyped(w), NEW D, NEW S, Truth(w, D, S),
         NEW x, First(x, S), NEW i, NEW id, TrueGroup(x, i, id), Of(x, i, id),
         NEW m, m.type = "end", TrueMessage(m, i, id), NEW clean
  PROVE  Truth(OnSnapshotEnd(w, m, clean), D, S)
<1> DEFINE o       == w.open
           closed  == [w EXCEPT !.open = NoGroup]
           in      == w.instr[o.instr]
           wrong   == Comparable(in, o.lastK) /\ StateAsOf(in, o.lastK) # o.levels
           found   == IF wrong THEN {"RECONSTRUCTED_BOOK"} ELSE {}
           u       == [closed EXCEPT !.instr[o.instr] = Adopt(in, o), !.findings = @ \cup found]
           ends    == OnSnapshotEnd(w, m, clean)
<1>1. /\ closed.instr = w.instr /\ closed.open = NoGroup /\ closed.findings = w.findings
      /\ closed.resetCount = w.resetCount /\ StateTyped(closed)
  BY ClosedTyped
<1>2. Truth(closed, D, S)
  <2>1. OpenOK(NoGroup, S)
    BY DEF OpenOK
  <2> HIDE DEF closed
  <2> QED
    BY <1>1, <2>1, OpenChanges
<1>3. \A b : Truth(Charge(w, b), D, S) /\ Truth(Charge(closed, b), D, S)
  BY <1>1, <1>2, ChargeIsTrue
<1>4. \/ o = NoGroup /\ ends = Charge(w, OrphanCharged(w, clean))
      \/ o # NoGroup /\ DefectOf(o, m) # {}
         /\ ends = Charge(closed, \E d \in DefectOf(o, m) : ChargedDefect(o, m, clean, d))
      \/ o # NoGroup /\ DefectOf(o, m) = {} /\ ends = u
  BY DEF OnSnapshotEnd
<1>5. ASSUME o # NoGroup, DefectOf(o, m) = {}
      PROVE  Truth(u, D, S)
  <2>1. m.instr = o.instr /\ m.id = o.id /\ ~(o.count < o.total) /\ ~(o.count > o.total) /\ ~(o.dups > 0)
    <3>1. "field" \notin DefectOf(o, m) /\ "under" \notin DefectOf(o, m)
          /\ "over" \notin DefectOf(o, m) /\ "dup" \notin DefectOf(o, m)
      BY <1>5
    <3> HIDE DEF o
    <3> QED
      BY <3>1 DEF DefectOf
  <2>2. o.instr = i /\ o.id = id /\ IsGroup(i, id) /\ i \in Instruments /\ id \in DOMAIN groups[i]
    BY <2>1 DEF TrueMessage, TrueGroup, IsGroup
  <2>3. x \in S /\ Pure(o)
    <3>1. OpenOK(o, S) /\ x \in S
      BY DEF Truth, GroupsOK, First
    <3> HIDE DEF o
    <3> QED
      BY <1>5, <2>2, <3>1 DEF OpenOK
  <2>4. /\ groups[i][id] \in Nat /\ groups[i][id] <= SeqNow(i) /\ Shown(i, id) \in Ladder
        /\ SeqNow(i) \in Nat /\ books[i] \in Seq(Ladder)
    BY <2>2, ShownTyped, BookTyped DEF PubTyped
  <2>5. o.lastK = groups[i][id] /\ o.levels = Shown(i, id)
    <3>1. /\ o.lastK = groups[i][id] /\ o.total = Cardinality(Present(Shown(i, id)))
          /\ o.dups \in Nat /\ o.count = Cardinality(o.keys) + o.dups
          /\ o.keys \subseteq Present(Shown(i, id))
      BY <2>2, <2>3 DEF Pure
    <3> HIDE DEF o
    <3>2. o.total \in Nat /\ Cardinality(o.keys) \in Nat
      BY <3>1, PresentFinite, FS_CardinalityType
    <3>3. o.count = o.total /\ o.dups = 0
      BY <2>1, <3>1, <3>2
    <3>4. o.levels = Shown(i, id)
      BY <2>2, <2>3, <2>4, <3>3, WholeGroup
    <3> QED
      BY <3>1, <3>4
  <2>6. InstrTyped(in) /\ InstrTrue(in, i) /\ in.baseK <= groups[i][id]
    BY <2>2, <2>3 DEF StateTyped, Truth, Believed, GroupsOK
  <2> HIDE DEF in, o
  <2>7. InstrTrue(Adopt(in, o), i) /\ Adopt(in, o).baseK = o.lastK
        /\ in.lastSeq <= Adopt(in, o).lastSeq
    BY <2>2, <2>4, <2>5, <2>6, AdoptIsTrue DEF Shown
  <2>8. ~wrong
    <3> SUFFICES ASSUME Comparable(in, o.lastK) PROVE StateAsOf(in, o.lastK) = o.levels
      OBVIOUS
    <3>1. in.baseSet /\ ~in.overflow /\ o.lastK \in in.baseK .. in.lastSeq
      <4>1. in.baseK \in Nat /\ in.lastSeq \in Nat
        BY <2>6 DEF InstrTyped, Instr
      <4> QED
        BY <2>4, <2>5, <4>1 DEF Comparable
    <3>2. StateAsOf(in, o.lastK) = books[i][o.lastK + 1]
      BY <2>2, <2>4, <2>6, <3>1, ReplayIsTrue
    <3> QED
      BY <2>5, <3>2 DEF Shown
  <2>9. found = {}
    BY <2>8
  <2> HIDE DEF wrong, found, closed
  <2>10. /\ u.instr = [w.instr EXCEPT ![i] = Adopt(in, o)] /\ u.open = NoGroup
         /\ u.resetCount = w.resetCount /\ u.findings = w.findings
    BY <1>1, <2>2, <2>9 DEF StateTyped, StateFields
  <2> HIDE DEF u
  <2>11. \A j \in Instruments : u.instr[j] = IF j = i THEN Adopt(in, o) ELSE w.instr[j]
    BY <2>10 DEF StateTyped
  <2>12. in = w.instr[i]
    BY <2>2 DEF in
  <2>13. Believed(u)
    BY <2>7, <2>10, <2>11 DEF Truth, Believed
  <2>14. \A j \in Instruments, s \in Int : \A E :
           Reached(w.instr[j], j, s, E) => Reached(u.instr[j], j, s, E)
    <3> SUFFICES ASSUME NEW j \in Instruments, NEW s \in Int, NEW E, Reached(w.instr[j], j, s, E)
                 PROVE  Reached(u.instr[j], j, s, E)
      OBVIOUS
    <3>1. Adopt(in, o).lastSeq \in Nat /\ in.lastSeq \in Nat
      BY <2>4, <2>5, <2>6, AdoptTyped, InstrIs DEF Instr, Ladder
    <3>2. CASE s <= w.instr[j].lastSeq
      BY <2>7, <2>11, <2>12, <3>1, <3>2 DEF Reached
    <3>3. CASE \E y \in E : Tells(y, j, s)
      BY <3>3 DEF Reached
    <3> QED
      BY <3>2, <3>3 DEF Reached
  <2>15. DeltasOK(u, D)
    <3>1. ASSUME NEW y \in D, NEW j \in Instruments, NEW s \in Nat, Tells(y, j, s)
          PROVE  Reached(u.instr[j], j, s - 1, {z \in D : z.seq < y.seq})
      <4>1. Reached(w.instr[j], j, s - 1, {z \in D : z.seq < y.seq})
        <5>1. DeltasOK(w, D)
          BY DEF Truth
        <5> QED
          BY <3>1, <5>1 DEF DeltasOK
      <4>2. s - 1 \in Int
        OBVIOUS
      <4> QED
        BY <2>14, <4>1, <4>2
    <3>2. ASSUME NEW j \in Instruments PROVE Reached(u.instr[j], j, SeqNow(j), D)
      <4>1. Reached(w.instr[j], j, SeqNow(j), D) /\ SeqNow(j) \in Int
        BY BookTyped DEF Truth, DeltasOK
      <4> QED
        BY <2>14, <4>1
    <3> QED
      BY <3>1, <3>2 DEF Truth, DeltasOK
  <2>16. ASSUME NEW z \in S, NEW j \in Instruments, NEW b \in DOMAIN groups[j], Of(z, j, b)
         PROVE  u.instr[j].baseK <= groups[j][b]
    <3>1. CASE j # i
      BY <2>11, <2>16, <3>1 DEF Truth, GroupsOK
    <3>2. CASE j = i
      <4>1. z = x \/ x.seq < z.seq
        BY <2>3 DEF First
      <4>2. z = x => b = id
        BY <2>16, <3>2 DEF Of
      <4>3. x.seq < z.seq => id <= b
        <5>1. SeriesOK(S)
          BY DEF Truth, GroupsOK
        <5> QED
          BY <2>2, <2>3, <2>16, <3>2, <5>1 DEF SeriesOK
      <4>4. b \in Nat /\ id \in Nat /\ IsGroup(i, b)
        BY <2>2, <3>2, ShownTyped DEF IsGroup
      <4>5. id <= b
        BY <4>1, <4>2, <4>3, <4>4
      <4>6. groups[i][id] <= groups[i][b]
        BY <2>2, <3>2, <4>5 DEF Captured
      <4> QED
        BY <2>5, <2>7, <2>11, <3>2, <4>6
    <3> QED
      BY <3>1, <3>2
  <2>17. GroupsOK(u, S)
    BY <2>10, <2>16 DEF Truth, GroupsOK, OpenOK
  <2> QED
    BY <2>13, <2>15, <2>17 DEF Truth
<1> HIDE DEF ends, u, closed, o
<1>6. Truth(ends, D, S)
  BY <1>3, <1>4, <1>5
<1> QED
  BY <1>6 DEF ends

-----------------------------------------------------------------------------
(* The first frame of a port is read: it has told what it had to tell.     *)
TruthOn(p, w, mine, other) ==
  IF p = "snapshot" THEN Truth(w, other, mine) ELSE Truth(w, mine, other)

LEMMA ObserveIsTrue ==
  ASSUME NEW w, StateTyped(w), NEW D, NEW S, Truth(w, D, S), NEW eraPos
  PROVE  Truth(ObserveEra(w, eraPos, Era0), D, S)
<1> DEFINE u == [w EXCEPT !.mbpSeen = eraPos, !.resetCount = Era0,
                          !.instr = w.instr, !.open = w.open]
<1>1. ~NewEra(w, eraPos, Era0)
  BY DEF Truth, Believed, NewEra
<1>2. ObserveEra(w, eraPos, Era0) \in {w, u}
  BY <1>1 DEF ObserveEra
<1>3. u.instr = w.instr /\ u.open = w.open /\ u.resetCount = Era0 /\ u.findings = w.findings
  BY DEF StateTyped, StateFields
<1> HIDE DEF u
<1>4. Truth(u, D, S)
  <2>1. DeltasOK(u, D)
    BY <1>3 DEF Truth, DeltasOK
  <2>2. GroupsOK(u, S)
    BY <1>3 DEF Truth, GroupsOK
  <2>3. Believed(u)
    BY <1>3 DEF Truth, Believed
  <2> QED
    BY <2>1, <2>2, <2>3 DEF Truth
<1> QED
  BY <1>2, <1>4

LEMMA GroupFrameRead ==
  ASSUME PubTyped, Captured, NEW w, StateTyped(w), NEW D, NEW S, Truth(w, D, S),
         NEW x, First(x, S), MessagesTyped("snapshot", x.msgs), NEW seq, NEW clean
  PROVE  Truth(ReadAll("snapshot", w, x.msgs, seq, clean), D, S \ {x})
<1> DEFINE msgs == x.msgs
<1>1. Len(msgs) \in Nat /\ \A n \in 1 .. Len(msgs) : MessageTyped("snapshot", msgs[n])
  BY DEF MessagesTyped
<1>2. PICK i, id : TrueGroup(x, i, id)
  BY DEF Truth, GroupsOK, SeriesOK, First
<1>3. /\ Len(msgs) >= 1 /\ \A n \in 1 .. Len(msgs) : TrueMessage(msgs[n], i, id)
  BY <1>2 DEF TrueGroup
<1>4. Of(x, i, id)
  <2>1. TrueMessage(msgs[1], i, id)
    BY <1>1, <1>3
  <2> QED
    BY <2>1 DEF TrueMessage, Of
<1> HIDE DEF msgs
<1>5. PICK f : Reading(f, "snapshot", w, msgs, seq, clean)
  BY <1>1, ReadAllReads
<1> DEFINE T == {n \in 0 .. Len(msgs) : StateTyped(f[n]) /\ Truth(f[n], D, S)}
<1>6. 0 \in T
  BY <1>1, <1>5 DEF Reading
<1>7. ASSUME NEW n \in 1 .. Len(msgs), n - 1 \in T
      PROVE  n \in T
  <2> DEFINE b == f[n - 1]
             m == msgs[n]
  <2>1. StateTyped(b) /\ Truth(b, D, S) /\ TrueMessage(m, i, id) /\ MessageTyped("snapshot", m)
        /\ f[n] = OnMessage("snapshot", b, m, seq, clean)
    BY <1>1, <1>3, <1>5, <1>7 DEF Reading
  <2> HIDE DEF b, m
  <2>2. StateTyped(f[n])
    BY <2>1, MessageKeepsTypes
  <2>3. f[n] = OnSnapshot(b, m, seq, clean)
    BY <2>1 DEF OnMessage
  <2>4. CASE m.type = "begin"
    <3>1. f[n] = OnSnapshotBegin(b, m, seq, clean)
      BY <2>3, <2>4 DEF OnSnapshot
    <3>2. Truth(f[n], D, S)
      BY <1>2, <1>4, <2>1, <2>4, <3>1, BeginRead
    <3> QED
      BY <1>1, <2>2, <3>2
  <2>5. CASE m.type = "entry"
    <3>1. f[n] = OnSnapshotLevel(b, m, clean)
      BY <2>3, <2>5 DEF OnSnapshot
    <3>2. Truth(f[n], D, S)
      BY <1>2, <1>4, <2>1, <2>5, <3>1, EntryRead
    <3> QED
      BY <1>1, <2>2, <3>2
  <2>6. CASE m.type = "end"
    <3>1. f[n] = OnSnapshotEnd(b, m, clean)
      BY <2>3, <2>6 DEF OnSnapshot
    <3>2. Truth(f[n], D, S)
      BY <1>2, <1>4, <2>1, <2>6, <3>1, EndRead
    <3> QED
      BY <1>1, <2>2, <3>2
  <2> QED
    BY <2>1, <2>4, <2>5, <2>6 DEF TrueMessage
<1> HIDE DEF T
<1>8. Len(msgs) \in T
  BY <1>1, <1>6, <1>7, UpTo
<1>9. Truth(f[Len(msgs)], D, S)
  BY <1>8 DEF T
<1>10. GroupsOK(f[Len(msgs)], S \ {x})
  BY <1>9, GroupsFewer DEF Truth
<1> QED
  BY <1>5, <1>9, <1>10 DEF Truth, Reading, msgs

LEMMA DeltaFrameRead ==
  ASSUME PubTyped, NEW w, StateTyped(w), NEW D, NEW S, Truth(w, D, S),
         NEW x, First(x, D), NEW seq, NEW clean
  PROVE  Truth(ReadAll("mktdata", w, x.msgs, seq, clean), D \ {x}, S)
<1> DEFINE msgs == x.msgs
<1>1. x \in D /\ (Len(msgs) = 0 \/ (Len(msgs) = 1 /\ TrueDelta(msgs[1])))
  BY DEF First, Truth, DeltasOK
<1> HIDE DEF msgs
<1>2. PICK f : Reading(f, "mktdata", w, msgs, seq, clean)
  <2>1. Len(msgs) \in Nat
    BY <1>1
  <2> QED
    BY <2>1, ReadAllReads
<1>3. CASE Len(msgs) = 0
  BY <1>1, <1>2, <1>3, HeartbeatRead DEF Reading, msgs
<1>4. CASE Len(msgs) = 1
  <2>1. f[1] = OnMessage("mktdata", f[1 - 1], msgs[1], seq, clean)
    BY <1>2, <1>4 DEF Reading
  <2>2. msgs[1].type \in {"level", "clear"}
    BY <1>1, <1>4 DEF TrueDelta
  <2>3. f[1] = OnDelta(w, msgs[1])
    BY <1>2, <2>1, <2>2 DEF Reading, OnMessage, OnMktdata
  <2> QED
    BY <1>2, <1>4, <2>3, DeltaRead DEF Reading, msgs
<1> QED
  BY <1>1, <1>3, <1>4

LEMMA FrameIsTrue ==
  ASSUME PubTyped, Captured, NEW p \in {"mktdata", "snapshot"}, NEW w, StateTyped(w),
         NEW mine, NEW other, TruthOn(p, w, mine, other),
         NEW t, t.eraPos \in Nat, t.era = Era0,
         NEW item, First(Frame(item), mine), MessagesTyped(p, item.body.msgs)
  PROVE  TruthOn(p, OnFrame(p, w, t, item), mine \ {Frame(item)}, other)
<1> DEFINE seen  == ObserveEra(w, t.eraPos, t.era)
           noted == IF p = "snapshot" THEN NoteSnapSeq(seen, item.seq) ELSE seen
           clean == ~t.dirty
           x     == Frame(item)
<1>1. x.msgs = item.body.msgs
  BY DEF Frame
<1>2. OnFrame(p, w, t, item) = ReadAll(p, noted, x.msgs, item.seq, clean)
  BY <1>1 DEF OnFrame
<1>3. StateTyped(seen) /\ StateTyped(noted)
  BY ObserveKeepsTypes, NoteKeepsTypes
<1>4. CASE p = "snapshot"
  <2>1. Truth(seen, other, mine)
    BY <1>4, ObserveIsTrue DEF TruthOn
  <2>2. Truth(NoteSnapSeq(seen, item.seq), other, mine)
    <3> HIDE DEF seen
    <3> QED
      BY <1>3, <2>1, NotesAreTrue
  <2>3. noted = NoteSnapSeq(seen, item.seq)
    BY <1>4
  <2> HIDE DEF seen, noted, clean, x
  <2>4. Truth(ReadAll("snapshot", noted, x.msgs, item.seq, clean), other, mine \ {x})
    <3>1. First(x, mine) /\ MessagesTyped("snapshot", x.msgs)
      BY <1>1, <1>4 DEF x
    <3> QED
      BY <1>3, <2>2, <2>3, <3>1, GroupFrameRead
  <2> QED
    BY <1>2, <1>4, <2>4 DEF TruthOn, x
<1>5. CASE p = "mktdata"
  <2>1. Truth(seen, mine, other)
    BY <1>5, ObserveIsTrue DEF TruthOn
  <2>2. noted = seen
    BY <1>5
  <2> HIDE DEF seen, noted, clean, x
  <2>3. Truth(ReadAll("mktdata", noted, x.msgs, item.seq, clean), mine \ {x}, other)
    <3>1. First(x, mine)
      BY DEF x
    <3> QED
      BY <1>3, <2>1, <2>2, <3>1, DeltaFrameRead
  <2> QED
    BY <1>2, <1>5, <2>3 DEF TruthOn, x
<1> QED
  BY <1>4, <1>5

-----------------------------------------------------------------------------
(* The items of a batch: the first one, and all of them in order.          *)
LEMMA WholeFields ==
  ASSUME NEW i, Whole(i)
  PROVE  i.copy = 0 /\ [i EXCEPT !.copy = 0] = i
<1> DEFINE r == [rc |-> i.rc, seq |-> i.seq, body |-> i.body, copy |-> 0]
<1>1. r.copy = 0 /\ [r EXCEPT !.copy = 0] = r
  OBVIOUS
<1>2. i = r
  BY DEF Whole
<1> HIDE DEF r
<1> QED
  BY <1>1, <1>2

LEMMA ItemIsTrue ==
  ASSUME PubTyped, Captured, NEW p \in {"mktdata", "snapshot"},
         NEW acc, Walking(acc), acc.t.era = Era0,
         NEW mine, NEW other, TruthOn(p, acc.v, mine, other),
         NEW item, Whole(item), First(Frame(item), mine), MessagesTyped(p, item.body.msgs),
         \A a \in acc.t.accepted : a.seq # item.seq
  PROVE  LET u == ClassifyItem(p, acc, item)
         IN  /\ Walking(u) /\ u.t.era = acc.t.era /\ u.t.eraPos = acc.t.eraPos
             /\ u.t.buf = acc.t.buf
             /\ u.t.accepted = acc.t.accepted \cup {[seq |-> item.seq, body |-> item.body]}
             /\ TruthOn(p, u.v, mine \ {Frame(item)}, other)
<1> DEFINE t   == Classify(acc.t, {item})
           w   == OnFrame(p, acc.v, t, item)
           led == acc.led \/ (p # "snapshot" /\ NewEra(acc.v, t.eraPos, t.era))
           u   == ClassifyItem(p, acc, item)
           a   == [seq |-> item.seq, body |-> item.body]
<1>1. /\ Walking(u) /\ u.t.era = acc.t.era /\ u.t.eraPos = acc.t.eraPos
      /\ u.t.buf = acc.t.buf
  BY ItemKeepsTypes
<1>2. FreshOf(acc.t, {item}) = {item}
  BY WholeFields DEF FreshOf, SeqsOf
<1>3. /\ TrackerTyped(t) /\ t.era = acc.t.era /\ t.eraPos = acc.t.eraPos
      /\ t.accepted = acc.t.accepted \cup {a}
  <2>1. TrackerTyped(t) /\ t.era = acc.t.era /\ t.eraPos = acc.t.eraPos
    BY ClassifiedTyped DEF Walking
  <2> DEFINE F == FreshOf(acc.t, {item})
             new == {[seq |-> f.seq, body |-> f.body] : f \in F}
  <2>2. new = {a}
    BY <1>2
  <2>3. t = [acc.t EXCEPT !.lastSeq  = HighestOf(acc.t.lastSeq, F),
                          !.first    = IF acc.t.lastSeq = NoSeq /\ F # {} THEN LowestOf(F) ELSE @,
                          !.accepted = @ \cup new,
                          !.dirty    = @ \/ HasGap(acc.t, F)]
    BY DEF Classify
  <2> HIDE DEF new, F, t
  <2>4. t.accepted = acc.t.accepted \cup new
    BY <2>3 DEF Walking, TrackerTyped, TrackerFields
  <2> QED
    BY <2>1, <2>2, <2>4 DEF t
<1>4. u = [t |-> t, v |-> w, led |-> led]
  BY <1>2, WholeFields DEF ClassifyItem
<1>5. TruthOn(p, w, mine \ {Frame(item)}, other)
  <2> HIDE DEF t
  <2>1. StateTyped(acc.v) /\ t.eraPos \in Nat /\ t.era = Era0
    BY <1>3 DEF Walking, TrackerTyped
  <2> QED
    BY <2>1, FrameIsTrue
<1> HIDE DEF t, w, led, a
<1>6. u.t = t /\ u.v = w
  BY <1>4
<1> HIDE DEF u
<1> QED
  BY <1>1, <1>3, <1>5, <1>6 DEF u, a

(* All the items of a batch, which come before whatever else is under way. *)
LEMMA WalkIsTrue ==
  ASSUME PubTyped, Captured, NEW p \in {"mktdata", "snapshot"},
         NEW acc, Walking(acc), NEW mine, NEW other, TruthOn(p, acc.v, mine, other),
         NEW S, S # {} => acc.t.era = Era0,
         \A i \in S : /\ Whole(i) /\ i.seq \in Nat /\ Frame(i) \in mine
                      /\ MessagesTyped(p, i.body.msgs)
                      /\ \A a \in acc.t.accepted : a.seq \in Nat /\ a.seq < i.seq
                      /\ \A y \in mine : y.seq <= i.seq => \E j \in S : y = Frame(j),
         \A i, j \in S : i.seq = j.seq => i = j
  PROVE  \E M : TruthOn(p, Walk(p, acc, S).v, M, other)
<1>1. ASSUME NEW i \in S, NEW j \in S
      PROVE  /\ Place(i) \in Nat
             /\ Place(i) <= Place(j) => i.seq <= j.seq
             /\ Place(i) = Place(j) => i = j
  <2>1. /\ i.copy = 0 /\ j.copy = 0 /\ i.seq \in Nat /\ j.seq \in Nat
    BY WholeFields
  <2> DEFINE a == i.seq * (W + 1)
             b == j.seq * (W + 1)
  <2>2. a \in Nat /\ b \in Nat /\ (a <= b => i.seq <= j.seq) /\ (b <= a => j.seq <= i.seq)
    BY <2>1, PlaceOrder
  <2>3. Place(i) = a + 0 /\ Place(j) = b + 0
    BY <2>1 DEF Place
  <2> HIDE DEF a, b
  <2>4. Place(i) = a /\ Place(j) = b
    BY <2>2, <2>3
  <2>5. Place(i) = Place(j) => i.seq = j.seq
    BY <2>1, <2>2, <2>4
  <2> QED
    BY <2>2, <2>4, <2>5
<1> DEFINE Done(n) == {Frame(j) : j \in {i \in S : Place(i) < n}}
           Good(u, n) == /\ Walking(u) /\ (S # {} => u.t.era = Era0)
                         /\ \A i \in S : n <= Place(i) =>
                              \A a \in u.t.accepted : a.seq \in Nat /\ a.seq < i.seq
                         /\ TruthOn(p, u.v, mine \ Done(n), other)
<1>2. PICK f : /\ Walk(p, acc, S) = f[LastPlace] /\ f[-1] = acc
               /\ \A n \in 0 .. LastPlace : f[n] = WalkStep(p, f[n - 1], S, n)
  BY WalkWalks
<1> DEFINE T == {n \in 0 .. LastPlace + 1 : Good(f[n - 1], n)}
<1>3. 0 \in T
  <2>1. Done(0) = {}
    BY <1>1
  <2>2. mine \ Done(0) = mine
    BY <2>1
  <2> HIDE DEF Done
  <2>3. 0 - 1 = -1 /\ 0 \in 0 .. LastPlace + 1
    BY LastPlaceNat
  <2>4. Good(acc, 0)
    BY <2>2
  <2> HIDE DEF Good
  <2> QED
    BY <1>2, <2>3, <2>4
<1>4. ASSUME NEW k \in 0 .. LastPlace, NEW b, Good(b, k)
      PROVE  Good(WalkStep(p, b, S, k), k + 1)
  <2>1. k \in Nat
    BY LastPlaceNat
  <2>2. CASE At(S, k) = {}
    <3>1. \A i \in S : Place(i) # k
      BY <2>2 DEF At
    <3>2. Done(k + 1) = Done(k)
      BY <1>1, <2>1, <3>1
    <3> HIDE DEF Done
    <3>3. \A i \in S : k + 1 <= Place(i) => k <= Place(i)
      BY <1>1, <2>1
    <3>4. Good(b, k + 1)
      BY <1>4, <3>2, <3>3
    <3> QED
      BY <2>2, <3>4 DEF WalkStep
  <2>3. CASE At(S, k) # {}
    <3> DEFINE item == CHOOSE i \in At(S, k) : TRUE
               u    == ClassifyItem(p, b, item)
    <3>1. item \in S /\ Place(item) = k
      BY <2>3 DEF At
    <3>2. WalkStep(p, b, S, k) = u
      BY <2>3 DEF WalkStep
    <3> HIDE DEF item
    <3>3. /\ Whole(item) /\ item.seq \in Nat /\ Frame(item) \in mine /\ S # {}
          /\ MessagesTyped(p, item.body.msgs)
      BY <3>1
    <3>4. \A y \in mine \ Done(k) : y.seq \in Nat
      BY <1>4 DEF TruthOn, Truth, DeltasOK, GroupsOK, SeriesOK
    <3>5. First(Frame(item), mine \ Done(k))
      <4>1. Frame(item) \notin Done(k)
        <5>1. SUFFICES ASSUME NEW j \in S, Place(j) < k, Frame(item) = Frame(j) PROVE FALSE
          OBVIOUS
        <5>2. item.seq = j.seq
          BY <5>1 DEF Frame
        <5> QED
          BY <1>1, <2>1, <3>1, <5>1, <5>2
      <4>2. ASSUME NEW y \in mine \ Done(k), y # Frame(item), ~(item.seq < y.seq) PROVE FALSE
        <5>1. y.seq <= item.seq
          BY <3>3, <3>4, <4>2
        <5>2. PICK j \in S : y = Frame(j)
          BY <3>1, <5>1
        <5>3. ~(Place(j) < k)
          BY <5>2
        <5>4. item.seq <= j.seq /\ j.seq = y.seq
          BY <1>1, <2>1, <3>1, <5>2, <5>3 DEF Frame
        <5>5. j.seq = item.seq
          BY <3>3, <3>4, <5>1, <5>4
        <5> QED
          BY <3>1, <4>2, <5>2, <5>5
      <4>3. Frame(item).seq = item.seq
        BY DEF Frame
      <4> HIDE DEF Done
      <4> QED
        BY <3>3, <4>1, <4>2, <4>3 DEF First
    <3>6. Walking(b) /\ b.t.era = Era0 /\ TruthOn(p, b.v, mine \ Done(k), other)
      BY <1>4, <3>3
    <3>7. \A a \in b.t.accepted : a.seq \in Nat /\ a.seq < item.seq
      BY <1>4, <2>1, <3>1
    <3>8. \A a \in b.t.accepted : a.seq # item.seq
      BY <3>3, <3>7
    <3> HIDE DEF u
    <3>9. /\ Walking(u) /\ u.t.era = b.t.era
          /\ u.t.accepted = b.t.accepted \cup {[seq |-> item.seq, body |-> item.body]}
          /\ TruthOn(p, u.v, (mine \ Done(k)) \ {Frame(item)}, other)
      <4> DEFINE M == mine \ Done(k)
      <4>1. First(Frame(item), M) /\ TruthOn(p, b.v, M, other)
        BY <3>5, <3>6
      <4> HIDE DEF M, Done, Good
      <4>2. LET c == ClassifyItem(p, b, item)
            IN  /\ Walking(c) /\ c.t.era = b.t.era /\ c.t.eraPos = b.t.eraPos
                /\ c.t.buf = b.t.buf
                /\ c.t.accepted = b.t.accepted \cup {[seq |-> item.seq, body |-> item.body]}
                /\ TruthOn(p, c.v, M \ {Frame(item)}, other)
        BY <3>3, <3>6, <3>8, <4>1, ItemIsTrue
      <4> QED
        BY <4>2 DEF u, M
    <3>10. (mine \ Done(k)) \ {Frame(item)} = mine \ Done(k + 1)
      <4>1. \A i \in S : Place(i) < k + 1 <=> (Place(i) < k \/ i = item)
        BY <1>1, <2>1, <3>1
      <4> QED
        BY <3>1, <4>1
    <3>11. ASSUME NEW i \in S, k + 1 <= Place(i), NEW a \in u.t.accepted
           PROVE  a.seq \in Nat /\ a.seq < i.seq
      <4>1. CASE a \in b.t.accepted
        BY <1>1, <1>4, <2>1, <3>11, <4>1
      <4>2. CASE a = [seq |-> item.seq, body |-> item.body]
        <5>1. a.seq = item.seq
          BY <4>2
        <5>2. item.seq <= i.seq /\ i # item
          BY <1>1, <2>1, <3>1, <3>11
        <5> QED
          BY <3>1, <3>3, <5>1, <5>2
      <4> QED
        BY <3>9, <4>1, <4>2
    <3> HIDE DEF Done
    <3>12. Good(u, k + 1)
      BY <3>6, <3>9, <3>10, <3>11
    <3> QED
      BY <3>2, <3>12
  <2> QED
    BY <2>2, <2>3
<1> HIDE DEF Good
<1>5. ASSUME NEW n \in 1 .. LastPlace + 1, n - 1 \in T
      PROVE  n \in T
  <2>1. n - 1 \in 0 .. LastPlace /\ (n - 1) + 1 = n /\ n \in 0 .. LastPlace + 1
    BY LastPlaceNat
  <2>2. Good(f[(n - 1) - 1], n - 1) /\ f[n - 1] = WalkStep(p, f[(n - 1) - 1], S, n - 1)
    BY <1>2, <1>5, <2>1
  <2>3. Good(f[n - 1], (n - 1) + 1)
    BY <1>4, <2>1, <2>2
  <2> QED
    BY <2>1, <2>3
<1> HIDE DEF T
<1>6. LastPlace + 1 \in T
  BY <1>3, <1>5, LastPlaceNat, UpTo
<1>7. (LastPlace + 1) - 1 = LastPlace
  BY LastPlaceNat
<1>8. Good(f[LastPlace], LastPlace + 1)
  BY <1>6, <1>7 DEF T
<1> QED
  BY <1>2, <1>8 DEF Good

LEMMA WalkNothing ==
  ASSUME NEW p, NEW acc
  PROVE  Walk(p, acc, {}) = acc
<1>1. PICK f : /\ Walk(p, acc, {}) = f[LastPlace] /\ f[-1] = acc
               /\ \A n \in 0 .. LastPlace : f[n] = WalkStep(p, f[n - 1], {}, n)
  BY WalkWalks
<1>2. \A n \in 0 .. LastPlace : f[n] = f[n - 1]
  BY <1>1 DEF WalkStep, At
<1> DEFINE T == {n \in 0 .. LastPlace + 1 : f[n - 1] = acc}
<1>3. 0 \in T
  <2>1. 0 - 1 = -1 /\ 0 \in 0 .. LastPlace + 1
    BY LastPlaceNat
  <2> QED
    BY <1>1, <2>1
<1>4. ASSUME NEW n \in 1 .. LastPlace + 1, n - 1 \in T
      PROVE  n \in T
  <2>1. n - 1 \in 0 .. LastPlace /\ n \in 0 .. LastPlace + 1
    BY LastPlaceNat
  <2> QED
    BY <1>2, <1>4, <2>1
<1> HIDE DEF T
<1>5. LastPlace + 1 \in T
  BY <1>3, <1>4, LastPlaceNat, UpTo
<1>6. (LastPlace + 1) - 1 = LastPlace
  BY LastPlaceNat
<1> QED
  BY <1>1, <1>5, <1>6 DEF T

-----------------------------------------------------------------------------
(* What was true stays true while the publisher goes on: histories grow at *)
(* their end.                                                              *)
Extends ==
  \A i \in Instruments :
    /\ Len(books[i]) <= Len(books'[i])
    /\ \A n \in 1 .. Len(books[i]) : books'[i][n] = books[i][n]
    /\ Len(groups[i]) <= Len(groups'[i])
    /\ \A n \in 1 .. Len(groups[i]) : groups'[i][n] = groups[i][n]

LEMMA HistoryGrows ==
  ASSUME PubTyped, PubTyped', Captured, Extends
  PROVE  /\ \A in, i : i \in Instruments /\ InstrTyped(in) /\ InstrTrue(in, i) => InstrTrue(in, i)'
         /\ \A m : TrueDelta(m) => TrueDelta(m)'
         /\ \A x, i, id : TrueGroup(x, i, id) => TrueGroup(x, i, id)'
         /\ \A w, S : GroupsOK(w, S) => GroupsOK(w, S)'
<1>1. ASSUME NEW i \in Instruments
      PROVE  /\ Len(books[i]) \in Nat /\ Len(books'[i]) \in Nat /\ Len(books[i]) <= Len(books'[i])
             /\ Len(groups[i]) \in Nat /\ Len(groups'[i]) \in Nat
             /\ Len(groups[i]) <= Len(groups'[i])
             /\ DOMAIN groups[i] = 1 .. Len(groups[i]) /\ DOMAIN groups'[i] = 1 .. Len(groups'[i])
             /\ SeqNow(i) = Len(books[i]) - 1 /\ SeqNow(i)' = Len(books'[i]) - 1
  <2>1. books[i] \in Seq(Ladder) /\ groups[i] \in Seq(Nat)
    BY DEF PubTyped
  <2>2. books'[i] \in Seq(Ladder) /\ groups'[i] \in Seq(Nat)
    BY DEF PubTyped
  <2> QED
    BY <2>1, <2>2, LenProperties DEF Extends, SeqNow
<1>2. ASSUME NEW i \in Instruments, NEW s \in 0 .. Len(books[i]) - 1
      PROVE  books'[i][s + 1] = books[i][s + 1]
  <2>1. s + 1 \in 1 .. Len(books[i])
    BY <1>1
  <2> QED
    BY <2>1 DEF Extends
<1>3. ASSUME NEW i \in Instruments, NEW s \in 1 .. Len(books[i]) - 1, NEW levels, NEW qty,
             Changes(books[i], s, levels, qty)
      PROVE  Changes(books'[i], s, levels, qty)
  <2>1. s \in 0 .. Len(books[i]) - 1 /\ s - 1 \in 0 .. Len(books[i]) - 1 /\ (s - 1) + 1 = s
    BY <1>1
  <2>2. books'[i][s + 1] = books[i][s + 1] /\ books'[i][s] = books[i][s]
    BY <1>2, <2>1
  <2> QED
    BY <1>3, <2>2 DEF Changes
<1>4. ASSUME NEW i, NEW id, IsGroup(i, id)
      PROVE  /\ IsGroup(i, id)' /\ groups'[i][id] = groups[i][id] /\ Shown(i, id)' = Shown(i, id)
  <2>1. i \in Instruments /\ id \in DOMAIN groups[i]
    BY <1>4 DEF IsGroup
  <2>2. id \in DOMAIN groups'[i] /\ groups'[i][id] = groups[i][id]
    BY <1>1, <2>1 DEF Extends
  <2>3. groups[i][id] \in Nat /\ groups[i][id] <= SeqNow(i)
    BY <1>1, <2>1, ElementOfSeq DEF PubTyped, Captured
  <2>4. books'[i][groups[i][id] + 1] = books[i][groups[i][id] + 1]
    <3>1. PICK s : s = groups[i][id]
      OBVIOUS
    <3>2. Len(books[i]) \in Nat /\ SeqNow(i) = Len(books[i]) - 1
      BY <1>1, <2>1
    <3>3. s \in 0 .. Len(books[i]) - 1
      BY <2>3, <3>1, <3>2
    <3>4. books'[i][s + 1] = books[i][s + 1]
      BY <1>2, <2>1, <3>3
    <3> QED
      BY <3>1, <3>4, Zenon
  <2> QED
    BY <2>1, <2>2, <2>4 DEF IsGroup, Shown
<1>5. ASSUME NEW in, NEW i \in Instruments, InstrTyped(in), InstrTrue(in, i)
      PROVE  InstrTrue(in, i)'
  <2>1. in.lastSeq \in Nat /\ in.baseK \in Nat /\ in.baseK <= in.lastSeq /\ in.lastSeq <= SeqNow(i)
    BY <1>5 DEF InstrTyped, Instr, InstrTrue
  <2>2. in.lastSeq <= SeqNow(i)'
    BY <1>1, <2>1
  <2>3. books'[i][in.baseK + 1] = books[i][in.baseK + 1]
    BY <1>1, <1>2, <2>1
  <2>4. \A e \in in.journal : /\ e.seq \in in.baseK + 1 .. in.lastSeq
                              /\ Changes(books'[i], e.seq, e.levels, e.qty)
    <3> SUFFICES ASSUME NEW e \in in.journal
                 PROVE  /\ e.seq \in in.baseK + 1 .. in.lastSeq
                        /\ Changes(books'[i], e.seq, e.levels, e.qty)
      OBVIOUS
    <3>1. /\ e.seq \in in.baseK + 1 .. in.lastSeq
          /\ Changes(books[i], e.seq, e.levels, e.qty)
      BY <1>5 DEF InstrTrue
    <3>2. e.seq \in 1 .. Len(books[i]) - 1
      BY <1>1, <2>1, <3>1
    <3> QED
      BY <1>3, <3>1, <3>2
  <2> QED
    BY <1>5, <2>2, <2>3, <2>4 DEF InstrTrue
<1>6. ASSUME NEW m, TrueDelta(m)
      PROVE  TrueDelta(m)'
  <2>1. m.instr \in Instruments /\ m.seq \in 1 .. SeqNow(m.instr)
    BY <1>6 DEF TrueDelta
  <2>2. m.seq \in 1 .. Len(books[m.instr]) - 1 /\ m.seq \in 1 .. SeqNow(m.instr)'
    BY <1>1, <2>1
  <2>3. Changes(books'[m.instr], m.seq, Touched(m), Leaves(m))
    BY <1>3, <1>6, <2>1, <2>2 DEF TrueDelta
  <2> QED
    BY <1>6, <2>2, <2>3 DEF TrueDelta
<1>7. ASSUME NEW x, NEW i, NEW id, TrueGroup(x, i, id)
      PROVE  TrueGroup(x, i, id)'
  <2>1. IsGroup(i, id) /\ Len(x.msgs) >= 1 /\ \A n \in 1 .. Len(x.msgs) : TrueMessage(x.msgs[n], i, id)
    BY <1>7 DEF TrueGroup
  <2>2. \A m : TrueMessage(m, i, id) => TrueMessage(m, i, id)'
    BY <1>4, <2>1 DEF TrueMessage
  <2> QED
    BY <1>4, <2>1, <2>2 DEF TrueGroup
<1>8. ASSUME NEW S, SeriesOK(S), NEW x \in S, NEW i, NEW id, Of(x, i, id)
      PROVE  IsGroup(i, id)
  <2>1. PICK j, k : TrueGroup(x, j, k)
    BY <1>8 DEF SeriesOK
  <2>2. IsGroup(j, k) /\ TrueMessage(x.msgs[1], j, k)
    <3>1. 1 \in 1 .. Len(x.msgs)
      BY <2>1 DEF TrueGroup
    <3> QED
      BY <2>1, <3>1 DEF TrueGroup
  <2> QED
    BY <1>8, <2>2 DEF TrueMessage, Of
<1>9. ASSUME NEW w, NEW S, GroupsOK(w, S)
      PROVE  GroupsOK(w, S)'
  <2>1. SeriesOK(S)
    BY <1>9 DEF GroupsOK
  <2>2. SeriesOK(S)'
    <3>1. \A x \in S : x.seq \in Nat /\ \E i, id : TrueGroup(x, i, id)'
      BY <1>7, <2>1 DEF SeriesOK
    <3>2. ASSUME NEW x \in S, NEW y \in S, NEW i \in Instruments,
                 NEW a \in DOMAIN groups'[i], NEW b \in DOMAIN groups'[i],
                 x.seq < y.seq, Of(x, i, a), Of(y, i, b)
          PROVE  a <= b
      <4>1. a \in DOMAIN groups[i] /\ b \in DOMAIN groups[i]
        BY <1>8, <2>1, <3>2 DEF IsGroup
      <4> QED
        BY <2>1, <3>2, <4>1 DEF SeriesOK
    <3> QED
      BY <2>1, <3>1, <3>2 DEF SeriesOK
  <2>3. ASSUME NEW x \in S, NEW i \in Instruments, NEW id \in DOMAIN groups'[i], Of(x, i, id)
        PROVE  w.instr[i].baseK <= groups'[i][id]
    <3>1. IsGroup(i, id)
      BY <1>8, <2>1, <2>3
    <3> QED
      BY <1>4, <1>9, <2>3, <3>1 DEF GroupsOK, IsGroup
  <2>4. OpenOK(w.open, S)'
    <3> DEFINE o == w.open
    <3>1. OpenOK(o, S)
      BY <1>9 DEF GroupsOK
    <3> HIDE DEF o
    <3>2. CASE o # NoGroup
      <4>1. IsGroup(o.instr, o.id)
        BY <3>1, <3>2 DEF OpenOK
      <4>2. Pure(o) => Pure(o)'
        BY <1>4, <4>1 DEF Pure
      <4> QED
        BY <1>4, <3>1, <4>1, <4>2 DEF OpenOK, o
    <3> QED
      BY <3>2 DEF OpenOK, o
  <2> QED
    BY <2>2, <2>3, <2>4 DEF GroupsOK
<1> QED
  BY <1>5, <1>6, <1>7, <1>9

-----------------------------------------------------------------------------
(* The publisher's steps in a run of one era.                              *)
LEMMA InEra0 ==
  ASSUME PubTyped, Steady(plan)
  PROVE  /\ feedEra = 0
         /\ \A q, x : FrameFrom(q, x) => x.rc = Era0 /\ x.seq \in Nat /\ x.seq < sent[q]
<1>1. feedEra = 0
  BY DEF PubTyped, Steady
<1>2. ASSUME NEW q, NEW x, FrameFrom(q, x)
      PROVE  x.rc = Era0 /\ x.seq \in Nat /\ x.seq < sent[q]
  <2>1. PICK e \in 0 .. feedEra : x.rc = ResetCountOf(e) /\ (e = feedEra => x.seq < sent[q])
    BY <1>2 DEF FrameFrom, Numbered
  <2>2. e = 0
    BY <1>1, <2>1
  <2> QED
    BY <1>1, <1>2, <2>1, <2>2 DEF FrameFrom, Numbered, Era0
<1> QED
  BY <1>1, <1>2

LEMMA PendingBefore ==
  ASSUME PubTyped, FlowInv, Steady(plan), NEW q \in Ports, NEW x \in Pending(q)
  PROVE  x.seq \in Nat /\ x.seq < sent[q]
<1>1. CASE \E i \in pt[q].buf : x = Frame(i)
  <2>1. PICK i \in pt[q].buf : x = Frame(i)
    BY <1>1
  <2>2. FrameFrom(q, i)
    BY DEF FlowInv, BufferInv
  <2> QED
    BY <2>1, <2>2, InEra0 DEF Frame
<1>2. CASE \E n \in DOMAIN net : net[n].port = q /\ x = Frame(net[n])
  <2>1. PICK n \in DOMAIN net : net[n].port = q /\ x = Frame(net[n])
    BY <1>2
  <2>2. FrameFrom(q, net[n])
    BY <2>1 DEF FlowInv, NetInv
  <2> QED
    BY <2>1, <2>2, InEra0 DEF Frame
<1> QED
  BY <1>1, <1>2 DEF Pending

LEMMA PutGrows ==
  ASSUME FlowInv, OneEra, NEW p \in {"mktdata", "snapshot"}, NEW msgs, Put(p, msgs), UNCHANGED vars
  PROVE  /\ \A q : Pending(q)' = IF q = p THEN Pending(q) \cup {[seq |-> sent[p], msgs |-> msgs]}
                                          ELSE Pending(q)
         /\ sent' = [sent EXCEPT ![p] = sent[p] + 1] /\ sent[p] \in Nat
         /\ OneEra'
<1>1. PICK f : /\ net' = Append(net, f) /\ f.port = p
               /\ f.seq = sent[p] /\ f.body.msgs = msgs
  BY DEF Put
<1> DEFINE S == {net[n] : n \in DOMAIN net}
           k == Len(net) + 1
<1>2. sent \in [Ports -> Nat] /\ net \in Seq(S) /\ p \in Ports
  BY PlansAssumption, MbpPlansAssumption DEF FlowInv, NetInv
<1>3. /\ DOMAIN net' = DOMAIN net \cup {k} /\ k \notin DOMAIN net
      /\ net'[k] = f /\ \A n \in DOMAIN net : net'[n] = net[n]
  <2>1. net \in Seq(S \cup {f}) /\ f \in S \cup {f}
    BY <1>2
  <2> HIDE DEF S
  <2>2. /\ DOMAIN net = 1 .. Len(net) /\ Len(net) \in Nat /\ DOMAIN net' = 1 .. k
        /\ net'[k] = f /\ \A n \in DOMAIN net : net'[n] = net[n]
    BY <1>1, <1>2, <2>1, LenProperties, AppendProperties
  <2> QED
    BY <2>2
<1>4. sent' = [sent EXCEPT ![p] = sent[p] + 1] /\ pt' = pt /\ pos' = pos
  BY DEF Put, vars
<1> HIDE DEF k, S
<1>5. \A q : Pending(q)' = IF q = p THEN Pending(q) \cup {[seq |-> sent[p], msgs |-> msgs]}
                                    ELSE Pending(q)
  <2> SUFFICES ASSUME NEW q
               PROVE  Pending(q)' = IF q = p THEN Pending(q) \cup {[seq |-> sent[p], msgs |-> msgs]}
                                             ELSE Pending(q)
    OBVIOUS
  <2>1. {m \in DOMAIN net' : net'[m].port = q} =
          {m \in DOMAIN net : net[m].port = q} \cup (IF q = p THEN {k} ELSE {})
    BY <1>1, <1>3
  <2>2. Frame(net'[k]) = [seq |-> sent[p], msgs |-> msgs]
    BY <1>1, <1>3 DEF Frame
  <2>3. \A m \in DOMAIN net : Frame(net'[m]) = Frame(net[m])
    BY <1>3
  <2>4. {Frame(net'[n]) : n \in {m \in DOMAIN net' : net'[m].port = q}} =
          {Frame(net[n]) : n \in {m \in DOMAIN net : net[m].port = q}}
            \cup (IF q = p THEN {[seq |-> sent[p], msgs |-> msgs]} ELSE {})
    BY <2>1, <2>2, <2>3
  <2> QED
    BY <1>4, <2>4 DEF Pending, Frame
<1>6. OneEra'
  <2>1. \A n \in DOMAIN net' : net'[n].port \in {"mktdata", "snapshot"}
    BY <1>1, <1>3 DEF OneEra
  <2>2. ASSUME NEW q \in Ports, NEW a \in pt[q].accepted
        PROVE  /\ a.seq \in Nat /\ a.seq < sent'[q]
               /\ \A n \in DOMAIN net' : net'[n].port = q => a.seq < net'[n].seq
    <3>1. /\ a.seq \in Nat /\ a.seq < sent[q]
          /\ \A n \in DOMAIN net : net[n].port = q => a.seq < net[n].seq
      BY DEF OneEra
    <3>2. a.seq < sent'[q]
      BY <1>2, <1>4, <3>1
    <3> QED
      BY <1>1, <1>3, <3>1, <3>2
  <2> QED
    BY <1>4, <2>1, <2>2 DEF OneEra
<1>7. sent[p] \in Nat
  BY <1>2
<1> QED
  BY <1>4, <1>5, <1>6, <1>7

(* A delta: the frame sent now tells the next point of its instrument. *)
LEMMA DeltaIsSent ==
  ASSUME MbpInv, SteadyInv, Steady(plan), NEW i \in Instruments, NEW m, NEW after,
         m.type \in {"level", "clear"}, ~MalformedClear(m), m.instr = i, m.seq = SeqNow(i) + 1,
         \A l \in Levels : after[l] = IF l \in Touched(m) THEN Leaves(m) ELSE BookNow(i)[l],
         Delta(i, m, after), PubTyped'
  PROVE  SteadyInv'
<1>1. /\ running /\ Put("mktdata", <<m>>)
      /\ books' = [books EXCEPT ![i] = Append(@, after)]
      /\ UNCHANGED vars
      /\ UNCHANGED <<groups, rest, plan, v, running>>
  BY DEF Delta, PublisherOnly
<1>2. PubTyped /\ FlowInv /\ OneEra /\ Captured /\ Believed(v) /\ StateTyped(v)
      /\ Truth(v, Pending("mktdata"), Pending("snapshot") \cup Remains)
  BY <1>1 DEF MbpInv, SteadyInv
<1>3. PICK D, S, x, w : /\ D = Pending("mktdata") /\ S = Pending("snapshot") \cup Remains
                        /\ x = [seq |-> sent["mktdata"], msgs |-> <<m>>] /\ w = v
  OBVIOUS
<1>4. /\ Pending("mktdata")' = D \cup {x} /\ Pending("snapshot")' = Pending("snapshot")
      /\ sent' = [sent EXCEPT !["mktdata"] = sent["mktdata"] + 1] /\ sent["mktdata"] \in Nat
      /\ OneEra'
  BY <1>1, <1>2, <1>3, PutGrows
<1>5. (Pending("snapshot") \cup Remains)' = S
  <2>1. sent \in [Ports -> Nat] /\ "snapshot" \in Ports
    BY <1>2, MbpPlansAssumption DEF FlowInv, NetInv
  <2>2. Remains' = Remains
    BY <1>1, <1>4, <2>1 DEF Remains
  <2> QED
    BY <1>4, <1>3, <2>2
<1>6. /\ DOMAIN books' = Instruments /\ DOMAIN books = Instruments
      /\ \A j \in Instruments : books[j] \in Seq(Ladder) /\ Len(books[j]) \in Nat /\ Len(books[j]) >= 1
      /\ \A j \in Instruments : j # i => books'[j] = books[j]
      /\ Len(books'[i]) = Len(books[i]) + 1 /\ books'[i][Len(books[i]) + 1] = after
      /\ \A n \in 1 .. Len(books[i]) : books'[i][n] = books[i][n]
  <2>1. /\ DOMAIN books' = Instruments /\ DOMAIN books = Instruments
        /\ \A j \in Instruments : books[j] \in Seq(Ladder) /\ Len(books[j]) \in Nat /\ Len(books[j]) >= 1
        /\ \A j \in Instruments : j # i => books'[j] = books[j]
        /\ books'[i] = Append(books[i], after)
    BY <1>1, <1>2, LenProperties DEF PubTyped
  <2>2. books[i] \in Seq(Ladder \cup {after}) /\ after \in Ladder \cup {after}
    BY <2>1
  <2> QED
    BY <2>1, <2>2, AppendProperties
<1>7. Extends
  BY <1>1, <1>2, <1>6, LenProperties DEF Extends, PubTyped
<1>8. /\ \A in, j : j \in Instruments /\ InstrTyped(in) /\ InstrTrue(in, j) => InstrTrue(in, j)'
      /\ \A n : TrueDelta(n) => TrueDelta(n)'
      /\ \A a, T : GroupsOK(a, T) => GroupsOK(a, T)'
  BY <1>2, <1>7, HistoryGrows
<1>9. \A j \in Instruments : SeqNow(j)' = IF j = i THEN SeqNow(i) + 1 ELSE SeqNow(j)
  BY <1>6 DEF SeqNow
<1>10. \A j \in Instruments : SeqNow(j) \in Nat
  BY <1>2, BookTyped
<1>11. Captured'
  <2>1. \A j \in Instruments : \A b \in DOMAIN groups[j] : groups[j][b] \in Nat
    BY <1>2, ElementOfSeq DEF PubTyped
  <2>2. \A j \in Instruments : \A b \in DOMAIN groups[j] :
          groups[j][b] <= SeqNow(j)'
    BY <1>2, <1>9, <1>10, <2>1 DEF Captured
  <2> QED
    BY <1>1, <1>2, <2>2 DEF Captured
<1>12. TrueDelta(m)'
  <2>1. m.seq = SeqNow(i) + 1 /\ m.seq \in 1 .. SeqNow(i)'
    BY <1>9, <1>10
  <2>2. m.seq + 1 = Len(books[i]) + 1 /\ m.seq = Len(books[i]) /\ books'[i][Len(books[i])] = BookNow(i)
    <3>1. m.seq = Len(books[i])
      BY <1>6, <2>1 DEF SeqNow
    <3> QED
      BY <1>6, <3>1 DEF BookNow, Last
  <2>3. Changes(books'[i], m.seq, Touched(m), Leaves(m))
    BY <1>6, <2>2 DEF Changes
  <2> QED
    BY <2>1, <2>3 DEF TrueDelta
<1>13. \A j, s : Tells(x, j, s) <=> j = i /\ s = SeqNow(i) + 1
  BY <1>3 DEF Tells
<1>14. \A y \in D : y.seq \in Nat /\ y.seq < x.seq
  BY <1>2, <1>3, PendingBefore, PlansAssumption
<1>15. x.seq \in Nat /\ Len(x.msgs) = 1 /\ x.msgs[1] = m
  BY <1>4, <1>3
<1>16. DeltasOK(w, D)
  BY <1>2, <1>3 DEF Truth
<1>17. DeltasOK(w, D \cup {x})'
  <2>1. ASSUME NEW y \in D \cup {x}
        PROVE  y.seq \in Nat /\ (Len(y.msgs) = 0 \/ (Len(y.msgs) = 1 /\ TrueDelta(y.msgs[1])'))
    BY <1>8, <1>12, <1>15, <1>16 DEF DeltasOK
  <2>2. ASSUME NEW y \in D \cup {x}, NEW j \in Instruments, NEW s \in Nat, Tells(y, j, s)
        PROVE  Reached(w.instr[j], j, s - 1, {z \in D \cup {x} : z.seq < y.seq})
    <3>1. CASE y \in D
      <4>1. Reached(w.instr[j], j, s - 1, {z \in D : z.seq < y.seq})
        BY <1>16, <2>2, <3>1 DEF DeltasOK
      <4> QED
        BY <4>1 DEF Reached
    <3>2. CASE y = x
      <4>1. j = i /\ s - 1 = SeqNow(i)
        BY <1>10, <1>13, <2>2, <3>2
      <4>2. Reached(w.instr[j], j, s - 1, D)
        BY <1>16, <4>1 DEF DeltasOK
      <4>3. D \subseteq {z \in D \cup {x} : z.seq < y.seq}
        BY <1>14, <3>2
      <4> QED
        BY <4>2, <4>3 DEF Reached
    <3> QED
      BY <3>1, <3>2
  <2>3. ASSUME NEW j \in Instruments
        PROVE  Reached(w.instr[j], j, SeqNow(j)', D \cup {x})
    <3>1. CASE j = i
      BY <1>9, <1>13, <3>1 DEF Reached
    <3>2. CASE j # i
      <4>1. Reached(w.instr[j], j, SeqNow(j), D)
        BY <1>16 DEF DeltasOK
      <4> QED
        BY <1>9, <3>2, <4>1 DEF Reached
    <3> QED
      BY <3>1, <3>2
  <2> QED
    BY <2>1, <2>2, <2>3 DEF DeltasOK
<1>18. GroupsOK(w, S)'
  <2>1. GroupsOK(w, S)
    BY <1>2, <1>3 DEF Truth
  <2> QED
    BY <1>8, <2>1
<1>19. Believed(w)'
  <2>1. Believed(w) /\ StateTyped(w)
    BY <1>2, <1>3
  <2> QED
    BY <1>8, <2>1 DEF Believed, StateTyped
<1>20. Truth(w, D \cup {x}, S)'
  BY <1>17, <1>18, <1>19 DEF Truth
<1>21. v' = w
  BY <1>1, <1>3
<1>22. Believed(v)'
  BY <1>19, <1>21
<1>23. Truth(v, Pending("mktdata"), Pending("snapshot") \cup Remains)'
  BY <1>4, <1>5, <1>20, <1>3, <1>21
<1> QED
  BY <1>4, <1>11, <1>22, <1>23 DEF SteadyInv

LEMMA LevelIsSent ==
  ASSUME MbpInv, SteadyInv, Steady(plan), NEW i \in Instruments, NEW l \in Levels,
         NEW q \in 0 .. MaxQty, SendLevel(i, l, q), PubTyped'
  PROVE  SteadyInv'
<1> DEFINE m == [type |-> "level", instr |-> i, seq |-> SeqNow(i) + 1, key |-> l, qty |-> q]
           after == [BookNow(i) EXCEPT ![l] = q]
<1>1. Delta(i, m, after)
  BY DEF SendLevel
<1>2. \A k \in Levels : after[k] = IF k \in Touched(m) THEN Leaves(m) ELSE BookNow(i)[k]
  <2>1. BookNow(i) \in Ladder
    BY BookTyped DEF MbpInv
  <2>2. Touched(m) = {l} /\ Leaves(m) = q
    BY DEF Touched, Leaves
  <2> QED
    BY <2>1, <2>2 DEF Ladder
<1>3. /\ m.type \in {"level", "clear"} /\ m.instr = i /\ m.seq = SeqNow(i) + 1
      /\ ~MalformedClear(m)
  BY DEF MalformedClear
<1> HIDE DEF m, after
<1> QED
  BY <1>1, <1>2, <1>3, DeltaIsSent

LEMMA ClearIsSent ==
  ASSUME MbpInv, SteadyInv, Steady(plan), NEW i \in Instruments, NEW l \in Levels,
         SendClear(i, l), PubTyped'
  PROVE  SteadyInv'
<1> DEFINE Outer(k) == k.side = l.side /\ IF l.side = "bid" THEN k.price <= l.price
                                                            ELSE k.price >= l.price
           m == [type |-> "clear", instr |-> i, seq |-> SeqNow(i) + 1,
                 side |-> l.side, fromPrice |-> TRUE, price |-> l.price]
           after == [k \in Levels |-> IF Outer(k) THEN 0 ELSE BookNow(i)[k]]
<1>1. Delta(i, m, after)
  BY DEF SendClear
<1>2. /\ m.type = "clear" /\ m.instr = i /\ m.seq = SeqNow(i) + 1
      /\ m.side = l.side /\ m.fromPrice /\ m.price = l.price
  OBVIOUS
<1>3. l.side # "both"
  BY SidesAssumption DEF Levels
<1> HIDE DEF m
<1>4. \A k \in Levels : k \in Touched(m) <=> Outer(k)
  <2>1. Touched(m) = {k \in Levels : k.side = l.side /\
                       IF k.side = "bid" THEN k.price <= l.price ELSE k.price >= l.price}
    BY <1>2, <1>3 DEF Touched, Cleared
  <2> QED
    BY <2>1
<1>5. Leaves(m) = 0
  BY <1>2 DEF Leaves
<1>6. \A k \in Levels : after[k] = IF k \in Touched(m) THEN Leaves(m) ELSE BookNow(i)[k]
  BY <1>4, <1>5
<1>7. /\ m.type \in {"level", "clear"} /\ m.instr = i /\ m.seq = SeqNow(i) + 1
      /\ ~MalformedClear(m)
  BY <1>2, <1>3 DEF MalformedClear
<1> HIDE DEF after
<1> QED
  BY <1>1, <1>6, <1>7, DeltaIsSent

LEMMA BooksKept ==
  ASSUME books' = books
  PROVE  /\ \A w, D : DeltasOK(w, D) => DeltasOK(w, D)'
         /\ \A w : Believed(w) => Believed(w)'
<1>1. /\ \A m : TrueDelta(m) => TrueDelta(m)'
      /\ \A i : SeqNow(i)' = SeqNow(i)
      /\ \A in, i : InstrTrue(in, i) => InstrTrue(in, i)'
  BY DEF TrueDelta, SeqNow, InstrTrue
<1>2. \A w, D : DeltasOK(w, D) => DeltasOK(w, D)'
  BY <1>1 DEF DeltasOK
<1>3. \A w : Believed(w) => Believed(w)'
  BY <1>1 DEF Believed
<1> QED
  BY <1>2, <1>3

LEMMA GroupsKept ==
  ASSUME books' = books, groups' = groups
  PROVE  \A w, S : GroupsOK(w, S) => GroupsOK(w, S)'
<1>1. /\ \A i, id : Shown(i, id)' = Shown(i, id)
      /\ \A i, id : IsGroup(i, id)' = IsGroup(i, id)
  BY DEF Shown, IsGroup
<1>2. /\ \A x, i, id : TrueGroup(x, i, id) => TrueGroup(x, i, id)'
      /\ \A o : Pure(o) => Pure(o)'
  <2>1. \A m, i, id : TrueMessage(m, i, id) => TrueMessage(m, i, id)'
    BY <1>1 DEF TrueMessage
  <2> QED
    BY <1>1, <2>1 DEF TrueGroup, Pure
<1>3. \A S : SeriesOK(S) => SeriesOK(S)'
  BY <1>2 DEF SeriesOK
<1>4. \A o, S : OpenOK(o, S) => OpenOK(o, S)'
  BY <1>1, <1>2 DEF OpenOK
<1> QED
  BY <1>3, <1>4 DEF GroupsOK

LEMMA HeartbeatIsSent ==
  ASSUME MbpInv, SteadyInv, Steady(plan), Heartbeat
  PROVE  SteadyInv'
<1>1. /\ running /\ Put("mktdata", << >>) /\ UNCHANGED vars
      /\ UNCHANGED <<books, groups, rest, plan, v, running>>
  BY DEF Heartbeat, PublisherOnly
<1>2. PubTyped /\ FlowInv /\ OneEra /\ Captured /\ Believed(v)
      /\ Truth(v, Pending("mktdata"), Pending("snapshot") \cup Remains)
  BY <1>1 DEF MbpInv, SteadyInv
<1>3. PICK D, S, x : /\ D = Pending("mktdata") /\ S = Pending("snapshot") \cup Remains
                     /\ x = [seq |-> sent["mktdata"], msgs |-> << >>]
  OBVIOUS
<1>4. /\ Pending("mktdata")' = D \cup {x} /\ Pending("snapshot")' = Pending("snapshot")
      /\ sent' = [sent EXCEPT !["mktdata"] = sent["mktdata"] + 1] /\ sent["mktdata"] \in Nat
      /\ OneEra'
  BY <1>1, <1>2, <1>3, PutGrows
<1>5. (Pending("snapshot") \cup Remains)' = S
  <2>1. sent \in [Ports -> Nat] /\ "snapshot" \in Ports
    BY <1>2, MbpPlansAssumption DEF FlowInv, NetInv
  <2>2. Remains' = Remains
    BY <1>1, <1>4, <2>1 DEF Remains
  <2> QED
    BY <1>3, <1>4, <2>2
<1>6. x.seq \in Nat /\ Len(x.msgs) = 0 /\ \A i, s : ~Tells(x, i, s)
  BY <1>3, <1>4 DEF Tells
<1>7. DeltasOK(v, D \cup {x})
  <2>1. DeltasOK(v, D)
    BY <1>2, <1>3 DEF Truth
  <2>2. \A y \in D \cup {x} :
          y.seq \in Nat /\ (Len(y.msgs) = 0 \/ (Len(y.msgs) = 1 /\ TrueDelta(y.msgs[1])))
    BY <1>6, <2>1 DEF DeltasOK
  <2>3. ASSUME NEW y \in D \cup {x}, NEW i \in Instruments, NEW s \in Nat, Tells(y, i, s)
        PROVE  Reached(v.instr[i], i, s - 1, {z \in D \cup {x} : z.seq < y.seq})
    <3>1. Reached(v.instr[i], i, s - 1, {z \in D : z.seq < y.seq})
      BY <1>6, <2>1, <2>3 DEF DeltasOK
    <3> QED
      BY <3>1 DEF Reached
  <2>4. \A i \in Instruments : Reached(v.instr[i], i, SeqNow(i), D \cup {x})
    BY <2>1 DEF DeltasOK, Reached
  <2> QED
    BY <2>2, <2>3, <2>4 DEF DeltasOK
<1>8. Truth(v, D \cup {x}, S)
  BY <1>2, <1>3, <1>7 DEF Truth
<1>9. PICK w : w = v
  OBVIOUS
<1>10. (\A E, T : Truth(w, E, T) => Truth(w, E, T)') /\ (Believed(w) => Believed(w)')
  <2>1. books' = books /\ groups' = groups
    BY <1>1
  <2> QED
    BY <2>1, BooksKept, GroupsKept DEF Truth
<1>11. Truth(w, D \cup {x}, S)' /\ Believed(w)'
  <2>1. Truth(w, D \cup {x}, S) /\ Believed(w)
    BY <1>2, <1>8, <1>9
  <2> QED
    BY <1>10, <2>1
<1>12. v' = w
  BY <1>1, <1>9
<1>13. Believed(v)'
  BY <1>11, <1>12
<1>14. Truth(v, Pending("mktdata"), Pending("snapshot") \cup Remains)'
  BY <1>4, <1>5, <1>11, <1>12
<1>15. Captured'
  BY <1>1, <1>2 DEF Captured, SeqNow
<1> QED
  BY <1>4, <1>13, <1>14, <1>15 DEF SteadyInv

(* The same groups cut into other frames, in the same order. *)
LEMMA Regrouped ==
  ASSUME PubTyped', NEW w, NEW S, GroupsOK(w, S)', NEW T, NEW whole,
         \A x \in T : /\ whole[x] \in S /\ x.seq \in Nat
                      /\ \E i, id : TrueGroup(x, i, id)'
                      /\ \A i, id : Of(x, i, id) <=> Of(whole[x], i, id),
         \A x, y \in T : x.seq <= y.seq => whole[x].seq <= whole[y].seq
  PROVE  GroupsOK(w, T)'
<1>1. SeriesOK(S)'
  BY DEF GroupsOK
<1>2. SeriesOK(T)'
  <2>1. ASSUME NEW x \in T, NEW y \in T, NEW i \in Instruments,
               NEW a \in DOMAIN groups'[i], NEW b \in DOMAIN groups'[i],
               x.seq < y.seq, Of(x, i, a), Of(y, i, b)
        PROVE  a <= b
    <3>1. /\ whole[x] \in S /\ whole[y] \in S /\ Of(whole[x], i, a) /\ Of(whole[y], i, b)
          /\ Of(whole[x], i, b) <=> Of(x, i, b)
      BY <2>1
    <3>2. x.seq <= y.seq
      BY <2>1
    <3>3. whole[x].seq <= whole[y].seq /\ whole[x].seq \in Nat /\ whole[y].seq \in Nat
      BY <1>1, <3>1, <3>2 DEF SeriesOK
    <3>4. CASE whole[x].seq < whole[y].seq
      BY <1>1, <3>1, <3>4 DEF SeriesOK
    <3>5. CASE whole[x].seq = whole[y].seq
      <4>1. whole[x].seq <= whole[y].seq /\ whole[y].seq <= whole[x].seq
        BY <3>3, <3>5
      <4>2. Of(whole[y], i, a)
        BY <1>1, <3>1, <4>1 DEF SeriesOK
      <4>3. a = b
        BY <3>1, <4>2 DEF Of
      <4>4. a \in Nat
        BY LenProperties DEF PubTyped
      <4> QED
        BY <4>3, <4>4
    <3> QED
      BY <3>3, <3>4, <3>5
  <2>2. ASSUME NEW x \in T, NEW y \in T, NEW z \in T, NEW i, NEW id,
               x.seq <= y.seq, y.seq <= z.seq, Of(x, i, id), Of(z, i, id)
        PROVE  Of(y, i, id)
    <3>1. /\ whole[x] \in S /\ whole[y] \in S /\ whole[z] \in S
          /\ whole[x].seq <= whole[y].seq /\ whole[y].seq <= whole[z].seq
          /\ Of(whole[x], i, id) /\ Of(whole[z], i, id)
          /\ Of(whole[y], i, id) <=> Of(y, i, id)
      BY <2>2
    <3> QED
      BY <1>1, <3>1 DEF SeriesOK
  <2>3. \A x \in T : x.seq \in Nat /\ \E i, id : TrueGroup(x, i, id)'
    OBVIOUS
  <2> QED
    BY <2>1, <2>2, <2>3 DEF SeriesOK
<1>3. ASSUME NEW x \in T, NEW i \in Instruments, NEW id \in DOMAIN groups'[i], Of(x, i, id)
      PROVE  w.instr[i].baseK <= groups'[i][id]
  <2>1. whole[x] \in S /\ Of(whole[x], i, id)
    BY <1>3
  <2> QED
    BY <2>1 DEF GroupsOK
<1>4. OpenOK(w.open, T)'
  <2>1. OpenOK(w.open, S)'
    BY DEF GroupsOK
  <2>2. ASSUME w.open # NoGroup, NEW x \in T, Of(x, w.open.instr, w.open.id)
        PROVE  Pure(w.open)' /\ \A y \in T : y.seq <= x.seq => Of(y, w.open.instr, w.open.id)
    <3>1. whole[x] \in S /\ Of(whole[x], w.open.instr, w.open.id)
      BY <2>2
    <3>2. Pure(w.open)' /\ \A y \in S : y.seq <= whole[x].seq => Of(y, w.open.instr, w.open.id)
      BY <2>1, <2>2, <3>1 DEF OpenOK
    <3>3. \A y \in T : y.seq <= x.seq => whole[y].seq <= whole[x].seq /\ whole[y] \in S
      OBVIOUS
    <3>4. \A y \in T : Of(whole[y], w.open.instr, w.open.id) => Of(y, w.open.instr, w.open.id)
      OBVIOUS
    <3> QED
      BY <3>2, <3>3, <3>4
  <2> QED
    BY <2>1, <2>2 DEF OpenOK
<1> QED
  BY <1>2, <1>3, <1>4 DEF GroupsOK

(* A group's last frame in two, its first message and the others. *)
LEMMA SplitLast ==
  ASSUME PubTyped', NEW w, NEW S, NEW k \in Nat, \A x \in S : x.seq \in Nat /\ x.seq < k,
         NEW g, \E R : g \in Seq(R), GroupsOK(w, S \cup {[seq |-> k, msgs |-> g]})',
         NEW later, later = IF Tail(g) = << >> THEN {} ELSE {[seq |-> k + 1, msgs |-> Tail(g)]}
  PROVE  GroupsOK(w, S \cup {[seq |-> k, msgs |-> <<Head(g)>>]} \cup later)'
<1> DEFINE a == [seq |-> k, msgs |-> g]
           h == [seq |-> k, msgs |-> <<Head(g)>>]
           t == [seq |-> k + 1, msgs |-> Tail(g)]
           T == S \cup {h} \cup later
           whole == [x \in T |-> IF x \in S THEN x ELSE a]
<1>1. PICK i, id : TrueGroup(a, i, id)'
  BY DEF GroupsOK, SeriesOK
<1>2. IsGroup(i, id)' /\ Len(g) >= 1 /\ \A n \in 1 .. Len(g) : TrueMessage(g[n], i, id)'
  BY <1>1 DEF TrueGroup
<1>3. Len(g) \in Nat
  BY LenProperties
<1>4. /\ Head(g) = g[1] /\ Len(Tail(g)) = Len(g) - 1
      /\ \A n \in 1 .. Len(Tail(g)) : Tail(g)[n] = g[n + 1]
      /\ Tail(g) # << >> => Len(Tail(g)) >= 1
  <2>1. PICK R : g \in Seq(R)
    OBVIOUS
  <2>2. g # << >>
    BY <1>2
  <2>3. /\ Head(g) = g[1] /\ Tail(g) \in Seq(R) /\ Len(Tail(g)) = Len(g) - 1
        /\ \A n \in 1 .. Len(Tail(g)) : Tail(g)[n] = g[n + 1]
    BY <2>1, <2>2, HeadTailProperties
  <2>4. Tail(g) # << >> => Len(Tail(g)) # 0 /\ Len(Tail(g)) \in Nat
    BY <2>3, EmptySeq, LenProperties
  <2>5. Tail(g) # << >> => Len(Tail(g)) >= 1
    BY <2>4
  <2> QED
    BY <2>3, <2>5
<1>5. TrueGroup(h, i, id)'
  <2>1. Len(h.msgs) = 1 /\ h.msgs[1] = g[1]
    BY <1>4
  <2>2. TrueMessage(g[1], i, id)'
    BY <1>2, <1>3
  <2> HIDE DEF h
  <2> QED
    BY <1>2, <2>1, <2>2 DEF TrueGroup
<1>6. ASSUME Tail(g) # << >>
      PROVE  TrueGroup(t, i, id)'
  <2>1. t.msgs = Tail(g)
    OBVIOUS
  <2>2. \A n \in 1 .. Len(Tail(g)) : n + 1 \in 1 .. Len(g)
    BY <1>3, <1>4
  <2>3. \A n \in 1 .. Len(Tail(g)) : TrueMessage(Tail(g)[n], i, id)'
    BY <1>2, <1>4, <2>2
  <2> HIDE DEF t
  <2> QED
    BY <1>2, <1>4, <1>6, <2>1, <2>3 DEF TrueGroup
<1>7. \A x : TrueGroup(x, i, id)' => \A j, b : Of(x, j, b) <=> j = i /\ b = id
  <2> SUFFICES ASSUME NEW x, TrueGroup(x, i, id)'
               PROVE  x.msgs[1].instr = i /\ x.msgs[1].id = id
    BY DEF Of
  <2>1. TrueMessage(x.msgs[1], i, id)'
    BY DEF TrueGroup
  <2> QED
    BY <2>1 DEF TrueMessage
<1>8. /\ \A x \in T : x \in S \/ x = h \/ (x = t /\ Tail(g) # << >>)
      /\ h.seq = k /\ t.seq = k + 1 /\ a.seq = k
  OBVIOUS
<1>9. h \notin S /\ t \notin S
  BY <1>8
<1> HIDE DEF a, h, t
<1>10. ASSUME NEW x \in T
       PROVE  /\ whole[x] \in S \cup {a} /\ x.seq \in Nat
              /\ \E j, b : TrueGroup(x, j, b)'
              /\ \A j, b : Of(x, j, b) <=> Of(whole[x], j, b)
              /\ x \in S => whole[x] = x
              /\ x \notin S => whole[x] = a /\ k <= x.seq
  <2>1. CASE x \in S
    <3>1. whole[x] = x
      BY <2>1
    <3>2. \E j, b : TrueGroup(x, j, b)'
      BY <2>1 DEF GroupsOK, SeriesOK, a
    <3> QED
      BY <2>1, <3>1, <3>2
  <2>2. CASE x \notin S
    <3>1. whole[x] = a
      BY <2>2
    <3>2. TrueGroup(x, i, id)' /\ x.seq \in Nat /\ k <= x.seq
      BY <1>5, <1>6, <1>8, <2>2
    <3> HIDE DEF whole
    <3>3. \A j, b : Of(x, j, b) <=> Of(a, j, b)
      BY <1>1, <1>7, <3>2
    <3> QED
      BY <2>2, <3>1, <3>2, <3>3
  <2> QED
    BY <2>1, <2>2
<1>11. ASSUME NEW x \in T, NEW y \in T, x.seq <= y.seq
       PROVE  whole[x].seq <= whole[y].seq
  <2> HIDE DEF whole, T
  <2>1. CASE x \in S /\ y \in S
    BY <1>10, <1>11, <2>1
  <2>2. CASE x \in S /\ y \notin S
    BY <1>8, <1>10, <2>2
  <2>3. CASE x \notin S /\ y \in S
    BY <1>8, <1>10, <1>11, <2>3
  <2>4. CASE x \notin S /\ y \notin S
    BY <1>8, <1>10, <2>4
  <2> QED
    BY <2>1, <2>2, <2>3, <2>4
<1>12. GroupsOK(w, S \cup {a})'
  BY DEF a
<1> HIDE DEF whole
<1>13. GroupsOK(w, T)'
  <2> HIDE DEF T
  <2> QED
    BY <1>10, <1>11, <1>12, Regrouped
<1> QED
  BY <1>13 DEF h

(* A new group comes after all the others. *)
LEMMA GroupAdded ==
  ASSUME PubTyped', NEW w, NEW S, GroupsOK(w, S)', NEW x, x.seq \in Nat,
         \A y \in S : y.seq \in Nat /\ y.seq < x.seq,
         NEW i, NEW id, TrueGroup(x, i, id)', w.instr[i].baseK <= groups'[i][id],
         \A y \in S : \A j : \A b \in DOMAIN groups'[j] : Of(y, j, b) => j # i \/ b < id,
         w.open # NoGroup => w.open.instr # i \/ w.open.id # id
  PROVE  GroupsOK(w, S \cup {x})'
<1>1. SeriesOK(S)' /\ OpenOK(w.open, S)'
  BY DEF GroupsOK
<1>2. /\ i \in Instruments /\ id \in DOMAIN groups'[i] /\ id \in Nat
      /\ \A j, b : Of(x, j, b) <=> j = i /\ b = id
  <2>1. IsGroup(i, id)' /\ TrueMessage(x.msgs[1], i, id)'
    BY DEF TrueGroup
  <2>2. groups'[i] \in Seq(Nat)
    BY <2>1 DEF PubTyped, IsGroup
  <2>3. id \in Nat
    BY <2>1, <2>2, LenProperties DEF IsGroup
  <2> QED
    BY <2>1, <2>3 DEF TrueMessage, IsGroup, Of
<1>3. ASSUME NEW y \in S, NEW j, NEW b, Of(y, j, b)
      PROVE  j \in Instruments /\ b \in DOMAIN groups'[j] /\ b \in Nat /\ (j # i \/ b < id)
  <2>1. PICK jj, bb : TrueGroup(y, jj, bb)'
    BY <1>1 DEF SeriesOK
  <2>2. IsGroup(jj, bb)' /\ TrueMessage(y.msgs[1], jj, bb)'
    BY <2>1 DEF TrueGroup
  <2>3. j \in Instruments /\ b \in DOMAIN groups'[j]
    BY <1>3, <2>2 DEF TrueMessage, Of, IsGroup
  <2>4. groups'[j] \in Seq(Nat)
    BY <2>3 DEF PubTyped
  <2> QED
    BY <1>3, <2>3, <2>4, LenProperties
<1>4. \A y \in S : ~(x.seq <= y.seq)
  OBVIOUS
<1>5. SeriesOK(S \cup {x})'
  <2>1. ASSUME NEW y \in S \cup {x}, NEW z \in S \cup {x}, NEW j \in Instruments,
               NEW a \in DOMAIN groups'[j], NEW b \in DOMAIN groups'[j],
               y.seq < z.seq, Of(y, j, a), Of(z, j, b)
        PROVE  a <= b
    <3>1. y \in S
      BY <1>4, <2>1
    <3>2. CASE z \in S
      BY <1>1, <2>1, <3>1, <3>2 DEF SeriesOK
    <3>3. CASE z = x
      BY <1>2, <1>3, <2>1, <3>1, <3>3
    <3> QED
      BY <3>2, <3>3
  <2>2. ASSUME NEW a \in S \cup {x}, NEW y \in S \cup {x}, NEW z \in S \cup {x}, NEW j, NEW b,
               a.seq <= y.seq, y.seq <= z.seq, Of(a, j, b), Of(z, j, b)
        PROVE  Of(y, j, b)
    <3>1. CASE z = x
      <4>1. a \notin S
        BY <1>2, <1>3, <2>2, <3>1
      <4>2. y \notin S
        BY <1>4, <2>2, <4>1
      <4> QED
        BY <2>2, <3>1, <4>2
    <3>2. CASE z \in S
      <4>1. y \in S
        BY <1>4, <2>2, <3>2
      <4>2. a \in S
        BY <1>4, <2>2, <4>1
      <4> QED
        BY <1>1, <2>2, <3>2, <4>1, <4>2 DEF SeriesOK
    <3> QED
      BY <3>1, <3>2
  <2>3. \A y \in S \cup {x} : y.seq \in Nat /\ \E j, b : TrueGroup(y, j, b)'
    BY <1>1 DEF SeriesOK
  <2> QED
    BY <2>1, <2>2, <2>3 DEF SeriesOK
<1>6. ASSUME NEW y \in S \cup {x}, NEW j \in Instruments, NEW b \in DOMAIN groups'[j], Of(y, j, b)
      PROVE  w.instr[j].baseK <= groups'[j][b]
  <2>1. CASE y \in S
    BY <1>6, <2>1 DEF GroupsOK
  <2>2. CASE y = x
    BY <1>2, <1>6, <2>2
  <2> QED
    BY <2>1, <2>2
<1>7. OpenOK(w.open, S \cup {x})'
  <2> DEFINE o == w.open
  <2>1. CASE o = NoGroup
    BY <2>1 DEF OpenOK
  <2>2. CASE o # NoGroup
    <3>1. ~Of(x, o.instr, o.id)
      BY <1>2, <2>2
    <3>2. ASSUME NEW z \in S, Of(z, o.instr, o.id)
          PROVE  Pure(o)' /\ \A y \in S \cup {x} : y.seq <= z.seq => Of(y, o.instr, o.id)
      BY <1>1, <1>4, <2>2, <3>2 DEF OpenOK
    <3>3. IsGroup(o.instr, o.id)'
      BY <1>1, <2>2 DEF OpenOK
    <3> HIDE DEF o
    <3>4. OpenOK(o, S \cup {x})'
      BY <3>1, <3>2, <3>3 DEF OpenOK
    <3> QED
      BY <3>4 DEF o
  <2> QED
    BY <2>1, <2>2
<1> QED
  BY <1>5, <1>6, <1>7 DEF GroupsOK

LEMMA GroupIsTrue ==
  ASSUME PubTyped, NEW i \in Instruments, books' = books,
         groups' = [groups EXCEPT ![i] = Append(@, SeqNow(i))],
         NEW id, id = Len(groups[i]) + 1, NEW g, g = Group(i), NEW k
  PROVE  /\ TrueGroup([seq |-> k, msgs |-> g], i, id)'
         /\ id \in Nat /\ groups'[i][id] = SeqNow(i)
         /\ \A j \in Instruments : j # i => groups'[j] = groups[j]
         /\ Len(groups[i]) \in Nat /\ DOMAIN groups[i] = 1 .. Len(groups[i])
         /\ DOMAIN groups'[i] = 1 .. id
         /\ \A b \in DOMAIN groups[i] : groups'[i][b] = groups[i][b]
<1> DEFINE x == [seq |-> k, msgs |-> g]
<1>1. PICK L, n, key : /\ L = BookNow(i) /\ n = Cardinality(Present(L))
                        /\ key = SetToSeq(Present(L))
  OBVIOUS
<1>2. /\ n \in Nat /\ key \in [1 .. n -> Present(L)]
      /\ Len(g) = n + 2
      /\ g[1] = BeginOf(i, id, L, sent["mktdata"], SeqNow(i))
      /\ \A m \in 1 .. n : g[m + 1] = EntryOf(i, id, L, key[m])
      /\ g[n + 2] = EndOf(i, id, sent["mktdata"])
  BY <1>1, GroupSays
<1>3. SeqNow(i) \in Nat /\ groups \in [Instruments -> Seq(Nat)]
  BY BookTyped DEF PubTyped
<1>4. /\ id \in Nat /\ groups'[i][id] = SeqNow(i)
      /\ \A j \in Instruments : j # i => groups'[j] = groups[j]
      /\ Len(groups[i]) \in Nat /\ DOMAIN groups[i] = 1 .. Len(groups[i])
      /\ DOMAIN groups'[i] = 1 .. id
      /\ \A b \in DOMAIN groups[i] : groups'[i][b] = groups[i][b]
  <2>1. groups'[i] = Append(groups[i], SeqNow(i)) /\ groups[i] \in Seq(Nat)
    BY <1>3
  <2>2. /\ Len(groups[i]) \in Nat /\ DOMAIN groups[i] = 1 .. Len(groups[i])
        /\ groups'[i] \in Seq(Nat) /\ Len(groups'[i]) = Len(groups[i]) + 1
        /\ groups'[i][Len(groups[i]) + 1] = SeqNow(i)
        /\ \A b \in 1 .. Len(groups[i]) : groups'[i][b] = groups[i][b]
    BY <1>3, <2>1, LenProperties, AppendProperties
  <2>3. DOMAIN groups'[i] = 1 .. Len(groups'[i])
    BY <2>2, LenProperties
  <2>4. \A j \in Instruments : j # i => groups'[j] = groups[j]
    BY <1>3
  <2> QED
    BY <2>2, <2>3, <2>4
<1>5. Shown(i, id)' = L
  <2>1. books'[i][SeqNow(i) + 1] = books[i][Len(books[i])]
    <3>1. books[i] \in Seq(Ladder)
      BY DEF PubTyped
    <3>2. SeqNow(i) + 1 = Len(books[i])
      BY <3>1, LenProperties DEF SeqNow
    <3> QED
      BY <3>2
  <2>2. L = books[i][Len(books[i])]
    BY <1>1 DEF BookNow, Last
  <2> QED
    BY <1>4, <2>1, <2>2 DEF Shown
<1>6. TrueMessage(g[1], i, id)'
  <2>1. PICK b : b = BeginOf(i, id, L, sent["mktdata"], SeqNow(i))
    OBVIOUS
  <2>2. /\ b.type = "begin" /\ b.instr = i /\ b.id = id
        /\ b.total = Cardinality(Present(L)) /\ b.lastK = SeqNow(i)
    BY <2>1 DEF BeginOf
  <2>3. g[1] = b
    BY <1>2, <2>1
  <2>4. TrueMessage(b, i, id)'
    BY <1>4, <1>5, <1>1, <2>2 DEF TrueMessage
  <2> QED
    BY <2>3, <2>4
<1>7. TrueMessage(g[n + 2], i, id)'
  <2>1. PICK e : e = EndOf(i, id, sent["mktdata"])
    OBVIOUS
  <2>2. e.type = "end" /\ e.instr = i /\ e.id = id
    BY <2>1 DEF EndOf
  <2>3. g[n + 2] = e
    BY <1>2, <2>1
  <2>4. TrueMessage(e, i, id)'
    BY <2>2 DEF TrueMessage
  <2> QED
    BY <2>3, <2>4
<1>8. ASSUME NEW m \in 1 .. n
      PROVE  TrueMessage(g[m + 1], i, id)'
  <2>1. key[m] \in Present(L)
    BY <1>2
  <2> DEFINE e == EntryOf(i, id, L, key[m])
  <2>2. e.type = "entry" /\ e.instr = i /\ e.id = id /\ e.key = key[m] /\ e.qty = L[key[m]]
    BY DEF EntryOf
  <2>3. g[m + 1] = e
    BY <1>2
  <2> HIDE DEF e
  <2>4. g[m + 1].type = "entry" /\ g[m + 1].instr = i /\ g[m + 1].id = id
        /\ g[m + 1].key \in Present(L) /\ g[m + 1].qty = L[g[m + 1].key]
    BY <2>1, <2>2, <2>3
  <2> QED
    BY <1>5, <2>4 DEF TrueMessage
<1>9. \A m \in 1 .. n + 2 : m = 1 \/ m = n + 2 \/ (m - 1 \in 1 .. n /\ m = (m - 1) + 1)
  BY <1>2
<1>10. \A m \in 1 .. Len(g) : TrueMessage(g[m], i, id)'
  BY <1>2, <1>6, <1>7, <1>8, <1>9
<1>11. Len(g) >= 1
  BY <1>2
<1>12. IsGroup(i, id)'
  BY <1>4 DEF IsGroup
<1>13. x.msgs = g
  OBVIOUS
<1> HIDE DEF x
<1>14. TrueGroup(x, i, id)'
  BY <1>10, <1>11, <1>12, <1>13 DEF TrueGroup
<1> QED
  BY <1>4, <1>14 DEF x

LEMMA GroupIsSent ==
  ASSUME MbpInv, SteadyInv, Steady(plan), NEW i \in Instruments, SendGroup(i), PubTyped'
  PROVE  SteadyInv'
<1>1. PICK P, D, k, g, id, w :
        /\ P = Pending("snapshot") /\ D = Pending("mktdata") /\ k = sent["snapshot"]
        /\ g = Group(i) /\ id = Len(groups[i]) + 1 /\ w = v
  OBVIOUS
<1>2. PICK msgs : msgs = IF plan.packed THEN g ELSE <<Head(g)>>
  OBVIOUS
<1>3. /\ running /\ rest = << >> /\ Put("snapshot", msgs) /\ UNCHANGED vars
      /\ rest' = IF plan.packed THEN << >> ELSE Tail(g)
      /\ groups' = [groups EXCEPT ![i] = Append(@, SeqNow(i))]
      /\ UNCHANGED <<books, plan, v, running>>
  BY <1>1, <1>2 DEF SendGroup, PublisherOnly
<1>4. PubTyped /\ FlowInv /\ OneEra /\ Captured /\ Believed(v) /\ StateTyped(v)
      /\ Truth(v, Pending("mktdata"), Pending("snapshot") \cup Remains)
  BY <1>3 DEF MbpInv, SteadyInv
<1>5. /\ Pending("snapshot")' = P \cup {[seq |-> k, msgs |-> msgs]}
      /\ Pending("mktdata")' = D
      /\ sent'["snapshot"] = k + 1 /\ k \in Nat /\ OneEra'
  <2>1. sent \in [Ports -> Nat] /\ "snapshot" \in Ports
    BY <1>4, MbpPlansAssumption DEF FlowInv, NetInv
  <2>2. /\ Pending("snapshot")' = P \cup {[seq |-> k, msgs |-> msgs]}
        /\ Pending("mktdata")' = D
        /\ sent' = [sent EXCEPT !["snapshot"] = sent["snapshot"] + 1]
        /\ sent["snapshot"] \in Nat /\ OneEra'
    BY <1>1, <1>3, <1>4, PutGrows
  <2> QED
    BY <1>1, <2>1, <2>2
<1>6. /\ TrueGroup([seq |-> k, msgs |-> g], i, id)'
      /\ id \in Nat /\ groups'[i][id] = SeqNow(i)
      /\ \A j \in Instruments : j # i => groups'[j] = groups[j]
      /\ Len(groups[i]) \in Nat /\ DOMAIN groups[i] = 1 .. Len(groups[i])
      /\ DOMAIN groups'[i] = 1 .. id
      /\ \A b \in DOMAIN groups[i] : groups'[i][b] = groups[i][b]
  BY <1>1, <1>3, <1>4, GroupIsTrue
<1>7. \A j \in Instruments :
        /\ SeqNow(j) \in Nat /\ SeqNow(j)' = SeqNow(j)
        /\ \A b \in DOMAIN groups[j] : groups[j][b] \in Nat /\ groups[j][b] <= SeqNow(j)
  BY <1>3, <1>4, BookTyped, ElementOfSeq DEF PubTyped, Captured, SeqNow
<1>8. Captured'
  <2>1. ASSUME NEW j \in Instruments, NEW b \in DOMAIN groups'[j]
        PROVE  /\ groups'[j][b] <= SeqNow(j)
               /\ \A a \in DOMAIN groups'[j] : a <= b => groups'[j][a] <= groups'[j][b]
    <3>1. CASE j # i
      BY <1>4, <1>6, <2>1, <3>1 DEF Captured
    <3>2. CASE j = i
      <4>1. \A c \in DOMAIN groups'[i] : c = id \/ c \in DOMAIN groups[i]
        BY <1>1, <1>6
      <4>2. CASE b = id
        BY <1>6, <1>7, <3>2, <4>1, <4>2
      <4>3. CASE b # id
        <5>1. b \in DOMAIN groups[i] /\ b < id
          BY <1>1, <1>6, <2>1, <3>2, <4>1, <4>3
        <5>2. \A a \in DOMAIN groups'[i] : a <= b => a \in DOMAIN groups[i]
          BY <1>1, <1>6, <5>1
        <5> QED
          BY <1>4, <1>6, <1>7, <3>2, <5>1, <5>2 DEF Captured
      <4> QED
        BY <4>2, <4>3
    <3> QED
      BY <3>1, <3>2
  <2> QED
    BY <1>7, <2>1 DEF Captured
<1>9. Extends
  <2>1. \A j \in Instruments : Len(books[j]) \in Nat /\ Len(groups[j]) \in Nat
    BY <1>4, LenProperties DEF PubTyped
  <2>2. Len(groups[i]) <= Len(groups'[i])
    <3>1. groups'[i] \in Seq(Nat)
      BY DEF PubTyped
    <3>2. Len(groups'[i]) \in Nat /\ 1 .. Len(groups'[i]) = 1 .. id
      BY <1>6, <3>1, LenProperties
    <3>3. Len(groups'[i]) = id
      BY <1>6, <3>2, SameTop
    <3> QED
      BY <1>1, <2>1, <3>3
  <2> QED
    BY <1>3, <1>6, <2>1, <2>2 DEF Extends
<1>10. GroupsOK(w, P) /\ SeriesOK(P) /\ OpenOK(w.open, P)
  <2>1. Remains = {}
    BY <1>3 DEF Remains
  <2>2. GroupsOK(w, P)
    BY <1>1, <1>4, <2>1 DEF Truth
  <2> QED
    BY <2>2 DEF GroupsOK
<1>11. \A y \in P : y.seq \in Nat /\ y.seq < k
  BY <1>1, <1>4, PendingBefore, MbpPlansAssumption
<1>12. \A y \in P : \A j : \A b \in DOMAIN groups'[j] : Of(y, j, b) => j # i \/ b < id
  <2> SUFFICES ASSUME NEW y \in P, NEW b, Of(y, i, b)
               PROVE  b < id
    OBVIOUS
  <2>1. PICK jj, bb : TrueGroup(y, jj, bb)
    BY <1>10 DEF SeriesOK
  <2>2. IsGroup(jj, bb) /\ TrueMessage(y.msgs[1], jj, bb)
    BY <2>1 DEF TrueGroup
  <2>3. b \in DOMAIN groups[i]
    BY <2>2 DEF TrueMessage, Of, IsGroup
  <2> QED
    BY <1>1, <1>6, <2>3
<1>13. w.open # NoGroup => w.open.instr # i \/ w.open.id # id
  <2>1. w.open # NoGroup /\ w.open.instr = i => w.open.id \in DOMAIN groups[i]
    BY <1>10 DEF OpenOK, IsGroup
  <2> QED
    BY <1>1, <1>6, <2>1
<1>14. w.instr[i].baseK <= groups'[i][id]
  <2>1. InstrTrue(w.instr[i], i) /\ InstrTyped(w.instr[i])
    BY <1>1, <1>4 DEF Believed, StateTyped
  <2> QED
    BY <1>6, <1>7, <2>1 DEF InstrTrue, InstrTyped, Instr
<1>15. GroupsOK(w, P)'
  BY <1>4, <1>9, <1>10, HistoryGrows
<1>16. GroupsOK(w, P \cup {[seq |-> k, msgs |-> g]})'
  <2>1. PICK x : x = [seq |-> k, msgs |-> g]
    OBVIOUS
  <2>2. x.seq = k
    BY <2>1
  <2> QED
    BY <1>5, <1>6, <1>11, <1>12, <1>13, <1>14, <1>15, <2>1, <2>2, GroupAdded
<1>17. ASSUME NEW T, T = (Pending("snapshot") \cup Remains)'
       PROVE  GroupsOK(w, T)'
  <2>1. CASE plan.packed
    <3>1. Remains' = {}
      BY <1>3, <2>1 DEF Remains
    <3>2. msgs = g
      BY <1>2, <2>1
    <3> QED
      BY <1>5, <1>16, <1>17, <3>1, <3>2
  <2>2. CASE ~plan.packed
    <3>1. PICK later : later = IF Tail(g) = << >> THEN {} ELSE {[seq |-> k + 1, msgs |-> Tail(g)]}
      OBVIOUS
    <3>2. Remains' = later
      BY <1>3, <1>5, <2>2, <3>1 DEF Remains
    <3>3. \E R : g \in Seq(R)
      BY <1>1, <1>4, GroupTyped
    <3>4. GroupsOK(w, P \cup {[seq |-> k, msgs |-> <<Head(g)>>]} \cup later)'
      BY <1>5, <1>11, <1>16, <3>1, <3>3, SplitLast
    <3>5. msgs = <<Head(g)>>
      BY <1>2, <2>2
    <3> QED
      BY <1>5, <1>17, <3>2, <3>4, <3>5
  <2> QED
    BY <2>1, <2>2
<1>18. DeltasOK(w, D)' /\ Believed(w)'
  <2>1. DeltasOK(w, D) /\ Believed(w)
    BY <1>1, <1>4 DEF Truth
  <2> QED
    BY <1>3, <2>1, BooksKept
<1>19. v' = w
  BY <1>1, <1>3
<1>20. Truth(v, Pending("mktdata"), Pending("snapshot") \cup Remains)' /\ Believed(v)'
  <2>1. PICK T : T = (Pending("snapshot") \cup Remains)'
    OBVIOUS
  <2>2. Truth(w, D, T)'
    BY <1>17, <1>18, <2>1 DEF Truth
  <2> QED
    BY <1>5, <1>18, <1>19, <2>1, <2>2
<1> QED
  BY <1>5, <1>8, <1>20 DEF SteadyInv

LEMMA RestIsSent ==
  ASSUME MbpInv, SteadyInv, Steady(plan), SendRest, PubTyped'
  PROVE  SteadyInv'
<1>1. PICK P, D, k, g, w :
        /\ P = Pending("snapshot") /\ D = Pending("mktdata") /\ k = sent["snapshot"]
        /\ g = rest /\ w = v
  OBVIOUS
<1>2. /\ running /\ rest # << >> /\ Put("snapshot", <<Head(g)>>) /\ UNCHANGED vars
      /\ rest' = Tail(g)
      /\ UNCHANGED <<books, groups, plan, v, running>>
  BY <1>1 DEF SendRest, PublisherOnly
<1>3. PubTyped /\ FlowInv /\ OneEra /\ Captured /\ Believed(v)
      /\ Truth(v, Pending("mktdata"), Pending("snapshot") \cup Remains)
  BY <1>2 DEF MbpInv, SteadyInv
<1>4. /\ Pending("snapshot")' = P \cup {[seq |-> k, msgs |-> <<Head(g)>>]}
      /\ Pending("mktdata")' = D
      /\ sent'["snapshot"] = k + 1 /\ k \in Nat /\ OneEra'
  <2>1. sent \in [Ports -> Nat] /\ "snapshot" \in Ports
    BY <1>3, MbpPlansAssumption DEF FlowInv, NetInv
  <2>2. /\ Pending("snapshot")' = P \cup {[seq |-> k, msgs |-> <<Head(g)>>]}
        /\ Pending("mktdata")' = D
        /\ sent' = [sent EXCEPT !["snapshot"] = sent["snapshot"] + 1]
        /\ sent["snapshot"] \in Nat /\ OneEra'
    BY <1>1, <1>2, <1>3, PutGrows
  <2> QED
    BY <1>1, <2>1, <2>2
<1>5. GroupsOK(w, P \cup {[seq |-> k, msgs |-> g]})'
  <2>1. Remains = {[seq |-> k, msgs |-> g]}
    BY <1>1, <1>2 DEF Remains
  <2>2. GroupsOK(w, P \cup {[seq |-> k, msgs |-> g]})
    BY <1>1, <1>3, <2>1 DEF Truth
  <2> QED
    BY <1>2, <2>2, GroupsKept
<1>6. \A y \in P : y.seq \in Nat /\ y.seq < k
  BY <1>1, <1>3, PendingBefore, MbpPlansAssumption
<1>7. PICK later : later = IF Tail(g) = << >> THEN {} ELSE {[seq |-> k + 1, msgs |-> Tail(g)]}
  OBVIOUS
<1>8. Remains' = later
  BY <1>2, <1>4, <1>7 DEF Remains
<1>9. GroupsOK(w, P \cup {[seq |-> k, msgs |-> <<Head(g)>>]} \cup later)'
  <2>1. \E R : g \in Seq(R)
    BY <1>1, <1>3 DEF PubTyped
  <2> QED
    BY <1>4, <1>5, <1>6, <1>7, <2>1, SplitLast
<1>10. DeltasOK(w, D)' /\ Believed(w)'
  <2>1. DeltasOK(w, D) /\ Believed(w)
    BY <1>1, <1>3 DEF Truth
  <2> QED
    BY <1>2, <2>1, BooksKept
<1>11. Captured'
  BY <1>2, <1>3 DEF Captured, SeqNow
<1>12. PICK T : T = P \cup {[seq |-> k, msgs |-> <<Head(g)>>]} \cup later
  OBVIOUS
<1>13. Truth(w, D, T)'
  BY <1>9, <1>10, <1>12 DEF Truth
<1>14. v' = w /\ (Pending("snapshot") \cup Remains)' = T
  BY <1>1, <1>2, <1>4, <1>8, <1>12
<1>15. Truth(v, Pending("mktdata"), Pending("snapshot") \cup Remains)' /\ Believed(v)'
  BY <1>4, <1>10, <1>13, <1>14
<1> QED
  BY <1>4, <1>11, <1>15 DEF SteadyInv

-----------------------------------------------------------------------------
(* The network loses a snapshot frame.                                     *)
LEMMA FewerUnderWay ==
  ASSUME NetInv, NEW n \in DOMAIN net, net' = RemoveAt(net, n), UNCHANGED <<feedEra, sent>>
  PROVE  /\ \A m \in DOMAIN net' : \E j \in DOMAIN net : j # n /\ net'[m] = net[j]
         /\ \A j \in DOMAIN net : j # n => \E m \in DOMAIN net' : net'[m] = net[j]
<1>1. \A m \in DOMAIN net' : \E j \in DOMAIN net : j # n /\ net'[m] = net[j]
  BY NetShrinks
<1>2. net \in Seq({net[m] : m \in DOMAIN net}) /\ Len(net) \in Nat /\ DOMAIN net = 1 .. Len(net)
  <2>1. net \in Seq({net[m] : m \in DOMAIN net})
    BY DEF NetInv
  <2>2. PICK S : net \in Seq(S)
    BY <2>1
  <2> QED
    BY <2>1, <2>2, LenProperties
<1>3. /\ DOMAIN net' = 1 .. Len(net) - 1
      /\ \A i \in DOMAIN net' : net'[i] = net[IF i < n THEN i ELSE i + 1]
  <2>1. PICK S : net \in Seq(S)
    BY <1>2
  <2> QED
    BY <1>2, <2>1, OneRemoved
<1>4. ASSUME NEW j \in DOMAIN net, j # n
      PROVE  \E m \in DOMAIN net' : net'[m] = net[j]
  <2>1. CASE j < n
    BY <1>2, <1>3, <2>1
  <2>2. CASE ~(j < n)
    <3>1. j - 1 \in DOMAIN net' /\ ~(j - 1 < n) /\ (j - 1) + 1 = j
      BY <1>2, <1>3, <1>4, <2>2
    <3> QED
      BY <1>3, <3>1
  <2> QED
    BY <2>1, <2>2
<1> QED
  BY <1>1, <1>4

LEMMA LostIsTrue ==
  ASSUME MbpInv, SteadyInv, Steady(plan), NEW n \in DOMAIN net, Lose(n)
  PROVE  SteadyInv'
<1>1. /\ running /\ net' = RemoveAt(net, n) /\ net[n].port \in plan.lossy
      /\ UNCHANGED <<pt, pos, next, v, plan, feedEra, sent, books, groups, rest, running>>
  BY DEF Lose, Dropping, vars, pubVars
<1>2. PubTyped /\ FlowInv /\ OneEra /\ Captured /\ Believed(v)
      /\ Truth(v, Pending("mktdata"), Pending("snapshot") \cup Remains)
  BY <1>1 DEF MbpInv, SteadyInv
<1>3. /\ \A m \in DOMAIN net' : \E j \in DOMAIN net : j # n /\ net'[m] = net[j]
      /\ \A j \in DOMAIN net : j # n => \E m \in DOMAIN net' : net'[m] = net[j]
  BY <1>1, <1>2, FewerUnderWay DEF FlowInv
<1>4. net[n].port # "mktdata"
  BY <1>1 DEF Steady
<1>5. PICK D, S, w : /\ D = Pending("mktdata") /\ S = Pending("snapshot") \cup Remains /\ w = v
  OBVIOUS
<1>6. Pending("mktdata")' = D
  <2>1. {Frame(net'[m]) : m \in {j \in DOMAIN net' : net'[j].port = "mktdata"}} =
          {Frame(net[m]) : m \in {j \in DOMAIN net : net[j].port = "mktdata"}}
    BY <1>3, <1>4
  <2> QED
    BY <1>1, <1>5, <2>1 DEF Pending, Frame
<1>7. PICK T : T = (Pending("snapshot") \cup Remains)'
  OBVIOUS
<1>8. T \subseteq S
  <2>1. {Frame(net'[m]) : m \in {j \in DOMAIN net' : net'[j].port = "snapshot"}} \subseteq
          {Frame(net[m]) : m \in {j \in DOMAIN net : net[j].port = "snapshot"}}
    BY <1>3
  <2>2. Pending("snapshot")' \subseteq Pending("snapshot")
    BY <1>1, <2>1 DEF Pending, Frame
  <2>3. Remains' = Remains
    BY <1>1 DEF Remains
  <2> QED
    BY <1>5, <1>7, <2>2, <2>3
<1>9. DeltasOK(w, D)' /\ GroupsOK(w, T)' /\ Believed(w)'
  <2>1. DeltasOK(w, D) /\ GroupsOK(w, S) /\ Believed(w)
    BY <1>2, <1>5 DEF Truth
  <2>2. GroupsOK(w, T)
    BY <1>8, <2>1, GroupsFewer
  <2> QED
    BY <1>1, <2>1, <2>2, BooksKept, GroupsKept
<1>10. OneEra'
  BY <1>1, <1>2, <1>3 DEF OneEra, Whole
<1>11. Captured'
  BY <1>1, <1>2 DEF Captured, SeqNow
<1>12. Truth(w, D, T)'
  BY <1>9 DEF Truth
<1>13. v' = w
  BY <1>1, <1>5
<1>14. Truth(v, Pending("mktdata"), Pending("snapshot") \cup Remains)' /\ Believed(v)'
  BY <1>6, <1>7, <1>9, <1>12, <1>13
<1> QED
  BY <1>10, <1>11, <1>14 DEF SteadyInv

-----------------------------------------------------------------------------
(* Engine.Process of a frame under way: in one era nothing is quarantined  *)
(* or drained, and the window pops the least number of all to come.        *)
LEMMA OpenedInEra ==
  ASSUME PubTyped, FlowInv, OneEra, Steady(plan), NEW p \in Ports, NEW d, FrameFrom(p, d)
  PROVE  /\ ~Quarantines(p, d) /\ ~Advances(p, d)
         /\ LET o == Opened(p, d)
            IN  /\ DOMAIN o = TrackerFields /\ o.era = Era0 /\ o.eraPos \in Nat /\ o.eraPos # 0
                /\ o.buf = pt[p].buf /\ o.accepted = pt[p].accepted
                /\ EntersFor(p, d) => o.eraPos = pos'[Era0]
         /\ EntersFor(p, d) => \A q \in Ports : pt[q].eraPos # 0 => pos'[Era0] = pos[Era0]
<1> DEFINE t == pt[p]
           o == Opened(p, d)
<1>1. /\ DOMAIN t = TrackerFields /\ t.eraPos \in Nat
      /\ t.eraPos # 0 => t.era = Era0 /\ t.eraPos = pos[Era0]
  BY DEF FlowInv, IntakeInv, TrackerTyped, OneEra
<1>2. d.rc = Era0 /\ Era0 \in ResetCounts
  <2>1. plan \in Plans /\ plan.resets = 0
    BY DEF PubTyped, Steady
  <2>2. 0 \in 0 .. plan.resets
    BY <2>1
  <2> QED
    BY <2>1, <2>2, InEra0, CountsAssumption DEF Era0
<1>3. pos[Era0] \in Nat /\ next \in Nat /\ pos \in [ResetCounts -> Nat]
  BY <1>2 DEF FlowInv, IntakeInv
<1>4. t.eraPos # 0 => ~OtherEra(t, d)
  BY <1>1, <1>2, <1>3 DEF OtherEra
<1>5. ~Quarantines(p, d) /\ ~Advances(p, d)
  BY <1>4 DEF Quarantines, Advances
<1>6. \A q \in Ports : pt[q].eraPos # 0 => pt[q].eraPos = pos[Era0]
  BY DEF OneEra
<1>7. CASE Seeds(p, d)
  <2>1. o = Seeded(t, d.rc)
    BY <1>5, <1>7 DEF Opened
  <2> HIDE DEF t, o
  <2>2. /\ DOMAIN o = TrackerFields /\ o.era = Era0 /\ o.eraPos = OrdinalFor(Era0, 0)
        /\ o.buf = t.buf /\ o.accepted = t.accepted
    BY <1>1, <1>2, <2>1 DEF Seeded, TrackerFields
  <2>3. o.eraPos \in Nat /\ o.eraPos # 0
    BY <1>3, <2>2 DEF OrdinalFor, Joins
  <2>4. EntersFor(p, d) => Enter(Era0, 0)
    BY <1>2, <1>5, <1>7 DEF EntersFor
  <2>5. Enter(Era0, 0) => pos'[Era0] = OrdinalFor(Era0, 0)
    BY <1>2, <1>3 DEF Enter, OrdinalFor
  <2>6. Enter(Era0, 0) /\ pos[Era0] # 0 => pos'[Era0] = pos[Era0]
    BY <1>3 DEF Enter, Joins
  <2> QED
    BY <1>5, <1>6, <2>2, <2>3, <2>4, <2>5, <2>6 DEF t, o
<1>8. CASE ~Seeds(p, d)
  <2>1. o = [t EXCEPT !.stragglers = 0] /\ t.eraPos # 0
    BY <1>5, <1>8 DEF Opened, Seeds
  <2>2. EntersFor(p, d) => pos' = pos
    BY <1>5, <1>8 DEF EntersFor
  <2> HIDE DEF t, o
  <2>3. /\ DOMAIN o = TrackerFields /\ o.era = t.era /\ o.eraPos = t.eraPos
        /\ o.buf = t.buf /\ o.accepted = t.accepted
    BY <1>1, <2>1 DEF TrackerFields
  <2> QED
    BY <1>1, <1>5, <2>1, <2>2, <2>3 DEF t, o
<1> QED
  BY <1>7, <1>8

(* What the window popped, one item or none, came before all it holds, and *)
(* was read.                                                               *)
Popped(p, item, s, o, mine, other) ==
  /\ DOMAIN s.t = TrackerFields /\ s.t.era = o.era /\ s.t.eraPos = o.eraPos
  /\ \E gone \in SUBSET (pt[p].buf \cup {item}) :
       /\ s.t.buf = (pt[p].buf \cup {item}) \ gone
       /\ \A a \in s.t.accepted : a \in pt[p].accepted \/ \E h \in gone : a.seq = h.seq
       /\ \A h \in gone, i \in s.t.buf : h.seq < i.seq
       /\ TruthOn(p, s.v, mine \ {Frame(h) : h \in gone}, other)

LEMMA ProcessedIsTrue ==
  ASSUME PubTyped, Captured, FlowInv, StateTyped(v), OneEra, Steady(plan),
         NEW p \in {"mktdata", "snapshot"}, NEW n \in DOMAIN net, net[n].port = p, Arriving(n),
         NEW d, d.rc = net[n].rc, d.seq = net[n].seq, d.body = net[n].body,
         NEW item, item = [rc |-> d.rc, seq |-> d.seq, body |-> d.body, copy |-> 0],
         NEW mine, NEW other, TruthOn(p, v, mine, other),
         \A y \in mine : y \in Pending(p) \/ y.seq = sent[p], Pending(p) \subseteq mine
  PROVE  Popped(p, item, Processed(p, d), Opened(p, d), mine, other)
<1> DEFINE o      == Opened(p, d)
           start  == [t |-> pt[p], v |-> v, led |-> FALSE]
           pushed == Push(o, d)
           h      == HeadOf(pushed)
           w      == Without(pushed, h)
           s      == Processed(p, d)
<1>1. p \in Ports /\ FrameFrom(p, net[n]) /\ net[n] = net[n]
  BY DEF FlowInv, NetInv
<1>2. d.rc = net[n].rc /\ d.seq = net[n].seq /\ d.body = net[n].body
  OBVIOUS
<1>3. item.rc = d.rc /\ item.seq = d.seq /\ item.body = d.body /\ item.copy = 0 /\ Whole(item)
  BY DEF Whole
<1>4. FrameFrom(p, d) /\ FrameFrom(p, item)
  BY <1>1, <1>2, <1>3 DEF FrameFrom, Numbered
<1>5. /\ ~Advances(p, d)
      /\ DOMAIN o = TrackerFields /\ o.era = Era0 /\ o.eraPos \in Nat
      /\ o.buf = pt[p].buf /\ o.accepted = pt[p].accepted
  BY <1>1, <1>4, OpenedInEra
<1>6. \A i \in pt[p].buf : /\ FrameFrom(p, i) /\ i.seq \in Nat /\ Whole(i) /\ i.copy = 0
                           /\ i.rc = Era0
                           /\ \A j \in pt[p].buf : i.seq = j.seq => i = j
                           /\ \A m \in DOMAIN net : net[m].port = p => i.seq < net[m].seq
  <2>1. \A i \in pt[p].buf : FrameFrom(p, i) /\ i.rc = Era0 /\ i.seq \in Nat
    BY <1>1, InEra0 DEF FlowInv, BufferInv
  <2>2. \A m \in DOMAIN net : net[m].port = p => net[m].rc = Era0
    BY InEra0 DEF FlowInv, NetInv
  <2> QED
    BY <1>1, <2>1, <2>2 DEF FlowInv, BufferInv, OneEra
<1>7. d.seq \in Nat /\ d.seq < sent[p] /\ d.rc = Era0
  BY <1>1, <1>4, InEra0
<1>8. \A i \in pt[p].buf : i.seq < d.seq
  BY <1>2, <1>6
<1>9. \A m \in DOMAIN net : m # n /\ net[m].port = p => d.seq < net[m].seq
  <2>1. \A m \in DOMAIN net : net[m].port = p => net[m].rc = Era0
    BY InEra0 DEF FlowInv, NetInv
  <2> QED
    BY <1>2, <2>1, Behind DEF FlowInv
<1>10. pushed = [o EXCEPT !.buf = o.buf \cup {item}]
  <2>1. \A i \in o.buf : i.seq # d.seq
    <3>1. \A i \in pt[p].buf : i.seq \in Nat /\ i.seq < d.seq
      BY <1>6, <1>8
    <3> HIDE DEF o
    <3> QED
      BY <1>5, <1>7, <3>1
  <2>2. "buf" \in DOMAIN o
    BY <1>5 DEF TrackerFields
  <2> HIDE DEF o
  <2>3. Push(o, d) = [o EXCEPT !.buf = o.buf \cup {[rc |-> d.rc, seq |-> d.seq, body |-> d.body,
                                                    copy |-> 0]}]
    BY <2>1, <2>2, PushedNew
  <2> QED
    BY <2>3
<1> HIDE DEF o, pushed
<1>11. /\ DOMAIN pushed = TrackerFields /\ pushed.era = o.era /\ pushed.eraPos = o.eraPos
       /\ pushed.buf = pt[p].buf \cup {item} /\ pushed.accepted = pt[p].accepted
  BY <1>5, <1>10 DEF TrackerFields
<1>12. h \in pushed.buf /\ \A i \in pushed.buf : i # h => h.seq < i.seq
  <2>1. \A i \in pushed.buf : i.seq \in Nat /\ i.copy = 0
    BY <1>3, <1>6, <1>7, <1>11
  <2>2. h \in pushed.buf /\ \A i \in pushed.buf : h.seq <= i.seq
    BY <1>11, <2>1, HeadIn DEF IsHead
  <2>3. \A i \in pushed.buf : i.seq = h.seq => i = h
    BY <1>3, <1>6, <1>7, <1>8, <1>11, <2>2
  <2> HIDE DEF h
  <2> QED
    BY <2>1, <2>2, <2>3
<1>13. w = [pushed EXCEPT !.buf = pushed.buf \ {h}]
  <2>1. "buf" \in DOMAIN pushed
    BY <1>11 DEF TrackerFields
  <2>2. \A i \in pushed.buf : i.seq \in Nat
    BY <1>3, <1>6, <1>7, <1>11
  <2> HIDE DEF h
  <2>3. \A i \in pushed.buf : i.seq = h.seq => i = h
    BY <1>12, <2>2
  <2> QED
    BY <1>12, <2>1, <2>3, PoppedNew
<1>14. s = IF Overflows(pushed) THEN ClassifyItem(p, [start EXCEPT !.t = w], h)
                                ELSE [start EXCEPT !.t = pushed]
  <2>1. Walk(p, start, {}) = start
    BY WalkNothing
  <2> HIDE DEF start, w, h
  <2>2. Processed(p, d) =
          LET first == Walk(p, start, {})
          IN  IF Overflows(pushed) THEN ClassifyItem(p, [first EXCEPT !.t = w], h)
                                   ELSE [first EXCEPT !.t = pushed]
    BY <1>5 DEF Processed, pushed, o, h, w, start
  <2> QED
    BY <2>1, <2>2
<1>15. CASE ~Overflows(pushed)
  <2>1. s = [start EXCEPT !.t = pushed]
    BY <1>14, <1>15
  <2>2. s.t = pushed /\ s.v = v
    BY <2>1
  <2>3. /\ s.t.buf = (pt[p].buf \cup {item}) \ {}
        /\ \A a \in s.t.accepted : a \in pt[p].accepted
        /\ TruthOn(p, s.v, mine \ {}, other)
    BY <1>11, <2>2
  <2>4. {Frame(i) : i \in {}} = {}
    OBVIOUS
  <2> HIDE DEF s
  <2>5. \E gone \in SUBSET (pt[p].buf \cup {item}) :
          /\ s.t.buf = (pt[p].buf \cup {item}) \ gone
          /\ \A a \in s.t.accepted : a \in pt[p].accepted \/ \E g \in gone : a.seq = g.seq
          /\ \A g \in gone, i \in s.t.buf : g.seq < i.seq
          /\ TruthOn(p, s.v, mine \ {Frame(g) : g \in gone}, other)
    <3> WITNESS {} \in SUBSET (pt[p].buf \cup {item})
    <3> QED
      BY <2>3, <2>4
  <2> QED
    BY <1>11, <2>2, <2>5 DEF s, o, Popped
<1>16. CASE Overflows(pushed)
  <2> DEFINE b == [start EXCEPT !.t = w]
  <2>1. DOMAIN b = {"t", "v", "led"} /\ b.t = w /\ b.v = v /\ s = ClassifyItem(p, b, h)
    BY <1>14, <1>16
  <2> HIDE DEF b, w, start, s, h
  <2>2. /\ DOMAIN w = TrackerFields /\ w.era = o.era /\ w.eraPos = o.eraPos
        /\ w.buf = (pt[p].buf \cup {item}) \ {h} /\ w.accepted = pt[p].accepted
    BY <1>11, <1>13 DEF TrackerFields
  <2>3. Walking(b)
    BY <1>5, <2>1, <2>2 DEF Walking, TrackerTyped
  <2>4. h \in pt[p].buf \cup {item} /\ FrameFrom(p, h) /\ Whole(h) /\ h.seq \in Nat
    BY <1>3, <1>4, <1>6, <1>7, <1>11, <1>12
  <2>5. First(Frame(h), mine)
    <3>1. Frame(net[n]) = Frame(item)
      BY <1>2, <1>3 DEF Frame
    <3>2. Frame(h) \in mine
      <4>1. \A i \in pt[p].buf : Frame(i) \in Pending(p)
        BY DEF Pending
      <4>2. Frame(net[n]) \in Pending(p)
        BY DEF Pending
      <4> QED
        BY <2>4, <3>1, <4>1, <4>2
    <3>3. ASSUME NEW y \in mine, y # Frame(h)
          PROVE  h.seq < y.seq
      <4>1. CASE y.seq = sent[p]
        BY <1>1, <2>4, <4>1, InEra0
      <4>2. CASE \E i \in pt[p].buf : y = Frame(i)
        BY <1>11, <1>12, <3>3, <4>2 DEF Frame
      <4>3. CASE \E m \in DOMAIN net : net[m].port = p /\ y = Frame(net[m])
        <5>1. PICK m \in DOMAIN net : net[m].port = p /\ y = Frame(net[m])
          BY <4>3
        <5>2. y.seq = net[m].seq
          BY <5>1 DEF Frame
        <5>3. CASE m # n
          <6>1. h = item => h.seq < net[m].seq
            BY <1>3, <1>9, <5>1, <5>3
          <6>2. h \in pt[p].buf => h.seq < net[m].seq
            BY <1>6, <5>1
          <6> QED
            BY <2>4, <5>2, <6>1, <6>2
        <5>4. CASE m = n
          <6>1. y = Frame(item)
            BY <3>1, <5>1, <5>4
          <6>2. h # item
            BY <3>3, <6>1
          <6> QED
            BY <1>11, <1>12, <6>1, <6>2 DEF Frame
        <5> QED
          BY <5>3, <5>4
      <4> QED
        BY <4>1, <4>2, <4>3 DEF Pending
    <3>4. Frame(h).seq = h.seq
      BY DEF Frame
    <3> QED
      BY <3>2, <3>3, <3>4 DEF First
  <2>6. \A a \in b.t.accepted : a.seq # h.seq
    <3>1. \A a \in pt[p].accepted : /\ a.seq \in Nat /\ \A i \in pt[p].buf : a.seq < i.seq
                                    /\ a.seq < net[n].seq
      BY <1>1 DEF OneEra
    <3>2. item.seq = net[n].seq /\ b.t.accepted = pt[p].accepted
      BY <1>2, <1>3, <2>1, <2>2
    <3>3. \A a \in pt[p].accepted : a.seq < h.seq
      BY <2>4, <3>1, <3>2
    <3> QED
      BY <2>4, <3>1, <3>2, <3>3
  <2>7. MessagesTyped(p, h.body.msgs) /\ b.t.era = Era0 /\ TruthOn(p, b.v, mine, other)
    BY <1>5, <2>1, <2>2, <2>4 DEF FrameFrom
  <2>8. /\ Walking(s) /\ s.t.era = b.t.era /\ s.t.eraPos = b.t.eraPos
        /\ s.t.buf = b.t.buf
        /\ s.t.accepted = b.t.accepted \cup {[seq |-> h.seq, body |-> h.body]}
        /\ TruthOn(p, s.v, mine \ {Frame(h)}, other)
    <3> DEFINE u == ClassifyItem(p, b, h)
    <3>1. /\ Walking(u) /\ u.t.era = b.t.era /\ u.t.eraPos = b.t.eraPos
          /\ u.t.buf = b.t.buf
          /\ u.t.accepted = b.t.accepted \cup {[seq |-> h.seq, body |-> h.body]}
          /\ TruthOn(p, u.v, mine \ {Frame(h)}, other)
      BY <2>3, <2>4, <2>5, <2>6, <2>7, ItemIsTrue
    <3>2. s = u
      BY <2>1
    <3> HIDE DEF u
    <3> QED
      BY <3>1, <3>2
  <2>9. {Frame(g) : g \in {h}} = {Frame(h)}
    OBVIOUS
  <2>10. \E gone \in SUBSET (pt[p].buf \cup {item}) :
          /\ s.t.buf = (pt[p].buf \cup {item}) \ gone
          /\ \A a \in s.t.accepted : a \in pt[p].accepted \/ \E g \in gone : a.seq = g.seq
          /\ \A g \in gone, i \in s.t.buf : g.seq < i.seq
          /\ TruthOn(p, s.v, mine \ {Frame(g) : g \in gone}, other)
    <3>1. {h} \in SUBSET (pt[p].buf \cup {item})
      BY <2>4
    <3>2. s.t.buf = (pt[p].buf \cup {item}) \ {h}
      BY <2>1, <2>2, <2>8
    <3>3. \A a \in s.t.accepted : a \in pt[p].accepted \/ \E g \in {h} : a.seq = g.seq
      BY <2>1, <2>2, <2>8
    <3>4. \A g \in {h}, i \in s.t.buf : g.seq < i.seq
      BY <1>11, <1>12, <3>2
    <3> QED
      BY <2>8, <2>9, <3>1, <3>2, <3>3, <3>4
  <2>11. DOMAIN s.t = TrackerFields /\ s.t.era = o.era /\ s.t.eraPos = o.eraPos
    BY <2>1, <2>2, <2>8 DEF Walking, TrackerTyped
  <2> QED
    BY <2>10, <2>11 DEF s, o, Popped
<1> QED
  BY <1>15, <1>16

(* The frames still to come are those that were, less what was classified. *)
LEMMA FewerPending ==
  ASSUME NetInv, OneEra, NEW n \in DOMAIN net, net' = RemoveAt(net, n),
         UNCHANGED <<feedEra, sent>>,
         NEW p \in Ports, net[n].port = p, NEW item, Frame(item) = Frame(net[n]),
         NEW gone \in SUBSET (pt[p].buf \cup {item}),
         pt'[p].buf = (pt[p].buf \cup {item}) \ gone,
         \A h \in gone, i \in pt'[p].buf : h.seq < i.seq,
         \A h \in gone, j \in DOMAIN net' : net'[j].port = p => h.seq < net'[j].seq,
         \A h \in gone : h.seq \in Nat,
         \A q \in Ports : q # p => pt'[q].buf = pt[q].buf
  PROVE  /\ Pending(p)' = Pending(p) \ {Frame(h) : h \in gone}
         /\ \A q \in Ports : q # p => Pending(q)' = Pending(q)
<1>1. /\ \A m \in DOMAIN net' : \E j \in DOMAIN net : j # n /\ net'[m] = net[j]
      /\ \A j \in DOMAIN net : j # n => \E m \in DOMAIN net' : net'[m] = net[j]
  BY FewerUnderWay
<1>2. PICK B : B = pt'[p].buf
  OBVIOUS
<1>3. PICK N : N = net'
  OBVIOUS
<1>4. PICK P : P = Pending(p)'
  OBVIOUS
<1>5. P = {Frame(i) : i \in B} \cup {Frame(N[m]) : m \in {j \in DOMAIN N : N[j].port = p}}
  BY <1>2, <1>3, <1>4 DEF Pending, Frame
<1>6. ASSUME NEW x \in P
      PROVE  x \in Pending(p) /\ x \notin {Frame(h) : h \in gone}
  <2>1. CASE \E i \in B : x = Frame(i)
    <3>1. PICK i \in B : x = Frame(i)
      BY <2>1
    <3>2. i \in pt[p].buf \/ i = item
      BY <1>2, <3>1
    <3>3. x \in Pending(p)
      BY <3>1, <3>2 DEF Pending
    <3>4. \A h \in gone : h.seq < i.seq
      BY <1>2
    <3>5. \A h \in gone : Frame(h) # Frame(i)
      BY <3>4 DEF Frame
    <3> QED
      BY <3>1, <3>3, <3>5
  <2>2. CASE \E m \in DOMAIN N : N[m].port = p /\ x = Frame(N[m])
    <3>1. PICK m \in DOMAIN N : N[m].port = p /\ x = Frame(N[m])
      BY <2>2
    <3>2. PICK j \in DOMAIN net : j # n /\ N[m] = net[j]
      BY <1>1, <1>3
    <3>3. x \in Pending(p)
      BY <3>1, <3>2 DEF Pending
    <3>4. \A h \in gone : h.seq < N[m].seq
      BY <1>3, <3>1
    <3>5. \A h \in gone : Frame(h) # Frame(N[m])
      BY <3>4 DEF Frame
    <3> QED
      BY <3>1, <3>3, <3>5
  <2> QED
    BY <1>5, <2>1, <2>2
<1>7. ASSUME NEW x \in Pending(p), x \notin {Frame(h) : h \in gone}
      PROVE  x \in P
  <2>1. CASE \E i \in pt[p].buf \cup {item} : x = Frame(i)
    <3>1. PICK i \in pt[p].buf \cup {item} : x = Frame(i)
      BY <2>1
    <3>2. i \in B
      BY <1>2, <1>7, <3>1
    <3> QED
      BY <1>5, <3>1, <3>2
  <2>2. CASE \E m \in DOMAIN net : m # n /\ net[m].port = p /\ x = Frame(net[m])
    <3>1. PICK m \in DOMAIN net : m # n /\ net[m].port = p /\ x = Frame(net[m])
      BY <2>2
    <3>2. PICK j \in DOMAIN N : N[j] = net[m]
      BY <1>1, <1>3, <3>1
    <3> QED
      BY <1>5, <3>1, <3>2
  <2>3. (\E i \in pt[p].buf : x = Frame(i)) \/ (\E m \in DOMAIN net : net[m].port = p /\ x = Frame(net[m]))
    BY DEF Pending
  <2> QED
    BY <2>1, <2>2, <2>3
<1>8. P = Pending(p) \ {Frame(h) : h \in gone}
  BY <1>6, <1>7
<1>9. ASSUME NEW q \in Ports, q # p
      PROVE  Pending(q)' = Pending(q)
  <2>1. {Frame(net'[m]) : m \in {j \in DOMAIN net' : net'[j].port = q}} =
          {Frame(net[m]) : m \in {j \in DOMAIN net : net[j].port = q}}
    BY <1>1, <1>9
  <2> QED
    BY <1>9, <2>1 DEF Pending, Frame
<1> QED
  BY <1>4, <1>8, <1>9

LEMMA ReceivedIsTrue ==
  ASSUME MbpInv, SteadyInv, Steady(plan), running, NEW n \in DOMAIN net, Arriving(n),
         NEW p, p = net[n].port, NEW d, d.rc = net[n].rc, d.seq = net[n].seq, d.body = net[n].body,
         Receives(p, d), net' = RemoveAt(net, n),
         UNCHANGED <<plan, feedEra, sent, books, groups, rest, running>>
  PROVE  SteadyInv'
<1>1. PubTyped /\ FlowInv /\ StateTyped(v) /\ OneEra /\ Captured /\ Believed(v)
      /\ Truth(v, Pending("mktdata"), Pending("snapshot") \cup Remains)
  BY DEF MbpInv, SteadyInv
<1>2. /\ p \in {"mktdata", "snapshot"} /\ p \in Ports /\ FrameFrom(p, net[n])
      /\ "mktdata" \in Ports /\ "snapshot" \in Ports
  BY <1>1, PlansAssumption, MbpPlansAssumption DEF OneEra, FlowInv, NetInv
<1>3. FrameFrom(p, d)
  BY <1>2 DEF FrameFrom, Numbered
<1>4. PICK item, mine, other, D, S :
        /\ item = [rc |-> d.rc, seq |-> d.seq, body |-> d.body, copy |-> 0]
        /\ D = Pending("mktdata") /\ S = Pending("snapshot") \cup Remains
        /\ mine = (IF p = "snapshot" THEN S ELSE D) /\ other = (IF p = "snapshot" THEN D ELSE S)
  OBVIOUS
<1>5. TruthOn(p, v, mine, other)
  BY <1>1, <1>2, <1>4 DEF TruthOn
<1>6. (\A y \in mine : y \in Pending(p) \/ y.seq = sent[p]) /\ Pending(p) \subseteq mine
  BY <1>2, <1>4 DEF Remains
<1>7. PICK o : o = Opened(p, d)
  OBVIOUS
<1>8. PICK s : s = Processed(p, d)
  OBVIOUS
<1>9. /\ ~Quarantines(p, d) /\ EntersFor(p, d) /\ v' = s.v
      /\ pt' = WithTaint([pt EXCEPT ![p] = s.t], s.led)
  BY <1>8 DEF Receives
<1>10. /\ o.era = Era0 /\ o.eraPos \in Nat /\ o.eraPos # 0 /\ o.eraPos = pos'[Era0]
       /\ \A q \in Ports : pt[q].eraPos # 0 => pos'[Era0] = pos[Era0]
  BY <1>1, <1>2, <1>3, <1>7, <1>9, OpenedInEra
<1>11. /\ DOMAIN s.t = TrackerFields /\ s.t.era = Era0 /\ s.t.eraPos = pos'[Era0] /\ s.t.eraPos # 0
       /\ \E gone \in SUBSET (pt[p].buf \cup {item}) :
            /\ s.t.buf = (pt[p].buf \cup {item}) \ gone
            /\ \A a \in s.t.accepted : a \in pt[p].accepted \/ \E h \in gone : a.seq = h.seq
            /\ \A h \in gone, i \in s.t.buf : h.seq < i.seq
            /\ TruthOn(p, s.v, mine \ {Frame(h) : h \in gone}, other)
  <2>1. item = [rc |-> d.rc, seq |-> d.seq, body |-> d.body, copy |-> 0] /\ net[n].port = p
    BY <1>4
  <2>2. Popped(p, item, Processed(p, d), Opened(p, d), mine, other)
    BY <1>1, <1>2, <1>5, <1>6, <2>1, ProcessedIsTrue
  <2>3. Popped(p, item, s, o, mine, other)
    BY <1>7, <1>8, <2>2
  <2> QED
    BY <1>10, <2>3 DEF Popped
<1>12. PICK gone \in SUBSET (pt[p].buf \cup {item}) :
         /\ s.t.buf = (pt[p].buf \cup {item}) \ gone
         /\ \A a \in s.t.accepted : a \in pt[p].accepted \/ \E h \in gone : a.seq = h.seq
         /\ \A h \in gone, i \in s.t.buf : h.seq < i.seq
         /\ TruthOn(p, s.v, mine \ {Frame(h) : h \in gone}, other)
  BY <1>11
<1>13. /\ \A q \in Ports : q # p => /\ pt'[q].buf = pt[q].buf /\ pt'[q].era = pt[q].era
                                    /\ pt'[q].eraPos = pt[q].eraPos
                                    /\ pt'[q].accepted = pt[q].accepted
       /\ pt'[p].buf = s.t.buf /\ pt'[p].era = s.t.era /\ pt'[p].eraPos = s.t.eraPos
       /\ pt'[p].accepted = s.t.accepted
  <2>1. PICK u : u = [pt EXCEPT ![p] = s.t]
    OBVIOUS
  <2>2. DOMAIN pt = Ports /\ \A q \in Ports : DOMAIN pt[q] = TrackerFields
    BY <1>1 DEF FlowInv, IntakeInv, TrackerTyped
  <2>3. DOMAIN u = Ports /\ u[p] = s.t /\ \A q \in Ports : q # p => u[q] = pt[q]
    BY <1>2, <2>1, <2>2
  <2>4. \A q \in Ports : DOMAIN u[q] = TrackerFields
    BY <1>11, <2>2, <2>3
  <2>5. pt' = WithTaint(u, s.led)
    BY <1>9, <2>1
  <2>6. \A q \in Ports : /\ pt'[q].era = u[q].era /\ pt'[q].eraPos = u[q].eraPos
                         /\ pt'[q].buf = u[q].buf /\ pt'[q].accepted = u[q].accepted
    BY <2>3, <2>4, <2>5, TaintedTyped
  <2> QED
    BY <1>2, <2>3, <2>6
<1>14. /\ \A m \in DOMAIN net' : \E j \in DOMAIN net : j # n /\ net'[m] = net[j]
       /\ \A j \in DOMAIN net : j # n => \E m \in DOMAIN net' : net'[m] = net[j]
  BY <1>1, FewerUnderWay DEF FlowInv
<1>15. item.seq = d.seq /\ item.body = d.body /\ Whole(item) /\ Frame(item) = Frame(net[n])
  BY <1>4 DEF Whole, Frame
<1>16. \A i \in pt[p].buf \cup {item} :
         /\ i.seq \in Nat /\ i.seq < sent[p] /\ Whole(i)
         /\ \A m \in DOMAIN net' : net'[m].port = p => i.seq < net'[m].seq
  <2>1. \A i \in pt[p].buf : FrameFrom(p, i) /\ i.rc = Era0
    BY <1>1, <1>2, InEra0 DEF FlowInv, BufferInv
  <2>2. \A m \in DOMAIN net : net[m].port = p => net[m].rc = Era0
    BY <1>1, InEra0 DEF FlowInv, NetInv
  <2>3. \A i \in pt[p].buf, m \in DOMAIN net : net[m].port = p => i.seq < net[m].seq
    BY <1>1, <1>2, <2>1, <2>2 DEF FlowInv, BufferInv
  <2>4. \A m \in DOMAIN net : m # n /\ net[m].port = p => d.seq < net[m].seq
    BY <1>1, <2>2, Behind DEF FlowInv
  <2>5. \A i \in pt[p].buf : i.seq \in Nat /\ i.seq < sent[p] /\ Whole(i)
    BY <1>1, <1>2, <2>1, InEra0 DEF OneEra
  <2>6. d.seq \in Nat /\ d.seq < sent[p]
    BY <1>1, <1>3, InEra0
  <2> QED
    BY <1>14, <1>15, <2>3, <2>4, <2>5, <2>6
<1>17. /\ Pending(p)' = Pending(p) \ {Frame(h) : h \in gone}
       /\ \A q \in Ports : q # p => Pending(q)' = Pending(q)
  <2>1. NetInv /\ OneEra /\ net[n].port = p /\ p \in Ports
    BY <1>1, <1>2 DEF FlowInv
  <2>2. /\ pt'[p].buf = (pt[p].buf \cup {item}) \ gone
        /\ \A h \in gone, i \in pt'[p].buf : h.seq < i.seq
    BY <1>12, <1>13
  <2>3. \A h \in gone, j \in DOMAIN net' : net'[j].port = p => h.seq < net'[j].seq
    BY <1>16
  <2>4. \A h \in gone : h.seq \in Nat
    BY <1>16
  <2>5. \A q \in Ports : q # p => pt'[q].buf = pt[q].buf
    BY <1>13
  <2> QED
    BY <1>15, <2>1, <2>2, <2>3, <2>4, <2>5, FewerPending
<1>18. PICK w, left : w = s.v /\ left = mine \ {Frame(h) : h \in gone}
  OBVIOUS
<1>19. Remains' = Remains
  BY DEF Remains
<1>20. \A x \in Remains : p = "snapshot" => x \notin {Frame(h) : h \in gone}
  BY <1>16 DEF Remains, Frame
<1>21. IF p = "snapshot"
         THEN Pending("mktdata")' = D /\ (Pending("snapshot") \cup Remains)' = left
         ELSE Pending("mktdata")' = left /\ (Pending("snapshot") \cup Remains)' = S
  <2>1. CASE p = "snapshot"
    <3>1. left = (Pending("snapshot") \cup Remains) \ {Frame(h) : h \in gone}
      BY <1>4, <1>18, <2>1
    <3>2. left = (Pending("snapshot") \ {Frame(h) : h \in gone}) \cup Remains
      BY <1>20, <2>1, <3>1
    <3> QED
      BY <1>2, <1>4, <1>17, <1>19, <2>1, <3>2
  <2>2. CASE p = "mktdata"
    BY <1>2, <1>4, <1>17, <1>18, <1>19, <2>2
  <2> QED
    BY <1>2, <2>1, <2>2
<1>22. TruthOn(p, w, left, other)
  BY <1>12, <1>18
<1>23. PICK E, T : E = Pending("mktdata")' /\ T = (Pending("snapshot") \cup Remains)'
  OBVIOUS
<1>24. Truth(w, E, T)
  BY <1>2, <1>4, <1>21, <1>22, <1>23 DEF TruthOn
<1>25. v' = w
  BY <1>9, <1>18
<1>26. Truth(v, Pending("mktdata"), Pending("snapshot") \cup Remains)' /\ Believed(v)'
  <2>1. DeltasOK(w, E)' /\ GroupsOK(w, T)' /\ Believed(w)'
    BY <1>24, BooksKept, GroupsKept DEF Truth
  <2>2. Truth(w, E, T)'
    BY <2>1 DEF Truth
  <2> QED
    BY <1>23, <1>25, <2>1, <2>2
<1>27. OneEra'
  <2>1. \A m \in DOMAIN net' : net'[m].port \in {"mktdata", "snapshot"}
    BY <1>1, <1>14 DEF OneEra
  <2>2. ASSUME NEW q \in Ports
        PROVE  /\ IF pt'[q].eraPos = 0 THEN pt'[q].accepted = {}
                                       ELSE pt'[q].era = Era0 /\ pt'[q].eraPos = pos'[Era0]
               /\ \A i \in pt'[q].buf : Whole(i)
    <3>1. CASE q = p
      BY <1>11, <1>12, <1>13, <1>16, <3>1
    <3>2. CASE q # p
      BY <1>1, <1>10, <1>13, <3>2 DEF OneEra
    <3> QED
      BY <3>1, <3>2
  <2>3. ASSUME NEW q \in Ports, NEW a \in pt'[q].accepted
        PROVE  /\ a.seq \in Nat /\ a.seq < sent[q]
               /\ \A i \in pt'[q].buf : a.seq < i.seq
               /\ \A m \in DOMAIN net' : net'[m].port = q => a.seq < net'[m].seq
    <3>1. CASE q # p
      BY <1>1, <1>13, <1>14, <2>3, <3>1 DEF OneEra
    <3>2. CASE q = p /\ a \in pt[p].accepted
      <4>1. /\ a.seq \in Nat /\ a.seq < sent[p]
            /\ \A i \in pt[p].buf : a.seq < i.seq
            /\ \A m \in DOMAIN net : net[m].port = p => a.seq < net[m].seq
        BY <1>1, <1>2, <3>2 DEF OneEra
      <4>2. a.seq < item.seq
        BY <1>15, <4>1
      <4> QED
        BY <1>12, <1>13, <1>14, <3>2, <4>1, <4>2
    <3>3. CASE q = p /\ \E h \in gone : a.seq = h.seq
      <4>1. PICK h \in gone : a.seq = h.seq
        BY <3>3
      <4> QED
        BY <1>12, <1>13, <1>16, <3>3, <4>1
    <3> QED
      BY <1>12, <1>13, <2>3, <3>1, <3>2, <3>3
  <2> QED
    BY <2>1, <2>2, <2>3 DEF OneEra, Whole
<1>28. Captured'
  BY <1>1 DEF Captured, SeqNow
<1> QED
  BY <1>26, <1>27, <1>28 DEF SteadyInv

LEMMA DeliverIsTrue ==
  ASSUME MbpInv, SteadyInv, Steady(plan), NEW n \in DOMAIN net, Deliver(n)
  PROVE  SteadyInv'
<1>1. PICK p, d : p = net[n].port /\ d = [rc |-> net[n].rc, seq |-> net[n].seq, body |-> net[n].body]
  OBVIOUS
<1>2. /\ running /\ Arriving(n) /\ net' = RemoveAt(net, n)
      /\ Receives(p, d) \/ Drops(p, d)
      /\ UNCHANGED <<plan, feedEra, sent, books, groups, rest, running>>
  BY <1>1 DEF Deliver, pubVars
<1>3. d.rc = net[n].rc /\ d.seq = net[n].seq /\ d.body = net[n].body
  BY <1>1
<1>4. PubTyped /\ FlowInv /\ OneEra
  BY <1>2 DEF MbpInv, SteadyInv
<1>5. p \in Ports /\ FrameFrom(p, d)
  BY <1>1, <1>3, <1>4 DEF FlowInv, NetInv, FrameFrom, Numbered
<1>6. ~Drops(p, d)
  <2>1. ~Quarantines(p, d)
    BY <1>4, <1>5, OpenedInEra
  <2> QED
    BY <2>1 DEF Drops, Quarantine
<1>7. p = net[n].port
  BY <1>1
<1> QED
  BY <1>2, <1>3, <1>6, <1>7, ReceivedIsTrue

-----------------------------------------------------------------------------
(* The end of the run: what a port still holds is read in order.           *)
LEMMA FlushIsTrue ==
  ASSUME PubTyped, Captured, FlowInv, OneEra, Steady(plan), NEW p \in {"mktdata", "snapshot"},
         NEW acc, Walking(acc), acc.t.era = pt[p].era, acc.t.accepted = pt[p].accepted,
         NEW mine, NEW other, TruthOn(p, acc.v, mine, other),
         \A y \in mine : y \in Pending(p) \/ y.seq = sent[p], Pending(p) \subseteq mine
  PROVE  \E M : TruthOn(p, Walk(p, acc, pt[p].buf).v, M, other)
<1>1. p \in Ports
  BY PlansAssumption, MbpPlansAssumption
<1>2. pt[p].buf # {} => acc.t.era = Era0
  BY <1>1 DEF FlowInv, IntakeInv, OneEra
<1>3. \A i \in pt[p].buf : FrameFrom(p, i) /\ i.rc = Era0 /\ i.seq \in Nat /\ i.seq < sent[p]
  BY <1>1, InEra0 DEF FlowInv, BufferInv
<1>4. \A m \in DOMAIN net : net[m].port = p => net[m].rc = Era0 /\ net[m].seq \in Nat
  BY InEra0 DEF FlowInv, NetInv
<1>5. \A i \in pt[p].buf, m \in DOMAIN net : net[m].port = p => i.seq < net[m].seq
  BY <1>1, <1>3, <1>4 DEF FlowInv, BufferInv
<1>6. ASSUME NEW i \in pt[p].buf, NEW y \in mine, y.seq <= i.seq
      PROVE  \E j \in pt[p].buf : y = Frame(j)
  <2>1. y.seq # sent[p]
    <3>1. sent[p] \in Nat
      BY <1>1 DEF FlowInv, NetInv
    <3> QED
      BY <1>3, <1>6, <3>1
  <2>2. CASE \E m \in DOMAIN net : net[m].port = p /\ y = Frame(net[m])
    <3>1. PICK m \in DOMAIN net : net[m].port = p /\ y = Frame(net[m])
      BY <2>2
    <3>2. y.seq = net[m].seq
      BY <3>1 DEF Frame
    <3> QED
      BY <1>3, <1>4, <1>5, <1>6, <3>1, <3>2
  <2> QED
    BY <1>6, <2>1, <2>2 DEF Pending
<1>7. \A i \in pt[p].buf : /\ Whole(i) /\ i.seq \in Nat /\ Frame(i) \in mine
                           /\ MessagesTyped(p, i.body.msgs)
                           /\ \A a \in acc.t.accepted : a.seq \in Nat /\ a.seq < i.seq
                           /\ \A y \in mine : y.seq <= i.seq => \E j \in pt[p].buf : y = Frame(j)
  <2>1. \A i \in pt[p].buf : Frame(i) \in mine
    BY DEF Pending
  <2>2. \A i \in pt[p].buf : Whole(i) /\ \A a \in pt[p].accepted : a.seq \in Nat /\ a.seq < i.seq
    BY <1>1 DEF OneEra
  <2> QED
    BY <1>3, <1>6, <2>1, <2>2 DEF FrameFrom
<1>8. \A i, j \in pt[p].buf : i.seq = j.seq => i = j
  BY <1>1 DEF FlowInv, BufferInv
<1> QED
  BY <1>2, <1>7, <1>8, WalkIsTrue

LEMMA EndRunIsTrue ==
  ASSUME MbpInv, SteadyInv, Steady(plan), EndRun
  PROVE  SteadyInv'
<1> DEFINE start   == [t |-> pt["mktdata"], v |-> v, led |-> FALSE]
           m       == Walk("mktdata", start, pt["mktdata"].buf)
           tainted == WithTaint(pt, m.led)
           b       == [m EXCEPT !.t = tainted["snapshot"]]
           s       == Walk("snapshot", b, pt["snapshot"].buf)
           D       == Pending("mktdata")
           S       == Pending("snapshot") \cup Remains
<1>1. running /\ running' = FALSE /\ v' = s.v /\ UNCHANGED <<plan, feedEra, books, groups, rest>>
  BY DEF EndRun, pubVars
<1>2. PubTyped /\ FlowInv /\ StateTyped(v) /\ OneEra /\ Captured /\ Truth(v, D, S)
  BY <1>1 DEF MbpInv, SteadyInv
<1>3. /\ "mktdata" \in Ports /\ "snapshot" \in Ports /\ DOMAIN pt = Ports
      /\ \A q \in Ports : /\ TrackerTyped(pt[q]) /\ DOMAIN pt[q] = TrackerFields
                          /\ \A i \in pt[q].buf : MessagesTyped(q, i.body.msgs)
  BY <1>2, PlansAssumption, MbpPlansAssumption
     DEF FlowInv, IntakeInv, BufferInv, FrameFrom, TrackerTyped
<1>4. Walking(start) /\ start.t = pt["mktdata"] /\ start.v = v
  BY <1>2, <1>3 DEF Walking
<1>5. (\A y \in S : y \in Pending("snapshot") \/ y.seq = sent["snapshot"]) /\ Pending("snapshot") \subseteq S
  BY DEF Remains
<1> HIDE DEF start, S
<1>6. PICK M : TruthOn("mktdata", m.v, M, S)
  <2>1. TruthOn("mktdata", start.v, D, S)
    BY <1>2, <1>4 DEF TruthOn
  <2>2. (\A y \in D : y \in Pending("mktdata") \/ y.seq = sent["mktdata"]) /\ Pending("mktdata") \subseteq D
    OBVIOUS
  <2> HIDE DEF D
  <2> QED
    BY <1>2, <1>4, <2>1, <2>2, FlushIsTrue
<1>7. Walking(m)
  BY <1>3, <1>4, WalkKeepsTypes
<1> HIDE DEF m
<1>8. /\ TrackerTyped(tainted["snapshot"]) /\ tainted["snapshot"].era = pt["snapshot"].era
      /\ tainted["snapshot"].accepted = pt["snapshot"].accepted
  BY <1>3, TaintedTyped DEF TrackerTyped
<1> HIDE DEF tainted
<1>9. Walking(b) /\ b.t = tainted["snapshot"] /\ b.v = m.v
  <2>1. DOMAIN b = {"t", "v", "led"} /\ b.t = tainted["snapshot"] /\ b.v = m.v
    BY <1>7 DEF Walking
  <2> HIDE DEF b
  <2> QED
    BY <1>7, <1>8, <2>1 DEF Walking
<1> HIDE DEF b
<1>10. PICK N : TruthOn("snapshot", s.v, N, M)
  <2>1. TruthOn("snapshot", b.v, S, M)
    BY <1>6, <1>9 DEF TruthOn
  <2>2. b.t.era = pt["snapshot"].era /\ b.t.accepted = pt["snapshot"].accepted
    BY <1>8, <1>9
  <2> QED
    BY <1>2, <1>5, <1>9, <2>1, <2>2, FlushIsTrue
<1> HIDE DEF s
<1>11. PICK w : w = s.v
  OBVIOUS
<1>12. Believed(w)
  BY <1>10, <1>11 DEF TruthOn, Truth
<1>13. Believed(v)'
  <2>1. Believed(w)'
    BY <1>1, <1>12, BooksKept
  <2>2. v' = w
    BY <1>1, <1>11
  <2> QED
    BY <2>1, <2>2
<1>14. Captured'
  BY <1>1, <1>2 DEF Captured, SeqNow
<1> QED
  BY <1>1, <1>13, <1>14 DEF SteadyInv

-----------------------------------------------------------------------------
LEMMA StartsTrue ==
  ASSUME MbpInit
  PROVE  SteadyInv
<1>1. /\ Init /\ sent = [p \in Ports |-> 0] /\ net = << >>
      /\ books = [i \in Instruments |-> <<Empty>>] /\ groups = [i \in Instruments |-> << >>]
      /\ rest = << >> /\ v = NewConsumer
  BY DEF MbpInit, NetInit
<1>2. \A q \in Ports : pt[q].eraPos = 0 /\ pt[q].buf = {} /\ pt[q].accepted = {}
  BY <1>1 DEF Init, NewTracker
<1>3. "mktdata" \in Ports /\ "snapshot" \in Ports
  BY PlansAssumption, MbpPlansAssumption
<1>4. Pending("mktdata") = {} /\ Pending("snapshot") = {} /\ Remains = {}
  BY <1>1, <1>2, <1>3 DEF Pending, Remains
<1>5. OneEra
  BY <1>1, <1>2 DEF OneEra
<1>6. Captured
  BY <1>1 DEF Captured
<1>7. \A i \in Instruments : SeqNow(i) = 0
  BY <1>1 DEF SeqNow
<1>8. /\ v.instr = [i \in Instruments |-> NewInstr] /\ v.open = NoGroup
      /\ v.resetCount = NoCount /\ v.findings = {}
  BY <1>1 DEF NewConsumer
<1>9. /\ NewInstr.lastSeq = 0 /\ ~NewInstr.lastSeqSet /\ NewInstr.baseK = 0 /\ ~NewInstr.baseSet
      /\ NewInstr.journal = {}
  BY DEF NewInstr
<1>10. \A i \in Instruments : InstrTrue(v.instr[i], i)
  BY <1>7, <1>8, <1>9 DEF InstrTrue
<1>11. Believed(v)
  BY <1>8, <1>10 DEF Believed
<1>12. DeltasOK(v, {})
  BY <1>7, <1>8, <1>9 DEF DeltasOK, Reached
<1>13. GroupsOK(v, {})
  BY <1>8 DEF GroupsOK, SeriesOK, OpenOK
<1> QED
  BY <1>4, <1>5, <1>6, <1>11, <1>12, <1>13 DEF SteadyInv, Truth

LEMMA StuttersTrue ==
  ASSUME MbpInv, SteadyInv, Steady(plan), UNCHANGED allVars
  PROVE  SteadyInv'
<1>1. UNCHANGED <<pt, pos, next, v, running, net, sent, plan, feedEra, books, groups, rest>>
  BY DEF allVars, vars, netVars, pubVars
<1>2. PICK w, D, S : w = v /\ D = Pending("mktdata") /\ S = Pending("snapshot") \cup Remains
  OBVIOUS
<1>3. Captured /\ Believed(w) /\ (running => OneEra /\ Truth(w, D, S))
  BY <1>2 DEF SteadyInv
<1>4. Captured' /\ Believed(w)' /\ (running => OneEra' /\ Truth(w, D, S)')
  <2>1. (Truth(w, D, S) => Truth(w, D, S)') /\ (Believed(w) => Believed(w)')
    BY <1>1, BooksKept, GroupsKept DEF Truth
  <2>2. (Captured => Captured') /\ (OneEra => OneEra')
    BY <1>1 DEF Captured, SeqNow, OneEra, Whole
  <2> QED
    BY <1>3, <2>1, <2>2
<1>5. /\ v' = w /\ Pending("mktdata")' = D /\ (Pending("snapshot") \cup Remains)' = S
      /\ running' = running
  BY <1>1, <1>2 DEF Pending, Frame, Remains
<1> QED
  BY <1>4, <1>5 DEF SteadyInv

LEMMA MbpNextTrue ==
  ASSUME MbpInv, SteadyInv, CountsDiffer, [MbpNext]_allVars
  PROVE  SteadyInv'
<1>1. MbpInv'
  BY MbpNextKeeps
<1>2. PubTyped /\ PubTyped'
  BY <1>1 DEF MbpInv
<1>3. plan' = plan
  BY DEF MbpNext, SendLevel, SendClear, Delta, Heartbeat, SendGroup, SendRest,
         SendInstrumentReset, ChannelReset, PublisherOnly, Deliver, Lose, Dropping, EndRun,
         allVars, netVars
<1>4. CASE ~Steady(plan)
  BY <1>3, <1>4 DEF SteadyInv, Steady
<1>5. CASE Steady(plan)
  <2>1. plan.instruments \subseteq Instruments /\ Traded \subseteq Levels
    BY <1>2, InstrumentsOf DEF Traded
  <2>2. ASSUME NEW i \in Instruments, NEW l \in Levels, NEW q \in 0 .. MaxQty, SendLevel(i, l, q)
        PROVE  SteadyInv'
    BY <1>2, <1>5, <2>2, LevelIsSent
  <2>3. ASSUME NEW i \in Instruments, NEW l \in Levels, SendClear(i, l)
        PROVE  SteadyInv'
    BY <1>2, <1>5, <2>3, ClearIsSent
  <2>4. ASSUME NEW i \in Instruments, SendGroup(i)
        PROVE  SteadyInv'
    BY <1>2, <1>5, <2>4, GroupIsSent
  <2>5. \A i, ladder : ~SendInstrumentReset(i, ladder)
    BY <1>5 DEF SendInstrumentReset, Steady
  <2>6. ~ChannelReset
    BY <1>2, <1>5, InEra0 DEF ChannelReset, NextEra, Steady
  <2>7. ASSUME NEW n \in DOMAIN net, Deliver(n) \/ Lose(n)
        PROVE  SteadyInv'
    BY <1>5, <2>7, DeliverIsTrue, LostIsTrue
  <2>8. ASSUME Heartbeat \/ SendRest \/ EndRun \/ UNCHANGED allVars
        PROVE  SteadyInv'
    BY <1>2, <1>5, <2>8, HeartbeatIsSent, RestIsSent, EndRunIsTrue, StuttersTrue
  <2> QED
    BY <2>1, <2>2, <2>3, <2>4, <2>5, <2>6, <2>7, <2>8 DEF MbpNext
<1> QED
  BY <1>4, <1>5

LEMMA SteadyHolds ==
  ASSUME CountsDiffer
  PROVE  MbpSpec => [](MbpInv /\ SteadyInv)
<1>1. MbpInit => MbpInv /\ SteadyInv
  BY StartsRight, StartsTrue
<1>2. (MbpInv /\ SteadyInv) /\ [MbpNext]_allVars => (MbpInv /\ SteadyInv)'
  BY MbpNextKeeps, MbpNextTrue
<1> QED
  BY <1>1, <1>2, PTL DEF MbpSpec

(* Whatever is lost of the groups, and however the ports interleave, a     *)
(* history the validator trusts replays to the publisher's ladder at every *)
(* point (onDelta, onSnapshotEnd and rebuildAt), as long as no delta is    *)
(* lost.                                                                   *)
THEOREM TrustedLadders ==
  ASSUME CountsDiffer
  PROVE  MbpSpec => []("mktdata" \notin plan.lossy => TrustedLadderIsTrue)
<1>1. MbpInv /\ SteadyInv => ("mktdata" \notin plan.lossy => TrustedLadderIsTrue)
  <2> SUFFICES ASSUME MbpInv, SteadyInv, "mktdata" \notin plan.lossy, NEW i \in plan.instruments,
                      ~plan.correcting, plan.resets = 0,
                      v.instr[i].baseSet, ~v.instr[i].overflow,
                      NEW k \in v.instr[i].baseK .. v.instr[i].lastSeq
               PROVE  StateAsOf(v.instr[i], k) = books[i][k + 1]
    BY DEF TrustedLadderIsTrue
  <2>1. PubTyped /\ StateTyped(v)
    BY DEF MbpInv
  <2>2. i \in Instruments /\ books[i] \in Seq(Ladder)
    BY <2>1, InstrumentsOf DEF PubTyped
  <2>3. InstrTyped(v.instr[i]) /\ InstrTrue(v.instr[i], i)
    BY <2>1, <2>2 DEF SteadyInv, Steady, Believed, StateTyped
  <2> QED
    BY <2>2, <2>3, ReplayIsTrue
<1> QED
  BY <1>1, SteadyHolds, PTL

(* The reconstruction oracle (mbp.go, onSnapshotEnd) never charges a       *)
(* publisher that keeps its era, when no delta is lost.                    *)
THEOREM NoMismatch ==
  ASSUME CountsDiffer
  PROVE  MbpSpec => [](Steady(plan) => NoFalseMismatch)
<1>1. MbpInv /\ SteadyInv => (Steady(plan) => NoFalseMismatch)
  BY DEF SteadyInv, Believed, NoFalseMismatch
<1> QED
  BY <1>1, SteadyHolds, PTL

(* The density rule (mbp.go, onDelta) sees no gap where no delta is lost,  *)
(* whatever a group adopted ahead of its deltas does to the tracker.       *)
THEOREM NoDensityFinding ==
  ASSUME CountsDiffer
  PROVE  MbpSpec => [](Steady(plan) => NoFalseDensity)
<1>1. MbpInv /\ SteadyInv => (Steady(plan) => NoFalseDensity)
  BY DEF SteadyInv, Believed, NoFalseDensity
<1> QED
  BY <1>1, SteadyHolds, PTL
=============================================================================

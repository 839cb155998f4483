-------------------------- MODULE RefDataFeedProofs --------------------------
(***************************************************************************)
(* What the reference-data validator (engine/refdata.go, driven by         *)
(* Engine.Process and Engine.Flush) promises of the channel it reads.      *)
(*                                                                         *)
(* The heart is EraKnown: the validator's state is typed, and as long as   *)
(* the paths have read one era only, the set it serves is part of the one  *)
(* set published under its Reset Count and Manifest Seq (Coheres). It      *)
(* holds because every frame read says what was published (Readable). So   *)
(* RefInv follows the frames backwards: what a tracker buffers             *)
(* (BufferInv, with the types of the intake, IntakeInv), what is under way *)
(* (NetInv, which also keeps two frames of one port apart, so that none is *)
(* buffered twice), and what the publisher has said (PubInv: no Manifest   *)
(* Seq names two sets of an era).                                          *)
(*                                                                         *)
(* ReadAll, Walk and Flushed are recursive functions. A lemma says that    *)
(* one with the recursive equation exists, so that the definition has it;  *)
(* what each element keeps then holds at the end, because a least place    *)
(* where it failed would have a place before it.                           *)
(*                                                                         *)
(* The last part is about time: the verdict on a channel that never gets   *)
(* ready is taken at its deadline (DeadlineInv). No frame is heard twice   *)
(* (HeardInv), so each heard frame stays in its buffer until it is read;   *)
(* and the verdict waits past a deadline only for a frame sent in time and *)
(* still in a buffer (Awaited), since every frame read decides again.      *)
(*                                                                         *)
(* The end is about a session's end. Its two messages come on two ports,   *)
(* so the validator holds a Valid=0 that finds a set until EndOfSession is *)
(* read or a Valid=1 shows that the session goes on. EndInv says that the  *)
(* announcement cannot be missed: of what is still to be read, each        *)
(* Valid=0 has an announcement that is read before the Valid=1 summaries   *)
(* after it (Peace), unless crossed notes that one overtook. What is still *)
(* to be read keeps its order (SignedInv).                                 *)
(***************************************************************************)
EXTENDS RefDataFeed, PortSeriesProofs

Fields ==
  {"valid", "latest", "expected", "defs", "strikes", "seqEverSet", "prev", "frozen",
   "hadSet", "pending", "sessionEnd", "lastManifest", "first", "lastServing",
   "lastRefdata", "ready", "decided", "cycle", "seen", "defFrames", "prevDefFrame",
   "findings"}

(* The validator's state. *)
StateTyped(x) ==
  /\ DOMAIN x = Fields
  /\ x.valid \in BOOLEAN
  /\ x.defs \subseteq Ids /\ x.frozen \subseteq x.defs /\ x.seen \subseteq Ids
  /\ x.latest \in 0 .. M - 1
  /\ x.frozen # {} => x.valid /\ x.hadSet /\ x.ready # NoTS
  /\ x.pending \in {Nil, "clean", "dirty"}
  /\ x.valid => x.first # NoTS /\ x.lastServing # NoTS
  /\ \A id \in Ids : x.strikes[id] # NoStrike => x.valid

(* The state's set is, as far as it is known, the one set of pub with its  *)
(* Reset Count and Manifest Seq.                                           *)
Matches(x, rc, set) ==
  /\ ResetCountOf(set.era) = rc /\ set.seq = x.latest
  /\ x.expected = Cardinality(set.ids) /\ x.defs \subseteq set.ids

Coheres(x, rc, pub) == x.valid => \E set \in pub : Matches(x, rc, set)

(* y is x but for the fields of F. *)
SameBut(x, y, F) == DOMAIN y = DOMAIN x /\ \A f \in Fields \ F : y[f] = x[f]

SameSet(x, y) ==
  y.valid = x.valid /\ y.latest = x.latest /\ y.expected = x.expected /\ y.defs = x.defs

LEMMA Charged ==
  ASSUME NEW x, DOMAIN x = Fields, NEW cond, NEW rule, NEW dirty
  PROVE  SameBut(x, ChargeIf(x, cond, rule, dirty), {"findings"})
BY DEF ChargeIf, Charge, SameBut, Fields

LEMMA JudgedSame ==
  ASSUME NEW x, DOMAIN x = Fields, NEW m, NEW c
  PROVE  SameBut(x, Judged(x, m, c), {"findings"})
<1> DEFINE bump  == ChargeIf(x, BumpsByMore(x, m), "SEQ_BUMP_NOT_BY_ONE", c.dirty)
           count == ChargeIf(bump, CountChanges(x, m), "COUNT_CHANGE_NO_SEQ_BUMP", c.dirty)
<1>1. SameBut(x, bump, {"findings"})
  BY Charged
<1>2. SameBut(bump, count, {"findings"}) /\ DOMAIN bump = Fields
  BY <1>1, Charged DEF SameBut
<1>3. SameBut(count, Judged(x, m, c), {"findings"})
  BY <1>1, <1>2, Charged DEF SameBut, Judged
<1> HIDE DEF bump, count
<1> QED
  BY <1>1, <1>2, <1>3 DEF SameBut

LEMMA SameButTyped ==
  ASSUME NEW x, NEW y, StateTyped(x),
         SameBut(x, y, {"findings", "sessionEnd", "lastRefdata", "decided", "lastManifest"})
  PROVE  StateTyped(y) /\ SameSet(x, y)
BY DEF StateTyped, SameBut, SameSet, Fields

LEMMA DecideSame ==
  ASSUME NEW x, DOMAIN x = Fields, NEW c, NEW final \in BOOLEAN
  PROVE  SameBut(x, Decide(x, c, final), {"findings", "decided"})
<1>1. SameBut(x, Decided(x), {"decided"})
  BY DEF Decided, SameBut, Fields
<1>2. \A cond, rule, dirty :
        SameBut(Decided(x), ChargeIf(Decided(x), cond, rule, dirty), {"findings"})
  BY <1>1, Charged DEF SameBut
<1> QED
  BY <1>1, <1>2 DEF Decide, SameBut

LEMMA ArmedTyped ==
  ASSUME NEW x, StateTyped(x), NEW m, NEW c
  PROVE  StateTyped(Armed(x, m, c)) /\ SameSet(x, Armed(x, m, c))
BY DEF StateTyped, Fields, SameSet, Armed

LEMMA InvalidatedTyped ==
  ASSUME NEW x, StateTyped(x), NEW c
  PROVE  StateTyped(Invalidated(x, c)) /\ ~Invalidated(x, c).valid
<1> DEFINE y == Invalidated(x, c)
<1>1. /\ DOMAIN y = Fields
      /\ y.valid = FALSE /\ y.latest = 0 /\ y.defs = {} /\ y.frozen = {} /\ y.seen = {}
      /\ y.pending = x.pending /\ y.strikes = [id \in Ids |-> NoStrike]
  BY DEF StateTyped, Fields, Invalidated
<1>2. 0 \in 0 .. M - 1
  BY ModulusAssumption
<1> QED
  BY <1>1, <1>2 DEF StateTyped

LEMMA ResolvedTyped ==
  ASSUME NEW x, StateTyped(x), NEW resumed, NEW c
  PROVE  LET z == ResolveValidZero(x, resumed, c) IN StateTyped(z) /\ SameSet(x, z)
<1> DEFINE y == [x EXCEPT !.pending = Nil]
           z == ResolveValidZero(x, resumed, c)
<1>1. StateTyped(y) /\ SameSet(x, y)
  BY DEF StateTyped, Fields, SameSet
<1>2. CASE z = x
  BY <1>2 DEF SameSet
<1>3. CASE SameBut(y, z, {"findings"})
  <2>1. SameBut(y, z, {"findings", "sessionEnd", "lastRefdata", "decided", "lastManifest"})
    BY <1>3 DEF SameBut
  <2> HIDE DEF y
  <2> QED
    BY <1>1, <2>1, SameButTyped DEF SameSet
<1>4. z = x \/ SameBut(y, z, {"findings"})
  BY <1>1, Charged DEF ResolveValidZero, StateTyped
<1> QED
  BY <1>2, <1>3, <1>4

LEMMA ResumedTyped ==
  ASSUME NEW x, StateTyped(x), NEW c
  PROVE  StateTyped(Resumed(x, c)) /\ SameSet(x, Resumed(x, c))
<1> DEFINE z == ResolveValidZero(x, TRUE, c)
<1>1. StateTyped(z) /\ SameSet(x, z)
  BY ResolvedTyped
<1>2. SameBut(z, Resumed(x, c), {"sessionEnd"})
  BY <1>1 DEF Resumed, SameBut, Fields, StateTyped
<1> HIDE DEF z
<1> QED
  BY <1>1, <1>2, SameButTyped DEF SameBut, SameSet

LEMMA CloseCycleTyped ==
  ASSUME NEW x, StateTyped(x), NEW c
  PROVE  StateTyped(CloseCycle(x, c)) /\ SameSet(x, CloseCycle(x, c))
<1> DEFINE one(k)    == ChargeIf(x, k, "DEFINITION_CYCLE_COVERAGE", c.dirty)
           two(k, l) == ChargeIf(one(k), l, "NO_BURST_DEFINITIONS", c.dirty)
<1>1. ASSUME NEW y, SameBut(x, y, {"findings"})
      PROVE  StateTyped(OpenCycle(y, c)) /\ SameSet(x, OpenCycle(y, c))
  <2>1. StateTyped(y) /\ SameSet(x, y)
    <3>1. SameBut(x, y, {"findings", "sessionEnd", "lastRefdata", "decided", "lastManifest"})
      BY <1>1 DEF SameBut
    <3> QED
      BY <3>1, SameButTyped
  <2> QED
    BY <2>1 DEF OpenCycle, StateTyped, SameSet, Fields
<1>2. \A k, l : SameBut(x, two(k, l), {"findings"})
  <2>1. \A k : SameBut(x, one(k), {"findings"})
    BY Charged DEF StateTyped
  <2>2. \A k, l : SameBut(one(k), two(k, l), {"findings"})
    BY <2>1, Charged DEF SameBut, StateTyped
  <2> HIDE DEF one, two
  <2> QED
    BY <2>1, <2>2 DEF SameBut
<1>3. \/ CloseCycle(x, c) = x
      \/ \E k, l : CloseCycle(x, c) = OpenCycle(two(k, l), c)
  BY DEF CloseCycle
<1> HIDE DEF two
<1> QED
  BY <1>1, <1>2, <1>3 DEF SameSet

LEMMA NewPeriodTyped ==
  ASSUME NEW x, StateTyped(x), NEW c
  PROVE  StateTyped(NewPeriod(x, c)) /\ SameSet(x, NewPeriod(x, c))
<1> DEFINE y == Decide(x, c, TRUE)
<1>1. CASE x.valid \/ x.first = NoTS
  BY <1>1 DEF NewPeriod, SameSet
<1>2. CASE ~(x.valid \/ x.first = NoTS)
  <2>1. SameBut(x, y, {"findings", "decided"})
    BY DecideSame DEF StateTyped
  <2>2. StateTyped(y) /\ SameSet(x, y)
    <3>1. SameBut(x, y, {"findings", "sessionEnd", "lastRefdata", "decided", "lastManifest"})
      BY <2>1 DEF SameBut
    <3> HIDE DEF y
    <3> QED
      BY <3>1, SameButTyped
  <2> HIDE DEF y
  <2>3. NewPeriod(x, c) = [y EXCEPT !.ready = NoTS, !.first = NoTS, !.lastServing = NoTS,
                                    !.lastRefdata = NoTS, !.decided = FALSE]
    BY <1>2 DEF NewPeriod, y
  <2> QED
    BY <1>2, <2>2, <2>3 DEF StateTyped, SameSet, Fields
<1> QED
  BY <1>1, <1>2

(* What a summary of Valid=1 makes of the set. *)
LEMMA AppliedTyped ==
  ASSUME NEW x, StateTyped(x), NEW m, m.seq \in 0 .. M - 1, NEW c, c.ts # NoTS
  PROVE  LET y == Applied(x, m, c)
         IN  /\ StateTyped(y) /\ y.valid
             /\ \/ SameSet(x, y)
                \/ y.latest = m.seq /\ y.expected = m.count /\ y.defs = {}
<1> DEFINE adv   == Advancing(x, m)
           fresh == x.first # NoTS /\ Restarts(x, m)
           stamped == IF x.first = NoTS THEN [x EXCEPT !.first = c.ts]
                      ELSE IF fresh THEN [x EXCEPT !.first = c.ts, !.lastRefdata = NoTS,
                                                   !.ready = NoTS, !.decided = FALSE]
                      ELSE x
           set == [stamped EXCEPT !.valid = TRUE, !.seqEverSet = TRUE,
                                  !.prev = <<m.seq, m.count>>,
                                  !.latest   = IF adv THEN m.seq ELSE @,
                                  !.expected = IF adv THEN m.count ELSE @,
                                  !.defs     = IF adv THEN {} ELSE @,
                                  !.frozen   = IF adv THEN {} ELSE @,
                                  !.lastManifest = c.ts, !.lastServing = c.ts]
<1>1. /\ SameBut(x, stamped, {"first", "lastRefdata", "ready", "decided"})
      /\ stamped.first # NoTS
      /\ stamped.ready = x.ready \/ fresh
  BY DEF StateTyped, Fields, SameBut
<1>2. fresh => adv
  BY DEF Restarts, Advancing
<1> HIDE DEF fresh, stamped
<1>3. /\ SameBut(stamped, set, {"valid", "seqEverSet", "prev", "latest", "expected", "defs",
                                "frozen", "lastManifest", "lastServing"})
      /\ set.valid = TRUE /\ set.lastServing = c.ts
      /\ adv => set.latest = m.seq /\ set.expected = m.count /\ set.defs = {} /\ set.frozen = {}
      /\ ~adv => /\ set.latest = x.latest /\ set.expected = x.expected
                 /\ set.defs = x.defs /\ set.frozen = x.frozen
  BY <1>1 DEF SameBut, StateTyped, Fields
<1>4. ~adv => x.valid
  BY DEF Advancing
<1> HIDE DEF set, adv
<1>5. /\ DOMAIN set = Fields /\ set.first # NoTS /\ set.seen = x.seen /\ set.hadSet = x.hadSet
      /\ set.pending = x.pending /\ set.strikes = x.strikes
      /\ ~adv => set.ready = x.ready
  BY <1>1, <1>2, <1>3 DEF SameBut, StateTyped, Fields
<1>6. StateTyped(set)
  BY <1>3, <1>4, <1>5 DEF StateTyped
<1>7. /\ adv => set.latest = m.seq /\ set.expected = m.count /\ set.defs = {}
      /\ ~adv => SameSet(x, set)
  BY <1>3, <1>4 DEF SameSet, StateTyped
<1>8. Applied(x, m, c) = set \/ Applied(x, m, c) = OpenCycle(set, c)
  BY DEF Applied, set, stamped, adv, fresh
<1>9. StateTyped(OpenCycle(set, c)) /\ SameSet(set, OpenCycle(set, c))
  BY <1>6 DEF OpenCycle, StateTyped, SameSet, Fields
<1> QED
  BY <1>3, <1>6, <1>7, <1>8, <1>9 DEF SameSet

-----------------------------------------------------------------------------
(* A message says of its set what was published under its Manifest Seq.    *)
Truthful(m, rc, pub) ==
  \E set \in pub :
    /\ ResetCountOf(set.era) = rc /\ set.seq = m.seq
    /\ IF m.type = "summary" THEN m.valid \in {0, 1} /\ m.count = Cardinality(set.ids)
                             ELSE m.id \in set.ids

(* One set to each Reset Count and Manifest Seq. *)
Catalogue(pub) ==
  /\ \A set \in pub : set.seq \in 0 .. M - 1 /\ set.ids \subseteq Ids
  /\ \A a, b \in pub : ResetCountOf(a.era) = ResetCountOf(b.era) /\ a.seq = b.seq => a = b

LEMMA SameSetCoheres ==
  ASSUME NEW x, NEW y, SameSet(x, y), NEW rc, NEW pub, Coheres(x, rc, pub)
  PROVE  Coheres(y, rc, pub)
BY DEF SameSet, Coheres, Matches

LEMMA ServingKeeps ==
  ASSUME NEW pub, Catalogue(pub), NEW rc, NEW x, StateTyped(x), Coheres(x, rc, pub),
         NEW m, Truthful(m, rc, pub), m.type = "summary", NEW c, c.ts # NoTS
  PROVE  StateTyped(Serving(x, m, c)) /\ Coheres(Serving(x, m, c), rc, pub)
<1> DEFINE r == Resumed(x, c)
           d == ChargeIf(r, CadenceMissed(x, c), "MANIFEST_CADENCE", c.dirty)
           e == CloseCycle(d, c)
           n == NewPeriod(e, c)
           y == Applied(n, m, c)
<1>1. StateTyped(r) /\ SameSet(x, r)
  BY ResumedTyped
<1>2. StateTyped(d) /\ SameSet(x, d)
  <2>1. SameBut(r, d, {"findings"})
    BY <1>1, Charged DEF StateTyped
  <2>2. SameBut(r, d, {"findings", "sessionEnd", "lastRefdata", "decided", "lastManifest"})
    BY <2>1 DEF SameBut
  <2> HIDE DEF r, d
  <2> QED
    BY <1>1, <2>2, SameButTyped DEF SameSet
<1>3. StateTyped(e) /\ SameSet(d, e)
  BY <1>2, CloseCycleTyped
<1>4. StateTyped(n) /\ SameSet(e, n)
  BY <1>3, NewPeriodTyped
<1>5. SameSet(x, n)
  BY <1>2, <1>3, <1>4 DEF SameSet
<1>6. PICK set \in pub : /\ ResetCountOf(set.era) = rc /\ set.seq = m.seq
                        /\ m.count = Cardinality(set.ids) /\ m.seq \in 0 .. M - 1
  BY DEF Truthful, Catalogue
<1>7. /\ StateTyped(y)
      /\ SameSet(n, y) \/ (y.latest = m.seq /\ y.expected = m.count /\ y.defs = {})
  BY <1>4, <1>6, AppliedTyped
<1>8. Serving(x, m, c) = y
  BY DEF Serving
<1> HIDE DEF r, d, e, n, y
<1>9. Coheres(y, rc, pub)
  <2>1. CASE SameSet(n, y)
    BY <1>5, <2>1, SameSetCoheres
  <2>2. CASE y.latest = m.seq /\ y.expected = m.count /\ y.defs = {}
    BY <1>6, <2>2 DEF Coheres, Matches
  <2> QED
    BY <1>7, <2>1, <2>2
<1> QED
  BY <1>7, <1>8, <1>9

LEMMA SummaryKeeps ==
  ASSUME NEW pub, Catalogue(pub), NEW rc, NEW x, StateTyped(x), Coheres(x, rc, pub),
         NEW m, Truthful(m, rc, pub), m.type = "summary", NEW c, c.ts # NoTS
  PROVE  LET y == OnManifestSummary(x, m, c) IN StateTyped(y) /\ Coheres(y, rc, pub)
<1> DEFINE a == Armed(x, m, c)
           j == Judged(a, m, c)
<1>1. StateTyped(a) /\ Coheres(a, rc, pub)
  BY ArmedTyped, SameSetCoheres
<1>2. ASSUME NEW z, StateTyped(z), Coheres(z, rc, pub), NEW y, SameBut(z, y, {"findings"})
      PROVE  StateTyped(y) /\ Coheres(y, rc, pub)
  <2>1. SameBut(z, y, {"findings", "sessionEnd", "lastRefdata", "decided", "lastManifest"})
    BY <1>2 DEF SameBut
  <2> QED
    BY <1>2, <2>1, SameButTyped, SameSetCoheres
<1>3. \A rule : SameBut(x, ChargeIf(x, TRUE, rule, c.dirty), {"findings"})
  BY Charged DEF StateTyped
<1>4. \A rule : SameBut(a, ChargeIf(a, TRUE, rule, c.dirty), {"findings"})
  BY <1>1, Charged DEF StateTyped
<1>5. StateTyped(j) /\ Coheres(j, rc, pub)
  <2>1. SameBut(a, j, {"findings"})
    BY <1>1, JudgedSame DEF StateTyped
  <2> HIDE DEF a, j
  <2> QED
    BY <1>1, <1>2, <2>1
<1>6. StateTyped(Invalidated(j, c)) /\ Coheres(Invalidated(j, c), rc, pub)
  BY <1>5, InvalidatedTyped DEF Coheres
<1>7. StateTyped(Serving(j, m, c)) /\ Coheres(Serving(j, m, c), rc, pub)
  BY <1>5, ServingKeeps
<1>8. \/ \E rule : OnManifestSummary(x, m, c) = ChargeIf(x, TRUE, rule, c.dirty)
      \/ \E rule : OnManifestSummary(x, m, c) = ChargeIf(a, TRUE, rule, c.dirty)
      \/ OnManifestSummary(x, m, c) \in {j, Invalidated(j, c), Serving(j, m, c)}
  BY DEF OnManifestSummary
<1> HIDE DEF a, j
<1> QED
  BY <1>1, <1>2, <1>3, <1>4, <1>5, <1>6, <1>7, <1>8

LEMMA DefinitionKeeps ==
  ASSUME NEW pub, Catalogue(pub), NEW rc, NEW x, StateTyped(x), Coheres(x, rc, pub),
         NEW m, Truthful(m, rc, pub), m.type # "summary", NEW c, c.ts # NoTS
  PROVE  LET y == OnInstrumentDef(x, m, c) IN StateTyped(y) /\ Coheres(y, rc, pub)
<1> DEFINE stale  == ChargeIf(x, x.valid /\ m.seq # x.latest, "STALE_SEQ_TAG_AFTER_BUMP", c.dirty)
           after  == ChargeIf(stale, x.frozen # {} /\ m.id \notin x.frozen,
                              "SET_CHANGE_NO_SEQ_BUMP", c.dirty)
           joined == [after EXCEPT !.defs = @ \cup {m.id}]
           within == ChargeIf(joined, Cardinality(joined.defs) > x.expected,
                              "COUNT_VS_DISTINCT_DEFS", c.dirty)
<1>1. SameBut(x, stale, {"findings"})
  BY Charged DEF StateTyped
<1>2. StateTyped(stale) /\ SameSet(x, stale)
  <2>1. SameBut(x, stale, {"findings", "sessionEnd", "lastRefdata", "decided", "lastManifest"})
    BY <1>1 DEF SameBut
  <2> HIDE DEF stale
  <2> QED
    BY <2>1, SameButTyped
<1>3. CASE ~Accepts(x, m)
  <2>1. OnInstrumentDef(x, m, c) = stale
    BY <1>3 DEF OnInstrumentDef
  <2> HIDE DEF stale
  <2> QED
    BY <1>2, <2>1, SameSetCoheres
<1>4. CASE Accepts(x, m)
  <2>1. SameBut(x, after, {"findings"})
    <3>1. SameBut(stale, after, {"findings"})
      BY <1>1, Charged DEF StateTyped, SameBut
    <3> HIDE DEF stale, after
    <3> QED
      BY <1>1, <3>1 DEF SameBut
  <2>2. SameBut(x, joined, {"findings", "defs"}) /\ joined.defs = x.defs \cup {m.id}
    <3> HIDE DEF after
    <3> QED
      BY <2>1 DEF SameBut, StateTyped, Fields
  <2>3. SameBut(x, within, {"findings", "defs"}) /\ within.defs = x.defs \cup {m.id}
    <3>1. SameBut(joined, within, {"findings"})
      BY <2>2, Charged DEF StateTyped, SameBut
    <3> HIDE DEF joined, within
    <3> QED
      BY <2>2, <3>1 DEF SameBut, StateTyped, Fields
  <2>4. OnInstrumentDef(x, m, c) =
          OnDefinitionStrike(NoteInCycle(Freeze(within, c), m, c), m, c)
    BY <1>4 DEF OnInstrumentDef
  <2> HIDE DEF stale, after, joined, within
  <2>5. PICK set \in pub : Matches(x, rc, set)
    BY <1>4 DEF Coheres, Accepts
  <2>6. m.id \in set.ids /\ set.ids \subseteq Ids
    BY <2>5, <1>4 DEF Truthful, Catalogue, Accepts, Matches
  <2>7. StateTyped(within) /\ within.valid /\ Matches(within, rc, set)
    <3>1. /\ DOMAIN within = Fields /\ within.valid /\ within.valid = x.valid
          /\ within.latest = x.latest
          /\ within.expected = x.expected /\ within.frozen = x.frozen /\ within.seen = x.seen
          /\ within.hadSet = x.hadSet /\ within.ready = x.ready /\ within.pending = x.pending
          /\ within.first = x.first /\ within.lastServing = x.lastServing
          /\ within.strikes = x.strikes
      BY <2>3, <1>4 DEF SameBut, StateTyped, Fields, Accepts
    <3> QED
      BY <2>3, <2>5, <2>6, <3>1 DEF StateTyped, Matches
  <2>8. StateTyped(Freeze(within, c)) /\ SameSet(within, Freeze(within, c))
    BY <2>7 DEF Freeze, StateTyped, SameSet, Fields
  <2>9. ASSUME NEW z, StateTyped(z)
        PROVE  StateTyped(NoteInCycle(z, m, c)) /\ SameSet(z, NoteInCycle(z, m, c))
    BY <2>6, <2>9 DEF NoteInCycle, StateTyped, SameSet, Fields
  <2>10. ASSUME NEW z, StateTyped(z), z.valid
         PROVE  /\ StateTyped(OnDefinitionStrike(z, m, c))
                /\ SameSet(z, OnDefinitionStrike(z, m, c))
    <3>1. PICK k, l : OnDefinitionStrike(z, m, c) =
                        [ChargeIf(ChargeIf(z, k, "PRESENCE_STABLE", FALSE), l,
                                  "FIXED_STAYS_FIXED", FALSE)
                           EXCEPT !.strikes[m.id] = [strike |-> m.strike, symbol |-> m.symbol,
                                                     seq |-> z.latest, taints |-> c.taints]]
      BY DEF OnDefinitionStrike
    <3> DEFINE shape == ChargeIf(z, k, "PRESENCE_STABLE", FALSE)
               kept  == ChargeIf(shape, l, "FIXED_STAYS_FIXED", FALSE)
    <3>2. SameBut(z, shape, {"findings"})
      BY <2>10, Charged DEF StateTyped
    <3>3. SameBut(shape, kept, {"findings"})
      <4>1. DOMAIN shape = Fields
        BY <2>10, <3>2 DEF StateTyped, SameBut
      <4> HIDE DEF shape
      <4> QED
        BY <4>1, Charged
    <3> HIDE DEF shape, kept
    <3>4. SameBut(z, kept, {"findings"})
      BY <3>2, <3>3 DEF SameBut
    <3>5. SameBut(z, OnDefinitionStrike(z, m, c), {"findings", "strikes"})
      BY <2>10, <3>1, <3>4 DEF SameBut, shape, kept, StateTyped, Fields
    <3> QED
      BY <2>10, <3>5 DEF SameBut, StateTyped, Fields, SameSet
  <2>11. \A z : SameSet(within, z) => z.valid /\ Matches(z, rc, set)
    BY <2>7 DEF SameSet, Matches
  <2> DEFINE frozen == Freeze(within, c)
             noted  == NoteInCycle(frozen, m, c)
             struck == OnDefinitionStrike(noted, m, c)
  <2>12. StateTyped(frozen) /\ SameSet(within, frozen)
    BY <2>8
  <2> HIDE DEF frozen
  <2>13. StateTyped(noted) /\ SameSet(frozen, noted)
    BY <2>9, <2>12
  <2> HIDE DEF noted
  <2>14. SameSet(within, noted)
    BY <2>12, <2>13 DEF SameSet
  <2>15. noted.valid
    BY <2>11, <2>14
  <2>16. StateTyped(struck) /\ SameSet(noted, struck)
    BY <2>10, <2>13, <2>15
  <2> HIDE DEF struck
  <2>17. SameSet(within, struck)
    BY <2>14, <2>16 DEF SameSet
  <2>18. Coheres(struck, rc, pub)
    BY <2>11, <2>17 DEF Coheres
  <2> QED
    BY <2>4, <2>16, <2>18 DEF frozen, noted, struck
<1> QED
  BY <1>3, <1>4

-----------------------------------------------------------------------------
(* The messages of a datagram, one after the other.                        *)
IsReading(f, k, w, msgs, c) ==
  f = [n \in 0 .. k |-> IF n = 0 THEN w ELSE OnRefData(f[n - 1], msgs[n], c)]

LEMMA ReadingExists ==
  ASSUME NEW k \in Nat, NEW w, NEW msgs, NEW c
  PROVE  \E f : IsReading(f, k, w, msgs, c)
<1> DEFINE Bad == {j \in Nat : ~\E f : IsReading(f, j, w, msgs, c)}
<1> SUFFICES ASSUME Bad # {} PROVE FALSE
  OBVIOUS
<1>1. PICK j \in Bad : \A m \in Bad : j <= m
  BY LeastOf
<1>2. j # 0
  <2>1. IsReading([n \in 0 .. 0 |-> w], 0, w, msgs, c)
    BY DEF IsReading
  <2> QED
    BY <2>1
<1>3. j - 1 \in Nat /\ j - 1 \notin Bad
  BY <1>1, <1>2
<1>4. PICK f : IsReading(f, j - 1, w, msgs, c)
  BY <1>3
<1> DEFINE g == [n \in 0 .. j |-> IF n <= j - 1 THEN f[n] ELSE OnRefData(f[j - 1], msgs[j], c)]
<1>5. IsReading(g, j, w, msgs, c)
  <2>1. \A n \in 0 .. j - 1 : f[n] = IF n = 0 THEN w ELSE OnRefData(f[n - 1], msgs[n], c)
    BY <1>3, <1>4 DEF IsReading
  <2>2. ASSUME NEW n \in 0 .. j
        PROVE  g[n] = IF n = 0 THEN w ELSE OnRefData(g[n - 1], msgs[n], c)
    <3>1. CASE n <= j - 1
      BY <1>3, <2>1, <3>1
    <3>2. CASE n = j
      BY <1>3, <2>1, <3>2
    <3> QED
      BY <1>3, <3>1, <3>2
  <2>3. g = [n \in 0 .. j |-> g[n]]
    OBVIOUS
  <2> HIDE DEF g
  <2> QED
    BY <2>2, <2>3 DEF IsReading
<1> QED
  BY <1>1, <1>5

LEMMA ReadAllReads ==
  ASSUME NEW w, NEW msgs, NEW c, Len(msgs) \in Nat
  PROVE  \E f : IsReading(f, Len(msgs), w, msgs, c) /\ ReadAll(w, msgs, c) = f[Len(msgs)]
<1> DEFINE read[n \in 0 .. Len(msgs)] == IF n = 0 THEN w ELSE OnRefData(read[n - 1], msgs[n], c)
<1>1. \E f : IsReading(f, Len(msgs), w, msgs, c)
  BY ReadingExists
<1>2. read = [n \in 0 .. Len(msgs) |-> IF n = 0 THEN w ELSE OnRefData(read[n - 1], msgs[n], c)]
  BY <1>1 DEF IsReading
<1>3. ReadAll(w, msgs, c) = read[Len(msgs)]
  BY DEF ReadAll
<1> HIDE DEF read
<1> QED
  BY <1>2, <1>3 DEF IsReading

LEMMA ReadAllKeeps ==
  ASSUME NEW pub, Catalogue(pub), NEW rc, NEW x, StateTyped(x), Coheres(x, rc, pub),
         NEW msgs, Len(msgs) \in Nat, \A n \in 1 .. Len(msgs) : Truthful(msgs[n], rc, pub),
         NEW c, c.ts # NoTS
  PROVE  StateTyped(ReadAll(x, msgs, c)) /\ Coheres(ReadAll(x, msgs, c), rc, pub)
<1>1. PICK f : /\ IsReading(f, Len(msgs), x, msgs, c)
               /\ ReadAll(x, msgs, c) = f[Len(msgs)]
  BY ReadAllReads
<1>2. \A n \in 0 .. Len(msgs) : f[n] = IF n = 0 THEN x ELSE OnRefData(f[n - 1], msgs[n], c)
  BY <1>1 DEF IsReading
<1> DEFINE Bad == {n \in 0 .. Len(msgs) : ~(StateTyped(f[n]) /\ Coheres(f[n], rc, pub))}
<1>3. Bad = {}
  <2> SUFFICES ASSUME Bad # {} PROVE FALSE
    OBVIOUS
  <2>1. PICK n \in Bad : \A k \in Bad : n <= k
    <3>1. Bad \in SUBSET Nat
      OBVIOUS
    <3> HIDE DEF Bad
    <3> QED
      BY <3>1, LeastOf
  <2>2. n # 0
    BY <1>2, <2>1
  <2>3. n - 1 \in 0 .. Len(msgs) /\ n - 1 \notin Bad
    BY <2>1, <2>2
  <2>4. StateTyped(f[n - 1]) /\ Coheres(f[n - 1], rc, pub)
    BY <2>3
  <2>5. f[n] = OnRefData(f[n - 1], msgs[n], c) /\ Truthful(msgs[n], rc, pub)
    BY <1>2, <2>1, <2>2
  <2>6. StateTyped(f[n]) /\ Coheres(f[n], rc, pub)
    BY <2>4, <2>5, SummaryKeeps, DefinitionKeeps DEF OnRefData
  <2> QED
    BY <2>1, <2>6
<1> QED
  BY <1>1, <1>3

-----------------------------------------------------------------------------
(* The state the frames are read into, and what holds of it after each.    *)

FirstCount(rc) == plan.resets = 0 => rc = ResetCountOf(0)

ReadInOneEra(e) ==
  \A q \in Ports : e[q].refdataEra # NoEra => q \in plan.paths /\ FirstCount(e[q].refdataEra)

InEra(e, rc) == \A q \in Ports : e[q].refdataEra \in {NoEra, rc}

EraKnown(s, pub) ==
  /\ DOMAIN s = {"pt", "ext", "v"}
  /\ DOMAIN s.ext = Ports /\ \A q \in Ports : "refdataEra" \in DOMAIN s.ext[q]
  /\ ReadInOneEra(s.ext)
  /\ StateTyped(s.v)
  /\ \A rc : InEra(s.ext, rc) => Coheres(s.v, rc, pub)

(* A frame of a refdata path. *)
Readable(p, item, pub) ==
  /\ p \in plan.paths /\ item.rc # NoEra /\ FirstCount(item.rc)
  /\ Len(item.body.msgs) \in Nat /\ SentAt(item) \in Nat
  /\ \A n \in 1 .. Len(item.body.msgs) : Truthful(item.body.msgs[n], item.rc, pub)

LEMMA FrameKeeps ==
  ASSUME SoleReader(plan), NEW pub, Catalogue(pub), NEW s, EraKnown(s, pub),
         NEW p \in Ports, NEW item, Readable(p, item, pub)
  PROVE  /\ EraKnown(OnRefDataFrame(s, p, item), pub)
         /\ OnRefDataFrame(s, p, item).pt = s.pt
<1> DEFINE c     == Context(s, p, SentAt(item))
           fresh == IF s.ext[p].refdataEra \notin {NoEra, item.rc} THEN OnResetChannel(s.v) ELSE s.v
           all   == ReadAll(fresh, item.body.msgs, c)
           w     == Clocked(all, c)
           y     == Decide(w, WithBuffers(c, s, w), FALSE)
           u     == OnRefDataFrame(s, p, item)
<1>1. u = [s EXCEPT !.v = y, !.ext[p].refdataEra = item.rc]
  BY DEF OnRefDataFrame
<1>2. c.ts # NoTS
  BY DEF Context, Readable, NoTS
<1>3. StateTyped(fresh) /\ Coheres(fresh, item.rc, pub)
  <2>1. CASE s.ext[p].refdataEra \notin {NoEra, item.rc}
    <3> DEFINE z == OnResetChannel(s.v)
    <3>1. /\ DOMAIN z = Fields
          /\ z.valid = FALSE /\ z.latest = 0 /\ z.defs = {} /\ z.frozen = {} /\ z.seen = {}
          /\ z.pending = s.v.pending /\ z.strikes = [id \in Ids |-> NoStrike]
      BY DEF OnResetChannel, NewRefData, Fields
    <3>2. 0 \in 0 .. M - 1
      BY ModulusAssumption
    <3> QED
      BY <2>1, <3>1, <3>2 DEF StateTyped, Coheres, EraKnown
  <2>2. CASE s.ext[p].refdataEra \in {NoEra, item.rc}
    <3>1. InEra(s.ext, item.rc)
      BY <2>2 DEF InEra, EraKnown, ReadInOneEra, Readable, SoleReader, FirstCount
    <3> QED
      BY <2>2, <3>1 DEF EraKnown
  <2> QED
    BY <2>1, <2>2
<1> HIDE DEF c, fresh
<1>4. StateTyped(all) /\ Coheres(all, item.rc, pub)
  BY <1>2, <1>3, ReadAllKeeps DEF Readable
<1> HIDE DEF all
<1>5. SameBut(all, w, {"lastRefdata"})
  BY <1>4 DEF Clocked, SameBut, StateTyped, Fields
<1>6. SameBut(w, y, {"findings", "decided"})
  <2>1. DOMAIN w = Fields
    BY <1>4, <1>5 DEF SameBut, StateTyped
  <2> HIDE DEF w
  <2> QED
    BY <2>1, DecideSame
<1> HIDE DEF w, y
<1>7. SameBut(all, y, {"findings", "sessionEnd", "lastRefdata", "decided", "lastManifest"})
  BY <1>5, <1>6 DEF SameBut
<1>8. StateTyped(y) /\ Coheres(y, item.rc, pub)
  BY <1>4, <1>7, SameButTyped, SameSetCoheres
<1>9. /\ DOMAIN u = {"pt", "ext", "v"} /\ u.v = y /\ u.pt = s.pt
      /\ DOMAIN u.ext = Ports /\ u.ext[p].refdataEra = item.rc
      /\ \A q \in Ports : "refdataEra" \in DOMAIN u.ext[q]
      /\ \A q \in Ports : q # p => u.ext[q] = s.ext[q]
  BY <1>1 DEF EraKnown
<1>10. ReadInOneEra(u.ext)
  BY <1>9 DEF ReadInOneEra, EraKnown, Readable
<1>11. \A rc : InEra(u.ext, rc) => rc = item.rc
  BY <1>9 DEF InEra, Readable
<1> HIDE DEF u
<1> QED
  BY <1>8, <1>9, <1>10, <1>11 DEF EraKnown, u

(* classify of one item: only its port's tracker moves, and the item       *)
(* leaves the buffer.                                                      *)
OnlyPort(s, u, p) ==
  /\ DOMAIN u.pt = DOMAIN s.pt
  /\ \A q \in DOMAIN s.pt : q # p => u.pt[q] = s.pt[q]
  /\ "buf" \in DOMAIN s.pt[p] => /\ "buf" \in DOMAIN u.pt[p]
                               /\ u.pt[p].buf \subseteq s.pt[p].buf

Popped(t, item) == [Classify(t, {item}) EXCEPT !.buf = @ \ {item}]

LEMMA ItemKeeps ==
  ASSUME SoleReader(plan), NEW pub, Catalogue(pub), NEW s, EraKnown(s, pub),
         NEW p \in Ports, NEW item, p # "mktdata" => Readable(p, item, pub),
         p \in DOMAIN s.pt
  PROVE  LET u == ClassifyItem(p, s, item)
         IN  /\ EraKnown(u, pub) /\ OnlyPort(s, u, p)
             /\ u.pt[p] = Popped(s.pt[p], item)
<1> DEFINE t    == s.pt[p]
           gap  == HasGap(t, FreshOf(t, {item}))
           seen == [s EXCEPT !.pt[p] = [Classify(t, {item}) EXCEPT !.buf = @ \ {item}],
                             !.ext[p] = Tainted(@, gap)]
           u    == ClassifyItem(p, s, item)
<1>1. u \in {seen, OnMktdataFrame(seen, item), OnRefDataFrame(seen, p, item)}
      /\ (p = "mktdata" => u \in {seen, OnMktdataFrame(seen, item)})
  BY DEF ClassifyItem
<1>2. /\ DOMAIN seen = {"pt", "ext", "v"} /\ seen.v = s.v
      /\ DOMAIN seen.ext = Ports
      /\ seen.ext[p] = Tainted(s.ext[p], gap)
      /\ \A q \in Ports : q # p => seen.ext[q] = s.ext[q]
      /\ DOMAIN seen.pt = DOMAIN s.pt
      /\ \A q \in DOMAIN s.pt : q # p => seen.pt[q] = s.pt[q]
      /\ seen.pt[p] = [Classify(t, {item}) EXCEPT !.buf = @ \ {item}]
  BY DEF EraKnown
<1> HIDE DEF seen
<1>3. /\ "refdataEra" \in DOMAIN Tainted(s.ext[p], gap)
      /\ Tainted(s.ext[p], gap).refdataEra = s.ext[p].refdataEra
  BY DEF Tainted, EraKnown
<1>4. /\ \A q \in Ports : "refdataEra" \in DOMAIN seen.ext[q]
      /\ \A q \in Ports : seen.ext[q].refdataEra = s.ext[q].refdataEra
  BY <1>2, <1>3 DEF EraKnown
<1>5. EraKnown(seen, pub)
  BY <1>2, <1>4 DEF EraKnown, ReadInOneEra, InEra
<1>6. EraKnown(OnMktdataFrame(seen, item), pub) /\ OnMktdataFrame(seen, item).pt = seen.pt
  <2> DEFINE z == OnMktdataFrame(seen, item)
  <2>1. /\ DOMAIN z = {"pt", "ext", "v"} /\ z.pt = seen.pt /\ z.ext = seen.ext
        /\ SameBut(seen.v, z.v, {"sessionEnd"})
    BY <1>5 DEF OnMktdataFrame, EraKnown, SameBut, StateTyped, Fields
  <2>2. SameBut(seen.v, z.v, {"findings", "sessionEnd", "lastRefdata", "decided", "lastManifest"})
    BY <2>1 DEF SameBut
  <2>3. StateTyped(z.v) /\ SameSet(seen.v, z.v)
    BY <1>5, <2>2, SameButTyped DEF EraKnown
  <2>4. \A rc : Coheres(seen.v, rc, pub) => Coheres(z.v, rc, pub)
    BY <2>3, SameSetCoheres
  <2> QED
    BY <1>5, <2>1, <2>3, <2>4 DEF EraKnown
<1>7. p # "mktdata" => /\ EraKnown(OnRefDataFrame(seen, p, item), pub)
                      /\ OnRefDataFrame(seen, p, item).pt = seen.pt
  BY <1>5, FrameKeeps
<1>8. EraKnown(u, pub) /\ u.pt = seen.pt
  BY <1>1, <1>5, <1>6, <1>7
<1>9. "buf" \in DOMAIN t => /\ "buf" \in DOMAIN seen.pt[p]
                            /\ seen.pt[p].buf \subseteq t.buf
  BY <1>2 DEF Classify
<1>10. seen.pt[p] = Popped(t, item)
  BY <1>2 DEF Popped
<1> HIDE DEF u, t
<1> QED
  BY <1>2, <1>8, <1>9, <1>10 DEF OnlyPort, u, t

-----------------------------------------------------------------------------
(* The items of a batch, one after the other.                              *)
WalkStep(p, before, S, n) ==
  IF At(S, n) = {} THEN before ELSE ClassifyItem(p, before, CHOOSE item \in At(S, n) : TRUE)

IsWalk(f, k, p, s, S) ==
  f = [n \in -1 .. k |-> IF n = -1 THEN s ELSE WalkStep(p, f[n - 1], S, n)]

LEMMA WalkExists ==
  ASSUME NEW k \in Nat, NEW p, NEW s, NEW S
  PROVE  \E f : IsWalk(f, k, p, s, S)
<1> DEFINE Bad == {j \in Nat : ~\E f : IsWalk(f, j, p, s, S)}
<1> SUFFICES ASSUME Bad # {} PROVE FALSE
  OBVIOUS
<1>1. PICK j \in Bad : \A m \in Bad : j <= m
  BY LeastOf
<1>2. ASSUME NEW f, IsWalk(f, j - 1, p, s, S)
      PROVE  FALSE
  <2> DEFINE g == [n \in -1 .. j |-> IF n <= j - 1 THEN f[n] ELSE WalkStep(p, f[j - 1], S, j)]
  <2>1. \A n \in -1 .. j - 1 : f[n] = IF n = -1 THEN s ELSE WalkStep(p, f[n - 1], S, n)
    BY <1>1, <1>2 DEF IsWalk
  <2>2. ASSUME NEW n \in -1 .. j
        PROVE  g[n] = IF n = -1 THEN s ELSE WalkStep(p, g[n - 1], S, n)
    <3>1. CASE n <= j - 1
      BY <1>1, <2>1, <3>1
    <3>2. CASE n = j
      BY <1>1, <2>1, <3>2
    <3> QED
      BY <1>1, <3>1, <3>2
  <2>3. g = [n \in -1 .. j |-> g[n]]
    OBVIOUS
  <2>4. IsWalk(g, j, p, s, S)
    <3> HIDE DEF g
    <3> QED
      BY <2>2, <2>3 DEF IsWalk
  <2> HIDE DEF g
  <2> QED
    BY <1>1, <2>4
<1>3. CASE j = 0
  <2>1. IsWalk([n \in -1 .. -1 |-> s], -1, p, s, S)
    BY DEF IsWalk
  <2> QED
    BY <1>2, <1>3, <2>1
<1>4. CASE j # 0
  <2>1. j - 1 \in Nat /\ j - 1 \notin Bad
    BY <1>1, <1>4
  <2> QED
    BY <1>2, <2>1
<1> QED
  BY <1>3, <1>4

LEMMA LastPlaceNat == LastPlace \in Nat
<1>1. MaxSeq * (W + 1) \in Nat
  BY WindowAssumption, SeqAssumption
<1> QED
  BY <1>1, WindowAssumption DEF LastPlace

LEMMA WalkWalks ==
  ASSUME NEW p, NEW s, NEW S
  PROVE  \E f : IsWalk(f, LastPlace, p, s, S) /\ Walk(p, s, S) = f[LastPlace]
<1> DEFINE walked[n \in -1 .. LastPlace] ==
             IF n = -1 THEN s
             ELSE IF At(S, n) = {} THEN walked[n - 1]
             ELSE ClassifyItem(p, walked[n - 1], CHOOSE item \in At(S, n) : TRUE)
<1>1. \E f : IsWalk(f, LastPlace, p, s, S)
  BY WalkExists, LastPlaceNat
<1>2. walked = [n \in -1 .. LastPlace |->
                  IF n = -1 THEN s
                  ELSE IF At(S, n) = {} THEN walked[n - 1]
                  ELSE ClassifyItem(p, walked[n - 1], CHOOSE item \in At(S, n) : TRUE)]
  BY <1>1 DEF IsWalk, WalkStep
<1>3. Walk(p, s, S) = walked[LastPlace]
  BY DEF Walk
<1> HIDE DEF walked
<1> QED
  BY <1>2, <1>3 DEF IsWalk, WalkStep

LEMMA WalkKeeps ==
  ASSUME SoleReader(plan), NEW pub, Catalogue(pub), NEW s, EraKnown(s, pub),
         NEW p \in Ports, p \in DOMAIN s.pt,
         NEW S, p # "mktdata" => \A item \in S : Readable(p, item, pub)
  PROVE  EraKnown(Walk(p, s, S), pub) /\ OnlyPort(s, Walk(p, s, S), p)
<1>1. PICK f : IsWalk(f, LastPlace, p, s, S) /\ Walk(p, s, S) = f[LastPlace]
  BY WalkWalks
<1>2. \A n \in -1 .. LastPlace : f[n] = IF n = -1 THEN s ELSE WalkStep(p, f[n - 1], S, n)
  BY <1>1, LastPlaceNat DEF IsWalk
<1> DEFINE Good(u) == EraKnown(u, pub) /\ OnlyPort(s, u, p)
           Bad == {n \in 0 .. LastPlace : ~Good(f[n])}
<1>3. Good(f[-1])
  BY <1>2, LastPlaceNat DEF OnlyPort
<1>4. ASSUME NEW n \in 0 .. LastPlace, Good(f[n - 1])
      PROVE  Good(f[n])
  <2>1. f[n] = WalkStep(p, f[n - 1], S, n)
    BY <1>2, LastPlaceNat
  <2>2. CASE At(S, n) = {}
    BY <1>4, <2>1, <2>2 DEF WalkStep
  <2>3. CASE At(S, n) # {}
    <3> DEFINE item == CHOOSE i \in At(S, n) : TRUE
               u    == f[n - 1]
    <3>1. item \in S
      BY <2>3 DEF At
    <3>2. f[n] = ClassifyItem(p, u, item)
      BY <2>1, <2>3 DEF WalkStep
    <3>3. p \in DOMAIN u.pt
      BY <1>4 DEF OnlyPort
    <3> HIDE DEF item, u
    <3>4. EraKnown(u, pub) /\ OnlyPort(s, u, p)
      BY <1>4 DEF u
    <3>5. p # "mktdata" => Readable(p, item, pub)
      BY <3>1
    <3>6. EraKnown(ClassifyItem(p, u, item), pub) /\ OnlyPort(u, ClassifyItem(p, u, item), p)
      BY <3>3, <3>4, <3>5, ItemKeeps
    <3> QED
      BY <3>2, <3>4, <3>6 DEF OnlyPort
  <2> QED
    BY <2>2, <2>3
<1> HIDE DEF Good
<1>5. Bad = {}
  <2> SUFFICES ASSUME Bad # {} PROVE FALSE
    OBVIOUS
  <2>1. PICK n \in Bad : \A k \in Bad : n <= k
    <3>1. Bad \in SUBSET Nat
      OBVIOUS
    <3> HIDE DEF Bad
    <3> QED
      BY <3>1, LeastOf
  <2>2. Good(f[n - 1])
    <3>1. CASE n = 0
      BY <1>3, <3>1
    <3>2. CASE n # 0
      <4>1. n - 1 \in 0 .. LastPlace /\ n - 1 \notin Bad
        BY <2>1, <3>2, LastPlaceNat
      <4> QED
        BY <4>1
    <3> QED
      BY <3>1, <3>2
  <2> QED
    BY <1>4, <2>1, <2>2
<1>6. Good(f[LastPlace])
  BY <1>5, LastPlaceNat
<1> QED
  BY <1>1, <1>6 DEF Good

-----------------------------------------------------------------------------
(* Flush, port after port.                                                 *)
FlushStep(before, n) == Walk(FlushOrder[n], before, before.pt[FlushOrder[n]].buf)

Engine == [pt |-> pt, ext |-> ext, v |-> v]

IsFlush(f, k) == f = [n \in 0 .. k |-> IF n = 0 THEN Engine ELSE FlushStep(f[n - 1], n)]

LEMMA FlushExists ==
  ASSUME NEW k \in Nat
  PROVE  \E f : IsFlush(f, k)
<1> DEFINE Bad == {j \in Nat : ~\E f : IsFlush(f, j)}
<1> SUFFICES ASSUME Bad # {} PROVE FALSE
  OBVIOUS
<1>1. PICK j \in Bad : \A m \in Bad : j <= m
  BY LeastOf
<1>2. j # 0
  <2>1. IsFlush([n \in 0 .. 0 |-> Engine], 0)
    BY DEF IsFlush
  <2> QED
    BY <2>1
<1>3. j - 1 \in Nat /\ j - 1 \notin Bad
  BY <1>1, <1>2
<1>4. PICK f : IsFlush(f, j - 1)
  BY <1>3
<1> DEFINE g == [n \in 0 .. j |-> IF n <= j - 1 THEN f[n] ELSE FlushStep(f[j - 1], j)]
<1>5. IsFlush(g, j)
  <2>1. \A n \in 0 .. j - 1 : f[n] = IF n = 0 THEN Engine ELSE FlushStep(f[n - 1], n)
    BY <1>3, <1>4 DEF IsFlush
  <2>2. ASSUME NEW n \in 0 .. j
        PROVE  g[n] = IF n = 0 THEN Engine ELSE FlushStep(g[n - 1], n)
    <3>1. CASE n <= j - 1
      BY <1>3, <2>1, <3>1
    <3>2. CASE n = j
      BY <1>3, <2>1, <3>2
    <3> QED
      BY <1>3, <3>1, <3>2
  <2>3. g = [n \in 0 .. j |-> g[n]]
    OBVIOUS
  <2> HIDE DEF g
  <2> QED
    BY <2>2, <2>3 DEF IsFlush
<1> QED
  BY <1>1, <1>5

LEMMA OrderLen == Len(FlushOrder) \in Nat /\ \A n \in 1 .. Len(FlushOrder) : FlushOrder[n] \in Ports
BY PlansAssumption

LEMMA FlushFlushes ==
  \E f : IsFlush(f, Len(FlushOrder)) /\ Flushed = f[Len(FlushOrder)]
<1> DEFINE flushed[n \in 0 .. Len(FlushOrder)] ==
             IF n = 0 THEN [pt |-> pt, ext |-> ext, v |-> v]
             ELSE LET s == flushed[n - 1]
                      p == FlushOrder[n]
                  IN  Walk(p, s, s.pt[p].buf)
<1>1. \E f : IsFlush(f, Len(FlushOrder))
  BY FlushExists, OrderLen
<1>2. flushed = [n \in 0 .. Len(FlushOrder) |->
                   IF n = 0 THEN [pt |-> pt, ext |-> ext, v |-> v]
                   ELSE LET s == flushed[n - 1]
                            p == FlushOrder[n]
                        IN  Walk(p, s, s.pt[p].buf)]
  BY <1>1 DEF IsFlush, FlushStep, Engine
<1>3. Flushed = flushed[Len(FlushOrder)]
  BY DEF Flushed
<1> HIDE DEF flushed
<1> QED
  BY <1>2, <1>3 DEF IsFlush, FlushStep, Engine

(* Every buffered frame of a refdata path can be read. *)
HoldsReadable(trackers, pub) ==
  /\ DOMAIN trackers = Ports
  /\ \A q \in Ports : /\ "buf" \in DOMAIN trackers[q]
                      /\ q # "mktdata" => \A i \in trackers[q].buf : Readable(q, i, pub)

LEMMA FlushKeeps ==
  ASSUME SoleReader(plan), NEW pub, Catalogue(pub), EraKnown(Engine, pub), HoldsReadable(pt, pub)
  PROVE  EraKnown(Flushed, pub)
<1>1. PICK f : IsFlush(f, Len(FlushOrder)) /\ Flushed = f[Len(FlushOrder)]
  BY FlushFlushes
<1>2. \A n \in 0 .. Len(FlushOrder) : f[n] = IF n = 0 THEN Engine ELSE FlushStep(f[n - 1], n)
  BY <1>1, OrderLen DEF IsFlush
<1> DEFINE Good(u) == EraKnown(u, pub) /\ HoldsReadable(u.pt, pub)
           Bad == {n \in 0 .. Len(FlushOrder) : ~Good(f[n])}
<1>3. Good(f[0])
  BY <1>2, OrderLen DEF Engine
<1>4. ASSUME NEW n \in 1 .. Len(FlushOrder), Good(f[n - 1])
      PROVE  Good(f[n])
  <2> DEFINE p == FlushOrder[n]
             u == f[n - 1]
             w == Walk(p, u, u.pt[p].buf)
  <2>1. f[n] = w
    BY <1>2, OrderLen DEF FlushStep
  <2>2. p \in Ports
    BY OrderLen
  <2> HIDE DEF p, u
  <2>3. EraKnown(u, pub) /\ HoldsReadable(u.pt, pub)
    BY <1>4 DEF u
  <2>4. p \in DOMAIN u.pt /\ (p # "mktdata" => \A i \in u.pt[p].buf : Readable(p, i, pub))
    BY <2>2, <2>3 DEF HoldsReadable
  <2>5. EraKnown(w, pub) /\ OnlyPort(u, w, p)
    BY <2>2, <2>3, <2>4, WalkKeeps
  <2> HIDE DEF w
  <2>6. HoldsReadable(w.pt, pub)
    BY <2>2, <2>3, <2>5 DEF HoldsReadable, OnlyPort
  <2> QED
    BY <2>1, <2>5, <2>6
<1> HIDE DEF Good
<1>5. Bad = {}
  <2> SUFFICES ASSUME Bad # {} PROVE FALSE
    OBVIOUS
  <2>1. PICK n \in Bad : \A k \in Bad : n <= k
    <3>1. Bad \in SUBSET Nat
      OBVIOUS
    <3> HIDE DEF Bad
    <3> QED
      BY <3>1, LeastOf
  <2>2. n # 0
    BY <1>3, <2>1
  <2>3. n \in 1 .. Len(FlushOrder) /\ n - 1 \in 0 .. Len(FlushOrder) /\ n - 1 \notin Bad
    BY <2>1, <2>2, OrderLen
  <2> QED
    BY <1>4, <2>1, <2>3
<1>6. Good(f[Len(FlushOrder)])
  BY <1>5, OrderLen
<1> QED
  BY <1>1, <1>6 DEF Good

-----------------------------------------------------------------------------
(* The publisher: what it has published, and how far it has gone.          *)

(* How many set changes ago the Manifest Seq was n. *)
ChangesSince(n) == IF n <= mseq THEN mseq - n ELSE mseq + M - n

PubInv ==
  /\ plan \in Plans /\ feedEra \in 0 .. plan.resets /\ clock \in Nat
  /\ mseq \in 0 .. M - 1 /\ instruments \in [Ids -> Listing]
  /\ "changes" \in DOMAIN did /\ did.changes \in 0 .. plan.changes
  /\ \A set \in published :
       /\ set.era \in 0 .. feedEra /\ set.seq \in 0 .. M - 1 /\ set.ids \subseteq Ids
       /\ set.era = feedEra => ChangesSince(set.seq) <= did.changes
  /\ \A a, b \in published : a.era = b.era /\ a.seq = b.seq => a = b
  /\ \E set \in published :
       set.era = feedEra /\ set.seq = mseq /\ set.ids = Members(instruments)

LEMMA PublishedIsCatalogue ==
  ASSUME PubInv, FewChanges(plan)
  PROVE  Catalogue(published)
<1>1. \A set \in published : set.era \in 0 .. plan.resets
  BY PlansAssumption DEF PubInv
<1> QED
  BY <1>1 DEF PubInv, FewChanges, Catalogue

(* The frames under way. *)
Numbered(q, x) ==
  /\ x.seq \in Nat
  /\ \E e \in 0 .. feedEra : x.rc = ResetCountOf(e) /\ (e = feedEra => x.seq < sent[q])

FrameFrom(q, x) == Numbered(q, x) /\ (q # "mktdata" => Readable(q, x, published))

NetInv ==
  /\ sent \in [Ports -> Nat]
  /\ net \in Seq({net[n] : n \in DOMAIN net})
  /\ \A n \in DOMAIN net : net[n].port \in Ports /\ FrameFrom(net[n].port, net[n])
  /\ \A m, n \in DOMAIN net :
       net[m].port = net[n].port /\ net[m].rc = net[n].rc /\ net[m].seq = net[n].seq => m = n

(* The trackers: the frames they hold, and what no longer is under way.    *)
BufferInv ==
  \A q \in Ports : \A i \in pt[q].buf :
    /\ FrameFrom(q, i) /\ i.copy = 0 /\ i.rc = pt[q].era
    /\ \A n \in DOMAIN net : net[n].port = q /\ net[n].rc = i.rc => net[n].seq # i.seq

IntakeInv ==
  /\ DOMAIN pt = Ports
  /\ \A q \in Ports : /\ DOMAIN pt[q] = TrackerFields /\ pt[q].eraPos \in Nat
                      /\ pt[q].eraPos = 0 => pt[q].buf = {}
  /\ pos \in [ResetCounts -> Nat] /\ next \in Nat

FlowInv == NetInv /\ BufferInv /\ IntakeInv

RefInv ==
  /\ PubInv
  /\ running => FlowInv
  /\ EraKnown(Engine, published)

-----------------------------------------------------------------------------
LEMMA ReadableGrows ==
  ASSUME NEW pub, NEW more, pub \subseteq more, NEW q, NEW x, NEW y,
         y.rc = x.rc, y.body = x.body, Readable(q, x, pub)
  PROVE  Readable(q, y, more)
<1>1. \A m : Truthful(m, x.rc, pub) => Truthful(m, x.rc, more)
  BY DEF Truthful
<1>2. SentAt(y) = SentAt(x)
  BY DEF SentAt
<1> QED
  BY <1>1, <1>2 DEF Readable

(* A sent frame stays one while the publisher goes on. *)
Onward ==
  /\ UNCHANGED plan /\ published \subseteq published'
  /\ \/ feedEra' = feedEra /\ \A q \in Ports : sent'[q] \in Nat /\ sent[q] <= sent'[q]
     \/ feedEra' = feedEra + 1

LEMMA FrameStays ==
  ASSUME Onward, feedEra \in Nat, sent \in [Ports -> Nat], NEW q \in Ports, NEW x, FrameFrom(q, x)
  PROVE  FrameFrom(q, x)'
<1>1. Numbered(q, x)'
  <2>1. PICK e \in 0 .. feedEra : x.rc = ResetCountOf(e) /\ (e = feedEra => x.seq < sent[q])
    BY DEF FrameFrom, Numbered
  <2>2. x.seq \in Nat
    BY DEF FrameFrom, Numbered
  <2>3. CASE feedEra' = feedEra /\ sent'[q] \in Nat /\ sent[q] <= sent'[q]
    BY <2>1, <2>2, <2>3 DEF Numbered
  <2>4. CASE feedEra' = feedEra + 1
    <3>1. e \in 0 .. feedEra' /\ e # feedEra'
      BY <2>1, <2>4
    <3> QED
      BY <2>1, <2>2, <3>1 DEF Numbered
  <2> QED
    BY <2>3, <2>4 DEF Onward
<1>2. ASSUME q # "mktdata"
      PROVE  Readable(q, x, published)'
  <2>1. Readable(q, x, published')
    BY <1>2, ReadableGrows DEF FrameFrom, Onward
  <2> QED
    BY <2>1 DEF Readable, FirstCount, Truthful, Onward
<1> QED
  BY <1>1, <1>2 DEF FrameFrom

(* Nothing of the intake moves, and no sent frame is forgotten. *)
LEMMA EngineStays ==
  ASSUME EraKnown(Engine, published), UNCHANGED <<plan, pt, ext, v>>,
         published \subseteq published'
  PROVE  EraKnown(Engine, published)'
<1>1. \A rc : Coheres(v, rc, published) => Coheres(v, rc, published')
  BY DEF Coheres
<1>2. Engine' = Engine
  BY DEF Engine
<1>3. EraKnown(Engine, published')
  BY <1>1 DEF EraKnown, Engine
<1> QED
  BY <1>2, <1>3 DEF EraKnown, ReadInOneEra, FirstCount, InEra, Coheres, Matches

LEMMA NothingSent ==
  ASSUME FlowInv, Onward, feedEra \in Nat, sent' \in [Ports -> Nat], UNCHANGED <<vars, net>>
  PROVE  FlowInv'
<1>1. \A q \in Ports : \A x : FrameFrom(q, x) => FrameFrom(q, x)'
  BY FrameStays DEF FlowInv, NetInv
<1>2. NetInv'
  BY <1>1 DEF FlowInv, NetInv
<1>3. BufferInv'
  BY <1>1 DEF FlowInv, BufferInv, vars
<1>4. IntakeInv'
  BY DEF FlowInv, IntakeInv, vars
<1> QED
  BY <1>2, <1>3, <1>4 DEF FlowInv

LEMMA Sent ==
  ASSUME FlowInv, PubInv, FewChanges(plan), NEW p \in Ports, NEW msgs, Put(p, msgs),
         UNCHANGED <<vars, plan>>, published \subseteq published',
         p # "mktdata" => \A x : x.rc = ResetCountOf(feedEra) /\ x.body.msgs = msgs
                                  => Readable(p, x, published')
  PROVE  FlowInv'
<1>1. PICK f : /\ net' = Append(net, f) /\ f.port = p /\ f.rc = ResetCountOf(feedEra)
               /\ f.seq = sent[p] /\ f.body.msgs = msgs
  BY DEF Put
<1> DEFINE S == {net[n] : n \in DOMAIN net}
           k == Len(net) + 1
<1>2. sent \in [Ports -> Nat] /\ net \in Seq(S) /\ feedEra \in Nat /\ feedEra <= plan.resets
      /\ plan.resets \in Nat
  BY PlansAssumption DEF FlowInv, NetInv, PubInv
<1>3. /\ DOMAIN net = 1 .. Len(net) /\ Len(net) \in Nat /\ DOMAIN net' = 1 .. k
      /\ net'[k] = f /\ \A n \in DOMAIN net : net'[n] = net[n]
      /\ net' \in Seq(S \cup {f})
  <2>1. net \in Seq(S \cup {f}) /\ f \in S \cup {f}
    BY <1>2
  <2> HIDE DEF S
  <2> QED
    BY <1>1, <1>2, <2>1, LenProperties, AppendProperties
<1>4. {net'[n] : n \in DOMAIN net'} = S \cup {f}
  BY <1>3
<1>5. sent' = [sent EXCEPT ![p] = sent[p] + 1] /\ feedEra' = feedEra
  BY DEF Put
<1>6. Onward
  BY <1>2, <1>5 DEF Onward
<1>7. \A q \in Ports : \A x : FrameFrom(q, x) => FrameFrom(q, x)'
  BY <1>2, <1>6, FrameStays
<1>8. FrameFrom(p, f)'
  <2>1. Numbered(p, f)'
    <3>1. f.rc = ResetCountOf(feedEra) /\ f.seq \in Nat /\ f.seq < sent'[p]
      BY <1>1, <1>2, <1>5
    <3>2. feedEra' \in 0 .. feedEra' /\ f.rc = ResetCountOf(feedEra')
      BY <1>2, <1>5, <3>1
    <3> QED
      BY <3>1, <3>2 DEF Numbered
  <2>2. p # "mktdata" => Readable(p, f, published')
    BY <1>1
  <2> QED
    BY <2>1, <2>2 DEF FrameFrom, Readable, FirstCount, Truthful
(* Nothing sent before has the new frame's number. *)
<1>9. ASSUME NEW x, Numbered(p, x), x.rc = f.rc
      PROVE  x.seq # f.seq
  <2>1. PICK e \in 0 .. feedEra : x.rc = ResetCountOf(e) /\ (e = feedEra => x.seq < sent[p])
    BY <1>9 DEF Numbered
  <2>2. e \in 0 .. plan.resets /\ feedEra \in 0 .. plan.resets
    BY <1>2
  <2>3. ResetCountOf(e) = ResetCountOf(feedEra)
    BY <1>1, <1>9, <2>1
  <2>4. e = feedEra
    BY <2>2, <2>3 DEF FewChanges
  <2>5. x.seq \in Nat /\ sent[p] \in Nat
    BY <1>2, <1>9 DEF Numbered
  <2> QED
    BY <1>1, <2>1, <2>4, <2>5
<1>10. \A x : Numbered(p, x) /\ x.rc = f.rc => x.seq # f.seq
  BY <1>9
<1>11. NetInv'
  <2>1. sent' \in [Ports -> Nat]
    BY <1>2, <1>5
  <2>2. (net \in Seq({net[n] : n \in DOMAIN net}))'
    BY <1>3, <1>4
  <2>3. \A n \in DOMAIN net' : net'[n].port \in Ports /\ FrameFrom(net[n].port, net[n])'
    BY <1>1, <1>3, <1>7, <1>8 DEF FlowInv, NetInv
  <2>4. ASSUME NEW m \in DOMAIN net', NEW n \in DOMAIN net',
               net'[m].port = net'[n].port, net'[m].rc = net'[n].rc, net'[m].seq = net'[n].seq
        PROVE  m = n
    <3>1. \A j \in DOMAIN net : net[j].port = p /\ net[j].rc = f.rc => net[j].seq # f.seq
      BY <1>10 DEF FlowInv, NetInv, FrameFrom
    <3>2. CASE m \in DOMAIN net /\ n \in DOMAIN net
      BY <1>3, <2>4, <3>2 DEF FlowInv, NetInv
    <3>3. CASE m = k /\ n \in DOMAIN net
      BY <1>1, <1>3, <2>4, <3>1, <3>3
    <3>4. CASE n = k /\ m \in DOMAIN net
      BY <1>1, <1>3, <2>4, <3>1, <3>4
    <3> QED
      BY <1>3, <3>2, <3>3, <3>4
  <2> QED
    BY <2>1, <2>2, <2>3, <2>4 DEF NetInv
<1>12. BufferInv'
  <2>1. pt' = pt
    BY DEF vars
  <2> SUFFICES ASSUME NEW q \in Ports, NEW i \in pt[q].buf
               PROVE  /\ FrameFrom(q, i)' /\ i.copy = 0 /\ i.rc = pt[q].era
                      /\ \A n \in DOMAIN net' :
                           net'[n].port = q /\ net'[n].rc = i.rc => net'[n].seq # i.seq
    BY <2>1 DEF BufferInv
  <2>2. FrameFrom(q, i) /\ i.copy = 0 /\ i.rc = pt[q].era
        /\ \A n \in DOMAIN net : net[n].port = q /\ net[n].rc = i.rc => net[n].seq # i.seq
    BY DEF FlowInv, BufferInv
  <2>3. q = p /\ i.rc = f.rc => i.seq # f.seq
    BY <1>10, <2>2 DEF FrameFrom
  <2> QED
    BY <1>1, <1>3, <1>7, <2>2, <2>3
<1>13. IntakeInv'
  BY DEF FlowInv, IntakeInv, vars
<1> QED
  BY <1>11, <1>12, <1>13 DEF FlowInv

-----------------------------------------------------------------------------
(* What the publisher says.                                                *)
LEMMA Says ==
  ASSUME PubInv, NEW p \in plan.paths, NEW pub, NEW msgs, Len(msgs) \in Nat,
         Head(msgs).ts \in Nat,
         \A n \in 1 .. Len(msgs) : Truthful(msgs[n], ResetCountOf(feedEra), pub)
  PROVE  \A x : x.rc = ResetCountOf(feedEra) /\ x.body.msgs = msgs => Readable(p, x, pub)
<1>1. feedEra \in 0 .. plan.resets /\ plan.resets \in Nat
  BY PlansAssumption DEF PubInv
<1>2. ResetCountOf(feedEra) # NoEra
  <2>1. ResetCountOf(feedEra) \in Nat
    BY <1>1, CountsAssumption DEF PubInv
  <2> QED
    BY <2>1 DEF NoEra
<1>3. FirstCount(ResetCountOf(feedEra))
  BY <1>1 DEF FirstCount
<1>4. ASSUME NEW x, x.rc = ResetCountOf(feedEra), x.body.msgs = msgs
      PROVE  SentAt(x) \in Nat
  BY <1>4 DEF SentAt
<1> QED
  BY <1>2, <1>3, <1>4 DEF Readable

(* The set that stands is published under the era and its Manifest Seq. *)
Stands(seq, set, pub) ==
  \E known \in pub : known.era = feedEra /\ known.seq = seq /\ known.ids = Members(set)

LEMMA SummaryTrue ==
  ASSUME NEW valid \in {0, 1}, NEW seq, NEW set, NEW pub, Stands(seq, set, pub)
  PROVE  /\ Truthful(Summary(valid, seq, set), ResetCountOf(feedEra), pub)
         /\ Summary(valid, seq, set).ts = clock
BY DEF Stands, Summary, Truthful

LEMMA DefinitionTrue ==
  ASSUME NEW id \in Ids, instruments[id] # NoOne, NEW pub, Stands(mseq, instruments, pub)
  PROVE  Truthful(Definition(id), ResetCountOf(feedEra), pub) /\ Definition(id).ts = clock
BY DEF Stands, Definition, Truthful, Members

LEMMA SummarySent ==
  ASSUME PubInv, NEW p \in plan.paths, NEW valid \in {0, 1}, NEW seq, NEW set,
         NEW pub, Stands(seq, set, pub)
  PROVE  \A x : x.rc = ResetCountOf(feedEra) /\ x.body.msgs = <<Summary(valid, seq, set)>>
                => Readable(p, x, pub)
<1> DEFINE m == Summary(valid, seq, set)
<1>1. Truthful(m, ResetCountOf(feedEra), pub) /\ m.ts \in Nat
  BY SummaryTrue DEF PubInv
<1> HIDE DEF m
<1>2. Len(<<m>>) = 1 /\ Head(<<m>>) = m /\ <<m>>[1] = m
  OBVIOUS
<1>3. \A n \in 1 .. Len(<<m>>) : Truthful(<<m>>[n], ResetCountOf(feedEra), pub)
  BY <1>1, <1>2
<1>4. \A x : x.rc = ResetCountOf(feedEra) /\ x.body.msgs = <<m>> => Readable(p, x, pub)
  BY <1>1, <1>2, <1>3, Says
<1> QED
  BY <1>4 DEF m

LEMMA DefinitionSent ==
  ASSUME PubInv, NEW p \in plan.paths, NEW id \in Ids, instruments[id] # NoOne,
         NEW pub, Stands(mseq, instruments, pub)
  PROVE  \A x : x.rc = ResetCountOf(feedEra) /\ x.body.msgs = <<Definition(id)>>
                => Readable(p, x, pub)
<1> DEFINE m == Definition(id)
<1>1. Truthful(m, ResetCountOf(feedEra), pub) /\ m.ts \in Nat
  BY DefinitionTrue DEF PubInv
<1> HIDE DEF m
<1>2. Len(<<m>>) = 1 /\ Head(<<m>>) = m /\ <<m>>[1] = m
  OBVIOUS
<1>3. \A n \in 1 .. Len(<<m>>) : Truthful(<<m>>[n], ResetCountOf(feedEra), pub)
  BY <1>1, <1>2
<1>4. \A x : x.rc = ResetCountOf(feedEra) /\ x.body.msgs = <<m>> => Readable(p, x, pub)
  BY <1>1, <1>2, <1>3, Says
<1> QED
  BY <1>4 DEF m

(* Two messages in either order. *)
LEMMA PairSent ==
  ASSUME PubInv, NEW p \in plan.paths, NEW pub, NEW m, NEW d, m.ts \in Nat,
         Truthful(m, ResetCountOf(feedEra), pub), Truthful(d, ResetCountOf(feedEra), pub)
  PROVE  \A x : x.rc = ResetCountOf(feedEra) /\ x.body.msgs = <<m, d>> => Readable(p, x, pub)
<1>1. Len(<<m, d>>) = 2 /\ Head(<<m, d>>) = m /\ <<m, d>>[1] = m /\ <<m, d>>[2] = d
  OBVIOUS
<1>2. \A n \in 1 .. Len(<<m, d>>) : Truthful(<<m, d>>[n], ResetCountOf(feedEra), pub)
  <2>1. \A n \in 1 .. 2 : n = 1 \/ n = 2
    OBVIOUS
  <2> QED
    BY <1>1, <2>1
<1> QED
  BY <1>1, <1>2, Says

LEMMA BothSent ==
  ASSUME PubInv, NEW p \in plan.paths, NEW id \in Ids, instruments[id] # NoOne,
         NEW pub, Stands(mseq, instruments, pub),
         NEW msgs \in {<<Summary(1, mseq, instruments), Definition(id)>>,
                       <<Definition(id), Summary(1, mseq, instruments)>>}
  PROVE  \A x : x.rc = ResetCountOf(feedEra) /\ x.body.msgs = msgs => Readable(p, x, pub)
<1>1. PICK m : m = Summary(1, mseq, instruments)
  OBVIOUS
<1>2. PICK d : d = Definition(id)
  OBVIOUS
<1>3. Truthful(m, ResetCountOf(feedEra), pub) /\ m.ts \in Nat
  BY <1>1, SummaryTrue DEF PubInv
<1>4. Truthful(d, ResetCountOf(feedEra), pub) /\ d.ts \in Nat
  BY <1>2, DefinitionTrue DEF PubInv
<1>5. msgs \in {<<m, d>>, <<d, m>>}
  BY <1>1, <1>2
<1> QED
  BY <1>3, <1>4, <1>5, PairSent

-----------------------------------------------------------------------------
(* The publisher's steps.                                                  *)
LEMMA PubStays ==
  ASSUME PubInv, UNCHANGED <<plan, feedEra, mseq, instruments, published>>, clock' \in Nat,
         "changes" \in DOMAIN did', did'.changes = did.changes
  PROVE  PubInv'
<1>1. Members(instruments)' = Members(instruments)
  BY DEF Members
<1>2. \A n : ChangesSince(n)' = ChangesSince(n)
  BY DEF ChangesSince
<1> QED
  BY <1>1, <1>2 DEF PubInv

LEMMA StandsNow ==
  ASSUME PubInv
  PROVE  Stands(mseq, instruments, published)
BY DEF PubInv, Stands

(* A step of the publisher, put together. *)
LEMMA PublisherKeeps ==
  ASSUME RefInv, PublisherOnly, PubInv', FlowInv', published \subseteq published'
  PROVE  RefInv'
BY EngineStays DEF RefInv, PublisherOnly, vars, recVars

LEMMA PathKeeps ==
  ASSUME RefInv, PublisherOnly, FewChanges(plan), NEW p \in plan.paths, NEW msgs, Put(p, msgs),
         PubInv', published \subseteq published',
         \A x : x.rc = ResetCountOf(feedEra) /\ x.body.msgs = msgs => Readable(p, x, published')
  PROVE  RefInv'
<1>1. p \in Ports
  BY RefPlansAssumption DEF RefInv, PubInv, Paths
<1>2. FlowInv'
  BY <1>1, Sent DEF RefInv, PublisherOnly
<1> QED
  BY <1>2, PublisherKeeps

LEMMA SummaryStep ==
  ASSUME RefInv, FewChanges(plan), NEW p, SendSummary(p)
  PROVE  RefInv'
<1> DEFINE valid == IF serving THEN 1 ELSE 0
<1>1. PubInv /\ PublisherOnly /\ p \in plan.paths /\ Put(p, <<Summary(valid, mseq, instruments)>>)
      /\ published' = published
  BY DEF SendSummary, RefInv, Room
<1>2. PubInv'
  <2>1. "changes" \in DOMAIN did' /\ did'.changes = did.changes
    BY DEF SendSummary, RefInv, PubInv
  <2>2. UNCHANGED <<plan, feedEra, mseq, instruments, published, clock>>
    BY DEF SendSummary, PublisherOnly, Put
  <2>3. clock \in Nat
    BY <1>1 DEF PubInv
  <2> QED
    BY <1>1, <2>1, <2>2, <2>3, PubStays
<1>3. valid \in {0, 1}
  OBVIOUS
<1> HIDE DEF valid
<1> QED
  BY <1>1, <1>2, <1>3, StandsNow, SummarySent, PathKeeps

LEMMA DefinitionStep ==
  ASSUME RefInv, FewChanges(plan), NEW p, NEW id \in Ids, SendDefinition(p, id)
  PROVE  RefInv'
<1>1. PubInv /\ PublisherOnly /\ p \in plan.paths /\ Put(p, <<Definition(id)>>)
      /\ instruments[id] # NoOne /\ published' = published
  BY DEF SendDefinition, RefInv, Room
<1>2. PubInv'
  <2>1. UNCHANGED <<plan, feedEra, mseq, instruments, published, clock>>
    BY DEF SendDefinition, PublisherOnly, Put
  <2>2. clock \in Nat /\ "changes" \in DOMAIN did
    BY <1>1 DEF PubInv
  <2>3. "changes" \in DOMAIN did' /\ did'.changes = did.changes
    BY <2>2 DEF SendDefinition, Takes
  <2> QED
    BY <1>1, <2>1, <2>2, <2>3, PubStays
<1> QED
  BY <1>1, <1>2, StandsNow, DefinitionSent, PathKeeps

LEMMA PacedStep ==
  ASSUME RefInv, FewChanges(plan), NEW p, NEW id \in Ids, SendPaced(p, id)
  PROVE  RefInv'
<1>1. PubInv /\ PublisherOnly /\ p \in plan.paths
      /\ instruments[id] # NoOne /\ published' = published
  BY DEF SendPaced, RefInv, Room
<1>2. PICK msgs \in {<<Summary(1, mseq, instruments), Definition(id)>>,
                     <<Definition(id), Summary(1, mseq, instruments)>>} : Put(p, msgs)
  BY DEF SendPaced
<1>3. PubInv'
  <2>1. UNCHANGED <<plan, feedEra, mseq, instruments, published, clock>>
    BY DEF SendPaced, PublisherOnly, Put
  <2>2. clock \in Nat /\ "changes" \in DOMAIN did
    BY <1>1 DEF PubInv
  <2>3. "changes" \in DOMAIN did' /\ did'.changes = did.changes
    BY <2>2 DEF SendPaced, Takes
  <2> QED
    BY <1>1, <2>1, <2>2, <2>3, PubStays
<1>4. \A y : y.rc = ResetCountOf(feedEra) /\ y.body.msgs = msgs => Readable(p, y, published')
  BY <1>1, <1>2, StandsNow, BothSent
<1> QED
  BY <1>1, <1>2, <1>3, <1>4, PathKeeps

LEMMA StartStep ==
  ASSUME RefInv, FewChanges(plan), NEW p, Start(p)
  PROVE  RefInv'
<1>1. PubInv /\ PublisherOnly /\ p \in plan.paths /\ Put(p, <<Summary(1, mseq, instruments)>>)
      /\ published' = published
  BY DEF Start, RefInv, Room
<1>2. PubInv'
  <2>1. "changes" \in DOMAIN did' /\ did'.changes = did.changes
    BY DEF Start, RefInv, PubInv
  <2>2. UNCHANGED <<plan, feedEra, mseq, instruments, published, clock>>
    BY DEF Start, PublisherOnly, Put
  <2>3. clock \in Nat
    BY <1>1 DEF PubInv
  <2> QED
    BY <1>1, <2>1, <2>2, <2>3, PubStays
<1>3. 1 \in {0, 1}
  OBVIOUS
<1> QED
  BY <1>1, <1>2, <1>3, StandsNow, SummarySent, PathKeeps

LEMMA ZeroStep ==
  ASSUME RefInv, FewChanges(plan), NEW p, SendZero(p)
  PROVE  RefInv'
<1>1. PubInv /\ PublisherOnly /\ p \in plan.paths /\ Put(p, <<Summary(0, mseq, instruments)>>)
      /\ published' = published
  BY DEF SendZero, Ends, RefInv, Room
<1>2. PubInv'
  <2>1. UNCHANGED <<plan, feedEra, mseq, instruments, published, clock, did>>
    BY DEF SendZero, Ends, PublisherOnly, Put
  <2>2. clock \in Nat /\ "changes" \in DOMAIN did
    BY <1>1 DEF PubInv
  <2> QED
    BY <1>1, <2>1, <2>2, PubStays
<1>3. 0 \in {0, 1}
  OBVIOUS
<1> QED
  BY <1>1, <1>2, <1>3, StandsNow, SummarySent, PathKeeps

(* What the mktdata port carries is no part of the set. *)
LEMMA MktdataStep ==
  ASSUME RefInv, FewChanges(plan), SendEndOfSession \/ Heartbeat
  PROVE  RefInv'
<1>1. PICK msgs : PublisherOnly /\ Put("mktdata", msgs)
  BY DEF SendEndOfSession, Heartbeat
<1>2. UNCHANGED <<plan, feedEra, mseq, instruments, published, clock, did>>
  BY DEF SendEndOfSession, Heartbeat, Ends, PublisherOnly, Put, pubVars
<1>3. PubInv'
  <2>1. clock \in Nat /\ "changes" \in DOMAIN did /\ PubInv
    BY DEF RefInv, PubInv
  <2> QED
    BY <1>2, <2>1, PubStays
<1>4. FlowInv'
  <2>1. "mktdata" \in Ports
    BY PlansAssumption
  <2>2. FlowInv /\ PubInv /\ UNCHANGED <<vars, plan>>
    BY <1>1 DEF RefInv, PublisherOnly
  <2> QED
    BY <1>1, <1>2, <2>1, <2>2, Sent
<1> QED
  BY <1>1, <1>2, <1>3, <1>4, PublisherKeeps

LEMMA QuietFlow ==
  ASSUME RefInv, PublisherOnly, UNCHANGED <<net, sent, feedEra>>, published \subseteq published'
  PROVE  FlowInv'
<1>1. FlowInv /\ feedEra \in Nat /\ sent \in [Ports -> Nat] /\ UNCHANGED <<vars, plan>>
  BY PlansAssumption DEF RefInv, PubInv, FlowInv, NetInv, PublisherOnly
<1>2. Onward
  BY <1>1 DEF Onward
<1> QED
  BY <1>1, <1>2, NothingSent

LEMMA TickStep ==
  ASSUME RefInv, Tick
  PROVE  RefInv'
<1>1. PublisherOnly /\ UNCHANGED <<net, sent, feedEra, mseq, instruments, did, published, plan>>
  BY DEF Tick, PublisherOnly
<1>2. clock' \in Nat
  BY RefPlansAssumption DEF Tick, RefInv, PubInv
<1>3. PubInv'
  <2>1. "changes" \in DOMAIN did /\ PubInv
    BY DEF RefInv, PubInv
  <2> QED
    BY <1>1, <1>2, <2>1, PubStays
<1>4. FlowInv'
  BY <1>1, QuietFlow
<1> QED
  BY <1>1, <1>3, <1>4, PublisherKeeps

LEMMA FixStrikeStep ==
  ASSUME RefInv, NEW id \in Ids, FixStrike(id)
  PROVE  RefInv'
<1>1. PublisherOnly /\ UNCHANGED <<net, sent, feedEra, mseq, did, published, plan, clock>>
  BY DEF FixStrike, PublisherOnly
<1>2. /\ instruments \in [Ids -> Listing]
      /\ instruments[id] # NoOne
      /\ instruments' = [instruments EXCEPT ![id].strike = "fixed"]
  BY DEF FixStrike, RefInv, PubInv
<1>3. /\ instruments' \in [Ids -> Listing]
      /\ instruments'[id] # NoOne
      /\ \A j \in Ids : j # id => instruments'[j] = instruments[j]
  <2> DEFINE r == instruments[id]
  <2>1. r \in Listing /\ instruments'[id] = [r EXCEPT !.strike = "fixed"]
    BY <1>2
  <2> HIDE DEF r
  <2>2. instruments'[id].strike = "fixed" /\ instruments'[id] \in Listing
    BY <2>1 DEF Listing, Strikes
  <2> QED
    BY <1>2, <2>2 DEF NoOne
<1>4. Members(instruments)' = Members(instruments)
  BY <1>2, <1>3 DEF Members
<1>5. PubInv'
  <2>1. PubInv
    BY DEF RefInv
  <2>2. \A n : ChangesSince(n)' = ChangesSince(n)
    BY <1>1 DEF ChangesSince
  <2> QED
    BY <1>1, <1>3, <1>4, <2>1, <2>2 DEF PubInv
<1>6. FlowInv'
  BY <1>1, QuietFlow
<1> QED
  BY <1>1, <1>5, <1>6, PublisherKeeps

LEMMA ResetStep ==
  ASSUME RefInv, NEW seq \in {1, mseq}, ChannelReset(seq)
  PROVE  RefInv'
<1> DEFINE new == [era |-> feedEra + 1, seq |-> seq, ids |-> Members(instruments)]
<1>1. /\ PublisherOnly /\ UNCHANGED <<net, instruments, plan, clock>>
      /\ feedEra < plan.resets /\ feedEra' = feedEra + 1 /\ sent' = [p \in Ports |-> 0]
      /\ mseq' = seq /\ published' = published \cup {new}
      /\ did' = [did EXCEPT !.summed = {}, !.ahead = FALSE]
  BY DEF ChannelReset, PublisherOnly, NextEra
<1>2. PubInv /\ feedEra \in Nat /\ plan.resets \in Nat /\ plan \in Plans
  BY PlansAssumption DEF RefInv, PubInv
<1>3. seq \in 0 .. M - 1
  BY <1>2, ModulusAssumption DEF PubInv
<1>4. "changes" \in DOMAIN did' /\ did'.changes = did.changes
  BY <1>1, <1>2 DEF PubInv
<1>5. \A set \in published : set.era \in 0 .. feedEra /\ set.era # feedEra'
  BY <1>1, <1>2 DEF PubInv
<1>6. new.era = feedEra' /\ new.seq = seq /\ new.ids = Members(instruments)
      /\ new.ids \subseteq Ids
  BY <1>1 DEF Members
<1> HIDE DEF new
<1>7. PubInv'
  <2>1. ASSUME NEW set \in published'
        PROVE  /\ set.era \in 0 .. feedEra' /\ set.seq \in 0 .. M - 1 /\ set.ids \subseteq Ids
               /\ set.era = feedEra' => ChangesSince(set.seq)' <= did'.changes
    <3>1. CASE set \in published
      BY <1>1, <1>2, <1>5, <3>1 DEF PubInv
    <3>2. CASE set = new
      <4>1. ChangesSince(set.seq)' = 0
        BY <1>1, <1>3, <1>6, <3>2 DEF ChangesSince
      <4> QED
        BY <1>1, <1>2, <1>3, <1>4, <1>6, <3>2, <4>1 DEF PubInv
    <3> QED
      BY <1>1, <3>1, <3>2
  <2>2. \A a, b \in published' : a.era = b.era /\ a.seq = b.seq => a = b
    BY <1>1, <1>2, <1>5, <1>6 DEF PubInv
  <2>3. Members(instruments)' = Members(instruments)
    BY <1>1 DEF Members
  <2>4. \E set \in published' :
          set.era = feedEra' /\ set.seq = mseq' /\ set.ids = Members(instruments)'
    BY <1>1, <1>6, <2>3
  <2>5. /\ plan' \in Plans /\ feedEra' \in 0 .. plan'.resets /\ clock' \in Nat
        /\ mseq' \in 0 .. M - 1 /\ instruments' \in [Ids -> Listing]
        /\ "changes" \in DOMAIN did' /\ did'.changes \in 0 .. plan'.changes
    BY <1>1, <1>2, <1>3, <1>4 DEF PubInv
  <2> QED
    BY <2>1, <2>2, <2>4, <2>5 DEF PubInv
<1>8. FlowInv'
  <2>1. FlowInv /\ UNCHANGED <<vars, plan>>
    BY <1>1 DEF RefInv, PublisherOnly
  <2>2. Onward /\ sent' \in [Ports -> Nat]
    BY <1>1 DEF Onward
  <2> QED
    BY <1>1, <1>2, <2>1, <2>2, NothingSent
<1> QED
  BY <1>1, <1>7, <1>8, PublisherKeeps

(* A set change: the next Manifest Seq is of no other set of the era. *)
LEMMA NextSeq ==
  ASSUME NEW n \in 0 .. M - 1
  PROVE  (n + 1) % M = IF n = M - 1 THEN 0 ELSE n + 1
<1>1. CASE n = M - 1
  BY ModulusAssumption, <1>1
<1>2. CASE n # M - 1
  BY ModulusAssumption, <1>2
<1> QED
  BY <1>1, <1>2

LEMMA SetKnown ==
  ASSUME RefInv, FewChanges(plan), NEW id \in Ids, NEW x \in Instrument \cup {NoOne},
         SetChanges(id, x), UNCHANGED <<plan, clock, feedEra>>,
         "changes" \in DOMAIN did', did'.changes = did.changes + 1
  PROVE  PubInv' /\ Stands(NewSeq, NewSet(id, x), published') /\ published \subseteq published'
<1> DEFINE set == NewSet(id, x)
           seq == NewSeq
           new == [era |-> feedEra, seq |-> seq, ids |-> Members(set)]
<1>1. /\ did.changes < plan.changes
      /\ instruments' = set /\ mseq' = seq /\ published' = published \cup {new}
  BY DEF SetChanges
<1>2. /\ PubInv /\ feedEra \in Nat /\ plan \in Plans /\ mseq \in 0 .. M - 1
      /\ did.changes \in Nat /\ plan.changes \in Nat /\ plan.changes < M /\ M \in Nat
  BY PlansAssumption, RefPlansAssumption, ModulusAssumption DEF RefInv, PubInv, FewChanges
<1>3. feedEra' = feedEra
  OBVIOUS
<1>4. seq = IF mseq = M - 1 THEN 0 ELSE mseq + 1
  BY <1>2, NextSeq DEF NewSeq
<1> HIDE DEF seq
<1>5. seq \in 0 .. M - 1
  BY <1>2, <1>4
<1>6. "changes" \in DOMAIN did' /\ did'.changes = did.changes + 1
  OBVIOUS
<1>7. x \in Listing
  <2>1. plan.strikes \subseteq Strikes
    BY <1>2, RefPlansAssumption
  <2>2. CASE x \in Instrument
    BY <2>1, <2>2 DEF Instrument, Listing
  <2>3. NoOne \in Listing
    BY DEF NoOne, Listing, Strikes
  <2> QED
    BY <2>2, <2>3
<1>8. set \in [Ids -> Listing]
  BY <1>2, <1>7 DEF PubInv, NewSet
<1>9. new.era = feedEra /\ new.seq = seq /\ new.ids = Members(set) /\ new.ids \subseteq Ids
  BY DEF Members
<1> HIDE DEF new, set
<1>10. ASSUME NEW old \in published, old.era = feedEra
       PROVE  old.seq # seq /\ ChangesSince(old.seq)' <= did.changes + 1
  <2>1. old.seq \in 0 .. M - 1 /\ ChangesSince(old.seq) <= did.changes
    BY <1>2, <1>10 DEF PubInv
  <2>2. old.seq # seq
    BY <1>1, <1>2, <1>4, <2>1 DEF ChangesSince
  <2>3. ChangesSince(old.seq)' = ChangesSince(old.seq) + 1
    BY <1>1, <1>2, <1>4, <2>1, <2>2 DEF ChangesSince
  <2>4. ChangesSince(old.seq) \in Nat
    BY <1>2, <2>1 DEF ChangesSince
  <2> QED
    BY <1>2, <2>1, <2>2, <2>3, <2>4
<1>11. PubInv'
  <2>1. ASSUME NEW known \in published'
        PROVE  /\ known.era \in 0 .. feedEra' /\ known.seq \in 0 .. M - 1 /\ known.ids \subseteq Ids
               /\ known.era = feedEra' => ChangesSince(known.seq)' <= did'.changes
    <3>1. CASE known \in published
      BY <1>2, <1>3, <1>6, <1>10, <3>1 DEF PubInv
    <3>2. CASE known = new
      <4>1. ChangesSince(known.seq)' = 0
        BY <1>1, <1>5, <1>9, <3>2 DEF ChangesSince
      <4> QED
        BY <1>2, <1>3, <1>5, <1>6, <1>9, <3>2, <4>1
    <3> QED
      BY <1>1, <3>1, <3>2
  <2>2. \A a, b \in published' : a.era = b.era /\ a.seq = b.seq => a = b
    BY <1>1, <1>2, <1>9, <1>10 DEF PubInv
  <2>3. Members(instruments)' = Members(set)
    BY <1>1 DEF Members
  <2>4. \E known \in published' :
          known.era = feedEra' /\ known.seq = mseq' /\ known.ids = Members(instruments)'
    BY <1>1, <1>3, <1>9, <2>3
  <2>5. /\ plan' \in Plans /\ feedEra' \in 0 .. plan'.resets /\ clock' \in Nat
        /\ mseq' \in 0 .. M - 1 /\ instruments' \in [Ids -> Listing]
    BY <1>1, <1>2, <1>3, <1>5, <1>8 DEF PubInv
  <2>6. "changes" \in DOMAIN did' /\ did'.changes \in 0 .. plan'.changes
    BY <1>1, <1>2, <1>6
  <2> QED
    BY <2>1, <2>2, <2>4, <2>5, <2>6 DEF PubInv
<1>12. Stands(seq, set, published')
  BY <1>1, <1>9 DEF Stands
<1> QED
  BY <1>1, <1>11, <1>12 DEF set, seq

LEMMA ChangeStep ==
  ASSUME RefInv, FewChanges(plan), NEW p, NEW id \in Ids, NEW x \in Instrument \cup {NoOne},
         Change(p, id, x)
  PROVE  RefInv'
<1>1. /\ PublisherOnly /\ p \in plan.paths /\ UNCHANGED <<plan, clock>> /\ SetChanges(id, x)
      /\ Put(p, <<Summary(1, NewSeq, NewSet(id, x))>>)
      /\ did' = [did EXCEPT !.changes = did.changes + 1, !.summed = did.summed \cup {p},
                            !.ahead = FALSE, !.took = Skips]
  BY DEF Change, PublisherOnly, Room
<1>2. PubInv /\ feedEra' = feedEra
  BY <1>1 DEF Put, RefInv
<1>3. "changes" \in DOMAIN did' /\ did'.changes = did.changes + 1
  BY <1>1, <1>2 DEF PubInv
<1>4. PubInv' /\ Stands(NewSeq, NewSet(id, x), published') /\ published \subseteq published'
  BY <1>1, <1>2, <1>3, SetKnown
<1>5. \A y : y.rc = ResetCountOf(feedEra) /\ y.body.msgs = <<Summary(1, NewSeq, NewSet(id, x))>>
             => Readable(p, y, published')
  <2>1. 1 \in {0, 1}
    OBVIOUS
  <2> QED
    BY <1>1, <1>2, <1>4, <2>1, SummarySent
<1> QED
  BY <1>1, <1>4, <1>5, PathKeeps

LEMMA ChangeAheadStep ==
  ASSUME RefInv, FewChanges(plan), NEW id \in Ids, NEW x \in Instrument \cup {NoOne},
         ChangeAhead(id, x)
  PROVE  RefInv'
<1>1. /\ PublisherOnly /\ SetChanges(id, x) /\ UNCHANGED <<net, sent, feedEra, plan, clock>>
      /\ did' = [did EXCEPT !.changes = did.changes + 1, !.ahead = TRUE, !.took = Skips]
  BY DEF ChangeAhead, PublisherOnly
<1>2. "changes" \in DOMAIN did' /\ did'.changes = did.changes + 1
  BY <1>1 DEF RefInv, PubInv
<1>3. PubInv' /\ published \subseteq published'
  BY <1>1, <1>2, SetKnown
<1>4. FlowInv'
  BY <1>1, <1>3, QuietFlow
<1> QED
  BY <1>1, <1>3, <1>4, PublisherKeeps

-----------------------------------------------------------------------------
(* The network loses or hands over one frame.                              *)
(* What is left is what was under way, without frame n. *)
LEMMA NetShrinks ==
  ASSUME NetInv, NEW n \in DOMAIN net, net' = RemoveAt(net, n),
         UNCHANGED <<plan, feedEra, sent, published>>
  PROVE  /\ NetInv'
         /\ \A m \in DOMAIN net' : \E j \in DOMAIN net : j # n /\ net'[m] = net[j]
<1> DEFINE S == {net[m] : m \in DOMAIN net}
           at(i) == IF i < n THEN i ELSE i + 1
<1>1. net \in Seq(S) /\ Len(net) \in Nat /\ DOMAIN net = 1 .. Len(net)
  <2>1. net \in Seq(S)
    BY DEF NetInv
  <2> HIDE DEF S
  <2> QED
    BY <2>1, LenProperties
<1> HIDE DEF S
<1>2. /\ net' \in Seq(S) /\ DOMAIN net' = 1 .. Len(net) - 1
      /\ \A i \in DOMAIN net' : net'[i] = net[at(i)]
  BY <1>1, OneRemoved
<1>3. \A i \in DOMAIN net' : at(i) \in DOMAIN net /\ at(i) # n
  BY <1>1, <1>2
<1>4. \A i, j \in DOMAIN net' : at(i) = at(j) => i = j
  BY <1>1, <1>2
<1> HIDE DEF at
<1>5. \A q, x : FrameFrom(q, x) => FrameFrom(q, x)'
  BY DEF FrameFrom, Numbered, Readable, FirstCount, Truthful
<1>6. NetInv'
  <2>1. (net \in Seq({net[m] : m \in DOMAIN net}))'
    BY <1>2, OwnRange
  <2>2. \A m \in DOMAIN net' : net'[m].port \in Ports /\ FrameFrom(net[m].port, net[m])'
    BY <1>2, <1>3, <1>5 DEF NetInv
  <2>3. ASSUME NEW i \in DOMAIN net', NEW j \in DOMAIN net',
               net'[i].port = net'[j].port, net'[i].rc = net'[j].rc, net'[i].seq = net'[j].seq
        PROVE  i = j
    <3>1. at(i) \in DOMAIN net /\ at(j) \in DOMAIN net
      BY <1>3
    <3>2. net'[i] = net[at(i)] /\ net'[j] = net[at(j)]
      BY <1>2
    <3>3. at(i) = at(j)
      BY <2>3, <3>1, <3>2 DEF NetInv
    <3> QED
      BY <1>4, <3>3
  <2>4. sent' \in [Ports -> Nat]
    BY DEF NetInv
  <2> QED
    BY <2>1, <2>2, <2>3, <2>4 DEF NetInv
<1> QED
  BY <1>2, <1>3, <1>6

LEMMA LoseStep ==
  ASSUME RefInv, NEW n \in DOMAIN net, Lose(n)
  PROVE  RefInv'
<1>1. /\ running /\ net' = RemoveAt(net, n)
      /\ UNCHANGED <<plan, feedEra, sent, published, clock, mseq, instruments, did>>
      /\ UNCHANGED <<pt, pos, next, ext, v, running>>
  BY DEF Lose, Dropping, vars, pubVars, recVars
<1>2. PubInv /\ FlowInv /\ EraKnown(Engine, published)
  BY <1>1 DEF RefInv
<1>3. PubInv'
  <2>1. clock' \in Nat /\ "changes" \in DOMAIN did' /\ did'.changes = did.changes
    BY <1>1, <1>2 DEF PubInv
  <2> QED
    BY <1>1, <1>2, <2>1, PubStays
<1>4. /\ NetInv'
      /\ \A m \in DOMAIN net' : \E j \in DOMAIN net : j # n /\ net'[m] = net[j]
  BY <1>1, <1>2, NetShrinks DEF FlowInv
<1>5. \A q, x : FrameFrom(q, x) => FrameFrom(q, x)'
  BY <1>1 DEF FrameFrom, Numbered, Readable, FirstCount, Truthful
<1>6. BufferInv'
  BY <1>1, <1>2, <1>4, <1>5 DEF FlowInv, BufferInv
<1>7. IntakeInv'
  BY <1>1, <1>2 DEF FlowInv, IntakeInv
<1>8. EraKnown(Engine, published)'
  BY <1>1, <1>2, EngineStays
<1> QED
  BY <1>3, <1>4, <1>6, <1>7, <1>8 DEF RefInv, FlowInv

(* What reading one frame leaves of the engine. *)
LEMMA SameEraKnown ==
  ASSUME NEW pub, NEW s, EraKnown(s, pub), NEW u, DOMAIN u = {"pt", "ext", "v"},
         DOMAIN u.ext = Ports, u.v = s.v,
         \A q \in Ports : /\ "refdataEra" \in DOMAIN u.ext[q]
                          /\ u.ext[q].refdataEra = s.ext[q].refdataEra
  PROVE  EraKnown(u, pub)
BY DEF EraKnown, ReadInOneEra, InEra

LEMMA ArrivedKnown ==
  ASSUME NEW pub, EraKnown(Engine, pub), NEW p \in Ports, NEW d
  PROVE  EraKnown([pt |-> pt, ext |-> Arrived(p, d), v |-> v], pub)
<1> DEFINE u == [pt |-> pt, ext |-> Arrived(p, d), v |-> v]
<1>1. DOMAIN u = {"pt", "ext", "v"} /\ u.ext = Arrived(p, d) /\ u.v = v
  OBVIOUS
<1>2. DOMAIN ext = Ports /\ \A q \in Ports : "refdataEra" \in DOMAIN ext[q]
  BY DEF EraKnown, Engine
<1>3. /\ DOMAIN Arrived(p, d) = Ports
      /\ \A q \in Ports : /\ "refdataEra" \in DOMAIN Arrived(p, d)[q]
                          /\ Arrived(p, d)[q].refdataEra = ext[q].refdataEra
  BY <1>2 DEF Arrived
<1>4. Engine.ext = ext /\ Engine.v = v
  BY DEF Engine
<1> HIDE DEF u
<1>5. EraKnown(u, pub)
  BY <1>1, <1>3, <1>4, SameEraKnown
<1> QED
  BY <1>5 DEF u

(* Engine.Process of a frame under way. *)
LEMMA ProcessedKeeps ==
  ASSUME PubInv, FlowInv, EraKnown(Engine, published), SoleReader(plan), FewChanges(plan),
         NEW p \in Ports, NEW d, FrameFrom(p, d), d.rc \in ResetCounts,
         \A i \in pt[p].buf : i.rc = d.rc => i.seq # d.seq,
         ~Quarantines(p, d)
  PROVE  LET s    == Processed(p, d)
             item == [rc |-> d.rc, seq |-> d.seq, body |-> d.body, copy |-> 0]
         IN  /\ EraKnown(s, published)
             /\ DOMAIN s.pt = Ports /\ \A q \in Ports : q # p => s.pt[q] = pt[q]
             /\ DOMAIN s.pt[p] = TrackerFields /\ s.pt[p].era = d.rc
             /\ s.pt[p].eraPos \in Nat /\ s.pt[p].eraPos # 0
             /\ \A i \in s.pt[p].buf : i.rc = d.rc /\ (i \in pt[p].buf \/ i = item)
<1> DEFINE o       == Opened(p, d)
           item    == [rc |-> d.rc, seq |-> d.seq, body |-> d.body, copy |-> 0]
           drained == IF Advances(p, d) THEN pt[p].buf ELSE {}
           start   == [pt |-> pt, ext |-> Arrived(p, d), v |-> v]
           old     == Walk(p, start, drained)
           pushed  == Push(o, d)
           late    == Advances(p, d) /\ Late(pt[p], d)
           new     == [old EXCEPT !.pt[p] = pushed, !.ext[p] = Tainted(@, late)]
           s       == Processed(p, d)
<1>1. Catalogue(published)
  BY PublishedIsCatalogue
<1>2. /\ DOMAIN o = TrackerFields /\ o.era = d.rc /\ o.eraPos \in Nat /\ o.eraPos # 0
      /\ o.buf \subseteq pt[p].buf /\ \A i \in o.buf : i.rc = d.rc
  BY OpenedOf DEF FlowInv, IntakeInv, BufferInv
<1>3. EraKnown(start, published)
  BY ArrivedKnown
<1>4. /\ \A i \in pt[p].buf : i.seq \in Nat /\ i.copy = 0
      /\ p # "mktdata" => \A i \in pt[p].buf : Readable(p, i, published)
  BY DEF FlowInv, BufferInv, FrameFrom, Numbered
<1>5. d.seq \in Nat /\ (p # "mktdata" => Readable(p, d, published))
  BY DEF FrameFrom, Numbered
<1>6. DOMAIN pt = Ports /\ start.pt = pt
  BY DEF FlowInv, IntakeInv
<1>7. EraKnown(old, published) /\ OnlyPort(start, old, p)
  <2>1. p # "mktdata" => \A i \in drained : Readable(p, i, published)
    BY <1>4
  <2> HIDE DEF start, drained
  <2> QED
    BY <1>1, <1>3, <1>6, <2>1, WalkKeeps
<1>8. DOMAIN old.pt = Ports /\ \A q \in Ports : q # p => old.pt[q] = pt[q]
  BY <1>6, <1>7 DEF OnlyPort
<1> HIDE DEF old, start
<1>9. pushed = [o EXCEPT !.buf = o.buf \cup {item}]
  <2>1. \A i \in o.buf : i.seq # d.seq
    BY <1>2
  <2>2. "buf" \in DOMAIN o
    BY <1>2 DEF TrackerFields
  <2> HIDE DEF o
  <2> QED
    BY <2>1, <2>2, PushedNew
<1> HIDE DEF o
<1>10. /\ DOMAIN pushed = TrackerFields /\ pushed.era = d.rc
       /\ pushed.eraPos \in Nat /\ pushed.eraPos # 0 /\ pushed.buf = o.buf \cup {item}
  <2> HIDE DEF item, pushed
  <2> QED
    BY <1>2, <1>9 DEF TrackerFields
<1>11. item.rc = d.rc /\ item.seq = d.seq /\ item.body = d.body /\ item.copy = 0
  OBVIOUS
<1>12. p # "mktdata" => Readable(p, item, published)
  <2> HIDE DEF item
  <2> QED
    BY <1>5, <1>11, ReadableGrows
<1> HIDE DEF item, pushed, late
<1>13. /\ EraKnown(new, published)
       /\ DOMAIN new.pt = Ports /\ new.pt[p] = pushed
       /\ \A q \in Ports : q # p => new.pt[q] = pt[q]
  <2>1. /\ DOMAIN old = {"pt", "ext", "v"} /\ DOMAIN old.ext = Ports
        /\ \A q \in Ports : "refdataEra" \in DOMAIN old.ext[q]
    BY <1>7 DEF EraKnown
  <2>2. /\ DOMAIN new = {"pt", "ext", "v"} /\ new.v = old.v
        /\ DOMAIN new.pt = Ports /\ new.pt[p] = pushed
        /\ \A q \in Ports : q # p => new.pt[q] = old.pt[q]
        /\ DOMAIN new.ext = Ports /\ new.ext[p] = Tainted(old.ext[p], late)
        /\ \A q \in Ports : q # p => new.ext[q] = old.ext[q]
    BY <1>8, <2>1
  <2>3. /\ "refdataEra" \in DOMAIN Tainted(old.ext[p], late)
        /\ Tainted(old.ext[p], late).refdataEra = old.ext[p].refdataEra
    BY <2>1 DEF Tainted
  <2> HIDE DEF new
  <2>4. \A q \in Ports : /\ "refdataEra" \in DOMAIN new.ext[q]
                         /\ new.ext[q].refdataEra = old.ext[q].refdataEra
    BY <2>1, <2>2, <2>3
  <2>5. EraKnown(new, published)
    BY <1>7, <2>2, <2>4, SameEraKnown
  <2> QED
    BY <1>8, <2>2, <2>5
<1>14. s = IF Overflows(pushed) THEN ClassifyItem(p, new, HeadOf(pushed)) ELSE new
  BY DEF Processed, pushed, new, old, start, late, o
<1> HIDE DEF new, s
<1>15. CASE ~Overflows(pushed)
  BY <1>2, <1>10, <1>11, <1>13, <1>14, <1>15 DEF s, item
<1>16. CASE Overflows(pushed)
  <2> DEFINE h == HeadOf(pushed)
             u == ClassifyItem(p, new, h)
  <2>1. h \in pushed.buf
    <3>1. pushed.buf # {} /\ \A i \in pushed.buf : i.seq \in Nat /\ i.copy = 0
      BY <1>2, <1>4, <1>5, <1>10, <1>11
    <3> QED
      BY <3>1, HeadIn
  <2> HIDE DEF h
  <2>2. p # "mktdata" => Readable(p, h, published)
    BY <1>2, <1>4, <1>10, <1>12, <2>1
  <2>3. /\ EraKnown(u, published) /\ OnlyPort(new, u, p)
        /\ u.pt[p] = Popped(pushed, h)
    BY <1>1, <1>13, <2>2, ItemKeeps
  <2>4. DOMAIN u.pt = Ports /\ \A q \in Ports : q # p => u.pt[q] = pt[q]
    <3> HIDE DEF u
    <3> QED
      BY <1>13, <2>3 DEF OnlyPort
  <2> DEFINE c == Classify(pushed, {h})
  <2>5. /\ DOMAIN c = TrackerFields /\ c.era = d.rc /\ c.eraPos = pushed.eraPos
        /\ c.buf = pushed.buf
    BY <1>10 DEF Classify, TrackerFields
  <2> HIDE DEF c
  <2>6. /\ DOMAIN u.pt[p] = TrackerFields /\ u.pt[p].era = d.rc
        /\ u.pt[p].eraPos = pushed.eraPos /\ u.pt[p].buf \subseteq pushed.buf
    <3> HIDE DEF u
    <3> QED
      BY <2>3, <2>5 DEF TrackerFields, Popped, c
  <2>7. s = u
    BY <1>14, <1>16 DEF h
  <2> HIDE DEF u
  <2> QED
    BY <1>2, <1>10, <1>11, <2>3, <2>4, <2>6, <2>7 DEF s, item
<1> QED
  BY <1>15, <1>16

(* The engine's state after a step is s. *)
LEMMA NewEngine ==
  ASSUME UNCHANGED <<plan, published>>, NEW s, EraKnown(s, published), ext' = s.ext, v' = s.v
  PROVE  EraKnown(Engine, published)'
<1>1. DOMAIN Engine' = {"pt", "ext", "v"} /\ (Engine')["ext"] = s.ext /\ (Engine')["v"] = s.v
  BY DEF Engine
<1>2. \A rc : Coheres(s.v, rc, published) => Coheres(s.v, rc, published')
  OBVIOUS
<1> QED
  BY <1>1, <1>2 DEF EraKnown, ReadInOneEra, InEra, FirstCount

(* The era order keeps its types. *)
LEMMA EntersTyped ==
  ASSUME pos \in [ResetCounts -> Nat], next \in Nat, NEW p, NEW d, d.rc \in ResetCounts,
         EntersFor(p, d)
  PROVE  pos' \in [ResetCounts -> Nat] /\ next' \in Nat
<1>1. (\E from : Enter(d.rc, from)) \/ UNCHANGED <<pos, next>>
  BY DEF EntersFor
<1> QED
  BY <1>1 DEF Enter

(* Deliver. The frame was apart from what its port holds, and what is left *)
(* under way is apart from it.                                             *)
LEMMA DeliverOf ==
  ASSUME RefInv, SoleReader(plan), FewChanges(plan), NEW n \in DOMAIN net, Deliver(n),
         NEW p, p = net[n].port,
         NEW d, d = [rc |-> net[n].rc, seq |-> net[n].seq, body |-> net[n].body]
  PROVE  RefInv'
<1> DEFINE item == [rc |-> d.rc, seq |-> d.seq, body |-> d.body, copy |-> 0]
<1>1. /\ running /\ net' = RemoveAt(net, n)
      /\ Receives(p, d) \/ Drops(p, d)
      /\ UNCHANGED <<plan, feedEra, sent, published, clock, mseq, instruments, did, running>>
  BY DEF Deliver, pubVars
<1>2. PubInv /\ FlowInv /\ EraKnown(Engine, published)
  BY <1>1 DEF RefInv
<1>3. PubInv'
  <2>1. clock' \in Nat /\ "changes" \in DOMAIN did' /\ did'.changes = did.changes
    BY <1>1, <1>2 DEF PubInv
  <2> QED
    BY <1>1, <1>2, <2>1, PubStays
<1>4. /\ NetInv'
      /\ \A m \in DOMAIN net' : \E j \in DOMAIN net : j # n /\ net'[m] = net[j]
  BY <1>1, <1>2, NetShrinks DEF FlowInv
<1>5. d.rc = net[n].rc /\ d.seq = net[n].seq /\ d.body = net[n].body
  OBVIOUS
<1>6. item.rc = d.rc /\ item.seq = d.seq /\ item.body = d.body /\ item.copy = 0
  OBVIOUS
<1> HIDE DEF item
<1>7. p \in Ports /\ FrameFrom(p, d) /\ FrameFrom(p, item)
  <2>1. p \in Ports /\ FrameFrom(p, net[n])
    BY <1>2 DEF FlowInv, NetInv
  <2>2. \A x : x.rc = net[n].rc /\ x.body = net[n].body /\ Readable(p, net[n], published)
                 => Readable(p, x, published)
    BY ReadableGrows
  <2> QED
    BY <1>5, <1>6, <2>1, <2>2 DEF FrameFrom, Numbered
<1>8. d.rc \in ResetCounts
  <2>1. \E e \in 0 .. feedEra : d.rc = ResetCountOf(e)
    BY <1>7 DEF FrameFrom, Numbered
  <2>2. plan \in Plans /\ feedEra \in 0 .. plan.resets /\ plan.resets \in Nat
    BY <1>2, PlansAssumption DEF PubInv
  <2> QED
    BY <2>1, <2>2, CountsAssumption
<1>9. \A i \in pt[p].buf : i.rc = d.rc => i.seq # d.seq
  BY <1>2, <1>5, <1>7 DEF FlowInv, BufferInv
<1>10. \A m \in DOMAIN net' : net'[m].port = p /\ net'[m].rc = d.rc => net'[m].seq # d.seq
  <2>1. ASSUME NEW m \in DOMAIN net', net'[m].port = p, net'[m].rc = d.rc, net'[m].seq = d.seq
        PROVE  FALSE
    <3>1. PICK j \in DOMAIN net : j # n /\ net'[m] = net[j]
      BY <1>4
    <3>2. net[j].port = net[n].port /\ net[j].rc = net[n].rc /\ net[j].seq = net[n].seq
      BY <1>5, <2>1, <3>1
    <3>3. j = n
      BY <1>2, <3>2 DEF FlowInv, NetInv
    <3> QED
      BY <3>1, <3>3
  <2> QED
    BY <2>1
<1>11. \A q \in Ports : \A i \in pt[q].buf :
         /\ FrameFrom(q, i)' /\ i.copy = 0 /\ i.rc = pt[q].era
         /\ \A m \in DOMAIN net' : net'[m].port = q /\ net'[m].rc = i.rc => net'[m].seq # i.seq
  <2>1. \A q, x : FrameFrom(q, x) => FrameFrom(q, x)'
    BY <1>1 DEF FrameFrom, Numbered, Readable, FirstCount, Truthful
  <2> QED
    BY <1>2, <1>4, <2>1 DEF FlowInv, BufferInv
<1>12. FrameFrom(p, item)'
  BY <1>1, <1>7 DEF FrameFrom, Numbered, Readable, FirstCount, Truthful
<1>13. /\ DOMAIN pt = Ports
       /\ \A q \in Ports : /\ DOMAIN pt[q] = TrackerFields /\ pt[q].eraPos \in Nat
                           /\ pt[q].eraPos = 0 => pt[q].buf = {}
       /\ pos \in [ResetCounts -> Nat] /\ next \in Nat
  BY <1>2 DEF FlowInv, IntakeInv
<1>14. CASE Drops(p, d)
  <2>1. /\ pt' = [pt EXCEPT ![p].stragglers = @ + 1] /\ UNCHANGED <<pos, next>>
        /\ ext' = Arrived(p, d) /\ v' = v
    BY <1>14 DEF Drops, Quarantine
  <2>2. /\ DOMAIN pt' = Ports
        /\ \A q \in Ports : /\ DOMAIN pt'[q] = TrackerFields /\ pt'[q].eraPos = pt[q].eraPos
                            /\ pt'[q].buf = pt[q].buf /\ pt'[q].era = pt[q].era
    BY <1>7, <1>13, <2>1 DEF TrackerFields
  <2>3. BufferInv'
    BY <1>11, <2>2 DEF BufferInv
  <2>4. IntakeInv'
    BY <1>13, <2>1, <2>2 DEF IntakeInv
  <2> DEFINE s == [pt |-> pt, ext |-> Arrived(p, d), v |-> v]
  <2>5. EraKnown(s, published) /\ ext' = s.ext /\ v' = s.v
    BY <1>2, <1>7, <2>1, ArrivedKnown
  <2> HIDE DEF s
  <2>6. EraKnown(Engine, published)'
    BY <1>1, <2>5, NewEngine
  <2> QED
    BY <1>3, <1>4, <2>3, <2>4, <2>6 DEF RefInv, FlowInv
<1>15. CASE Receives(p, d)
  <2> DEFINE s == Processed(p, d)
  <2>1. ~Quarantines(p, d) /\ pt' = s.pt /\ ext' = s.ext /\ v' = s.v /\ EntersFor(p, d)
    BY <1>15 DEF Receives
  <2>2. /\ EraKnown(s, published)
        /\ DOMAIN s.pt = Ports /\ \A q \in Ports : q # p => s.pt[q] = pt[q]
        /\ DOMAIN s.pt[p] = TrackerFields /\ s.pt[p].era = d.rc
        /\ s.pt[p].eraPos \in Nat /\ s.pt[p].eraPos # 0
        /\ \A i \in s.pt[p].buf : i.rc = d.rc /\ (i \in pt[p].buf \/ i = item)
    BY <1>2, <1>7, <1>8, <1>9, <2>1, ProcessedKeeps DEF item
  <2> HIDE DEF s
  <2>3. BufferInv'
    <3>1. \A i \in s.pt[p].buf :
            /\ FrameFrom(p, i)' /\ i.copy = 0 /\ i.rc = s.pt[p].era
            /\ \A m \in DOMAIN net' : net'[m].port = p /\ net'[m].rc = i.rc => net'[m].seq # i.seq
      BY <1>6, <1>7, <1>10, <1>11, <1>12, <2>2
    <3>2. \A q \in Ports : pt'[q] = IF q = p THEN s.pt[p] ELSE pt[q]
      BY <1>7, <2>1, <2>2
    <3> QED
      BY <1>11, <3>1, <3>2 DEF BufferInv
  <2>4. IntakeInv'
    <3>1. pos' \in [ResetCounts -> Nat] /\ next' \in Nat
      BY <1>8, <1>13, <2>1, EntersTyped
    <3> QED
      BY <1>7, <1>13, <2>1, <2>2, <3>1 DEF IntakeInv
  <2>5. EraKnown(Engine, published)'
    BY <1>1, <2>1, <2>2, NewEngine
  <2> QED
    BY <1>3, <1>4, <2>3, <2>4, <2>5 DEF RefInv, FlowInv
<1> QED
  BY <1>1, <1>14, <1>15

(* The same, of the names Deliver gives it. *)
LEMMA DeliverStep ==
  ASSUME RefInv, SoleReader(plan), FewChanges(plan), NEW n \in DOMAIN net, Deliver(n)
  PROVE  RefInv'
BY DeliverOf

(* Flush reads what the buffers hold, and the verdicts leave the set alone. *)
LEMMA EndRunStep ==
  ASSUME RefInv, SoleReader(plan), FewChanges(plan), EndRun
  PROVE  RefInv'
<1> DEFINE s == Flushed
           c == Context(s, "mktdata", NoTS)
           z == ResolveValidZero(s.v, FALSE, c)
           y == AtEnd(s.v, c)
<1>1. /\ running /\ ~running' /\ ext' = s.ext /\ v' = y
      /\ UNCHANGED <<plan, feedEra, sent, published, clock, mseq, instruments, did>>
  BY DEF EndRun, pubVars
<1>2. PubInv /\ FlowInv /\ EraKnown(Engine, published)
  BY <1>1 DEF RefInv
<1>3. PubInv'
  <2>1. clock' \in Nat /\ "changes" \in DOMAIN did' /\ did'.changes = did.changes
    BY <1>1, <1>2 DEF PubInv
  <2> QED
    BY <1>1, <1>2, <2>1, PubStays
<1>4. HoldsReadable(pt, published)
  BY <1>2 DEF FlowInv, IntakeInv, BufferInv, FrameFrom, HoldsReadable, TrackerFields
<1>5. EraKnown(s, published)
  BY <1>2, <1>4, PublishedIsCatalogue, FlushKeeps
<1> HIDE DEF s, c
<1>6. StateTyped(z) /\ SameSet(s.v, z)
  BY <1>5, ResolvedTyped DEF EraKnown
<1>7. StateTyped(y) /\ SameSet(s.v, y)
  <2> DEFINE final == TRUE
  <2>1. y = Decide(z, c, final)
    BY DEF AtEnd
  <2>2. final \in BOOLEAN
    OBVIOUS
  <2> HIDE DEF final, z, y
  <2>3. SameBut(z, y, {"findings", "decided"})
    BY <1>6, <2>1, <2>2, DecideSame DEF StateTyped
  <2>4. SameBut(z, y, {"findings", "sessionEnd", "lastRefdata", "decided", "lastManifest"})
    BY <2>3 DEF SameBut
  <2> QED
    BY <1>6, <2>4, SameButTyped DEF SameSet
<1> HIDE DEF z, y
<1> DEFINE u == [s EXCEPT !.v = y]
<1>8. DOMAIN u = {"pt", "ext", "v"} /\ u.ext = s.ext /\ u.v = y
  BY <1>5 DEF EraKnown
<1> HIDE DEF u
<1>9. EraKnown(u, published)
  <2>1. \A rc : Coheres(s.v, rc, published) => Coheres(y, rc, published)
    BY <1>7, SameSetCoheres
  <2> QED
    BY <1>5, <1>7, <1>8, <2>1 DEF EraKnown
<1>10. EraKnown(Engine, published)'
  BY <1>1, <1>8, <1>9, NewEngine
<1> QED
  BY <1>1, <1>3, <1>10 DEF RefInv

-----------------------------------------------------------------------------
LEMMA NewRefDataTyped == StateTyped(NewRefData) /\ ~NewRefData.valid
<1>1. 0 \in 0 .. M - 1
  BY ModulusAssumption
<1> QED
  BY <1>1 DEF NewRefData, StateTyped, Fields

LEMMA StartsRight ==
  ASSUME RefInit
  PROVE  RefInv
<1>1. /\ Init /\ plan \in Plans /\ feedEra = 0 /\ sent = [p \in Ports |-> 0] /\ net = << >>
      /\ clock = 0 /\ mseq \in plan.seqs /\ instruments \in plan.start
      /\ did = [sessions |-> 0, changes |-> 0, summed |-> {}, ahead |-> FALSE, took |-> {}]
      /\ published = {[era |-> 0, seq |-> mseq, ids |-> Members(instruments)]}
      /\ ext = [p \in Ports |-> [refdataEra |-> NoEra, taints |-> 0, lastArrival |-> NoTS]]
      /\ v = NewRefData
  BY DEF RefInit, NetInit
<1>2. PubInv
  <2>1. /\ plan.resets \in Nat /\ plan.changes \in Nat /\ mseq \in 0 .. M - 1
        /\ instruments \in [Ids -> Listing] /\ M \in Nat
    BY <1>1, PlansAssumption, RefPlansAssumption, ModulusAssumption
  <2>2. ChangesSince(mseq) = 0
    BY <2>1 DEF ChangesSince
  <2>3. Members(instruments) \subseteq Ids
    BY DEF Members
  <2> QED
    BY <1>1, <2>1, <2>2, <2>3 DEF PubInv
<1>3. NetInv
  <2>1. net \in Seq({net[n] : n \in DOMAIN net}) /\ DOMAIN net = {}
    BY <1>1
  <2> QED
    BY <1>1, <2>1 DEF NetInv
<1>4. /\ DOMAIN pt = Ports
      /\ \A q \in Ports : DOMAIN pt[q] = TrackerFields /\ pt[q].eraPos = 0 /\ pt[q].buf = {}
      /\ pos \in [ResetCounts -> Nat] /\ next \in Nat
  BY <1>1 DEF Init, NewTracker, TrackerFields
<1>5. BufferInv /\ IntakeInv
  BY <1>4 DEF BufferInv, IntakeInv
<1>6. EraKnown(Engine, published)
  <2>1. /\ DOMAIN Engine = {"pt", "ext", "v"} /\ Engine.ext = ext /\ Engine.v = v
        /\ DOMAIN ext = Ports
        /\ \A q \in Ports : "refdataEra" \in DOMAIN ext[q] /\ ext[q].refdataEra = NoEra
    BY <1>1 DEF Engine
  <2>2. StateTyped(v) /\ ~v.valid
    BY <1>1, NewRefDataTyped
  <2> QED
    BY <2>1, <2>2 DEF EraKnown, ReadInOneEra, Coheres
<1> QED
  BY <1>2, <1>3, <1>5, <1>6 DEF RefInv, FlowInv

LEMMA Stutters ==
  ASSUME RefInv, UNCHANGED allVars
  PROVE  RefInv'
<1>1. /\ UNCHANGED <<pt, pos, next, ext, v, running, net, sent>>
      /\ UNCHANGED <<plan, feedEra, published, clock, mseq, instruments, did>>
  BY DEF allVars, vars, netVars, pubVars, recVars
<1>2. PubInv'
  <2>1. PubInv
    BY DEF RefInv
  <2>2. clock' \in Nat /\ "changes" \in DOMAIN did' /\ did'.changes = did.changes
    BY <1>1, <2>1 DEF PubInv
  <2> QED
    BY <1>1, <2>1, <2>2, PubStays
<1>3. FlowInv => FlowInv'
  <2>1. \A q, x : FrameFrom(q, x) => FrameFrom(q, x)'
    BY <1>1 DEF FrameFrom, Numbered, Readable, FirstCount, Truthful
  <2>2. NetInv => NetInv'
    BY <1>1, <2>1 DEF NetInv
  <2>3. BufferInv => BufferInv'
    BY <1>1, <2>1 DEF BufferInv
  <2>4. IntakeInv => IntakeInv'
    BY <1>1 DEF IntakeInv
  <2> QED
    BY <2>2, <2>3, <2>4 DEF FlowInv
<1>4. EraKnown(Engine, published)'
  BY <1>1, EngineStays DEF RefInv
<1> QED
  BY <1>1, <1>2, <1>3, <1>4 DEF RefInv

LEMMA RefNextKeeps ==
  ASSUME RefInv, [RefNext]_allVars
  PROVE  RefInv'
<1>1. SoleReader(plan) /\ FewChanges(plan)
  BY ApartAssumption DEF RefInv, PubInv
<1>2. ASSUME NEW p \in Paths, SendSummary(p) \/ Start(p) \/ SendZero(p)
      PROVE  RefInv'
  BY <1>1, <1>2, SummaryStep, StartStep, ZeroStep
<1>3. ASSUME NEW p \in Paths, NEW id \in Ids, SendDefinition(p, id) \/ SendPaced(p, id)
      PROVE  RefInv'
  BY <1>1, <1>3, DefinitionStep, PacedStep
<1>4. ASSUME NEW p \in Paths, NEW id \in Ids, NEW x \in Instrument \cup {NoOne}, Change(p, id, x)
      PROVE  RefInv'
  BY <1>1, <1>4, ChangeStep
<1>13. ASSUME NEW id \in Ids, NEW x \in Instrument \cup {NoOne}, ChangeAhead(id, x)
       PROVE  RefInv'
  BY <1>1, <1>13, ChangeAheadStep
<1>5. ASSUME NEW id \in Ids, FixStrike(id)
      PROVE  RefInv'
  BY <1>5, FixStrikeStep
<1>6. ASSUME SendEndOfSession \/ Heartbeat
      PROVE  RefInv'
  BY <1>1, <1>6, MktdataStep
<1>7. ASSUME Tick
      PROVE  RefInv'
  BY <1>7, TickStep
<1>8. ASSUME NEW seq \in {1, mseq}, ChannelReset(seq)
      PROVE  RefInv'
  BY <1>8, ResetStep
<1>9. ASSUME NEW n \in DOMAIN net, Deliver(n)
      PROVE  RefInv'
  BY <1>1, <1>9, DeliverStep
<1>10. ASSUME NEW n \in DOMAIN net, Lose(n)
       PROVE  RefInv'
  BY <1>10, LoseStep
<1>11. ASSUME EndRun
       PROVE  RefInv'
  BY <1>1, <1>11, EndRunStep
<1>12. ASSUME UNCHANGED allVars
       PROVE  RefInv'
  BY <1>12, Stutters
<1> QED
  BY <1>2, <1>3, <1>4, <1>5, <1>6, <1>7, <1>8, <1>9, <1>10, <1>11, <1>12, <1>13 DEF RefNext

(* On every run the engine's reference-data state is that of the published *)
(* sets: RefInv is inductive.                                              *)
THEOREM ReferenceDataIsKnown == RefSpec => []RefInv
<1>1. RefInit => RefInv
  BY StartsRight
<1>2. RefInv /\ [RefNext]_allVars => RefInv'
  BY RefNextKeeps
<1> QED
  BY <1>1, <1>2, PTL DEF RefSpec

(* A frozen set is what its validator serves, on every run and whatever is *)
(* lost: refdata.go never keeps a frozen set it no longer has.             *)
THEOREM RefTypes == RefSpec => []RefTypeOK
<1>1. RefInv => RefTypeOK
  BY DEF RefInv, EraKnown, Engine, StateTyped, RefTypeOK
<1> QED
  BY <1>1, ReferenceDataIsKnown, PTL

(* The set channelKnown and defInfoFor rely on is one the publisher had at *)
(* that Manifest Seq and Reset Count, never one put together from two,     *)
(* whatever is lost, wherever the Manifest Seq wraps and however often the *)
(* channel resets.                                                         *)
THEOREM ReadySetWasPublished == RefSpec => []ReadySetIsPublished
<1>1. RefInv => ReadySetIsPublished
  <2> SUFFICES ASSUME RefInv, NEW p \in Paths, Ready(v), ext[p].refdataEra # NoEra
               PROVE  \E set \in published :
                        /\ ResetCountOf(set.era) = ext[p].refdataEra
                        /\ set.seq = v.latest /\ set.ids = v.defs
    BY DEF ReadySetIsPublished
  <2> DEFINE rc == ext[p].refdataEra
  <2>1. SoleReader(plan) /\ PubInv /\ EraKnown(Engine, published) /\ p \in Ports
    BY ApartAssumption DEF RefInv, PubInv, Paths
  <2>2. InEra(ext, rc)
    <3>1. \A q \in Ports : ext[q].refdataEra # NoEra => q \in plan.paths /\ FirstCount(ext[q].refdataEra)
      BY <2>1 DEF EraKnown, Engine, ReadInOneEra
    <3>2. CASE plan.resets = 0
      BY <2>1, <3>1, <3>2 DEF FirstCount, InEra
    <3>3. CASE \A a, b \in plan.paths : a = b
      BY <2>1, <3>1, <3>3 DEF InEra
    <3> QED
      BY <2>1, <3>2, <3>3 DEF SoleReader
  <2>3. Coheres(v, rc, published)
    BY <2>1, <2>2 DEF EraKnown, Engine
  <2>4. PICK set \in published : Matches(v, rc, set)
    BY <2>3 DEF Coheres, Ready
  <2>5. IsFiniteSet(set.ids)
    BY <2>1, IdsAssumption, FS_Subset DEF PubInv
  <2>6. Cardinality(v.defs) = Cardinality(set.ids) /\ v.defs \subseteq set.ids
    BY <2>4 DEF Matches, Ready
  <2>7. v.defs = set.ids
    BY <2>5, <2>6, FS_Subset
  <2> QED
    BY <2>4, <2>7 DEF Matches
<1> QED
  BY <1>1, ReferenceDataIsKnown, PTL

-----------------------------------------------------------------------------
(* The deadline verdict. The times a state keeps are times.                *)
Stamped(x) ==
  /\ DOMAIN x = Fields
  /\ x.first \in Int /\ x.lastServing \in Int /\ x.lastRefdata \in Int

SameTimes(x, y) ==
  /\ DOMAIN y = Fields
  /\ y.first = x.first /\ y.lastServing = x.lastServing /\ y.lastRefdata = x.lastRefdata

LEMMA StampedSame ==
  ASSUME NEW x, NEW y, Stamped(x), SameTimes(x, y)
  PROVE  Stamped(y)
BY DEF Stamped, SameTimes

LEMMA ChargedTimes ==
  ASSUME NEW x, DOMAIN x = Fields, NEW cond, NEW rule, NEW dirty
  PROVE  SameTimes(x, ChargeIf(x, cond, rule, dirty))
BY DEF ChargeIf, Charge, SameTimes, Fields

LEMMA DecideTimes ==
  ASSUME NEW x, DOMAIN x = Fields, NEW c, NEW final
  PROVE  SameTimes(x, Decide(x, c, final))
<1>1. SameTimes(x, x) /\ SameTimes(x, Decided(x))
  BY DEF SameTimes, Decided, Fields
<1>2. \A cond, rule, dirty : SameTimes(Decided(x), ChargeIf(Decided(x), cond, rule, dirty))
  BY <1>1, ChargedTimes DEF SameTimes
<1> QED
  BY <1>1, <1>2 DEF Decide, SameTimes

LEMMA ResumedTimes ==
  ASSUME NEW x, DOMAIN x = Fields, NEW c
  PROVE  SameTimes(x, Resumed(x, c))
<1> DEFINE y == [x EXCEPT !.pending = Nil]
           z == ResolveValidZero(x, TRUE, c)
<1>1. SameTimes(x, x) /\ SameTimes(x, y)
  BY DEF SameTimes, Fields
<1>2. z = x \/ \E cond, dirty : z = ChargeIf(y, cond, "VALID_FLAG_WHILE_SERVING", dirty)
  BY DEF ResolveValidZero
<1> HIDE DEF y, z
<1>3. SameTimes(x, z)
  <2>1. \A cond, rule, dirty : SameTimes(y, ChargeIf(y, cond, rule, dirty))
    BY <1>1, ChargedTimes DEF SameTimes
  <2> QED
    BY <1>1, <1>2, <2>1 DEF SameTimes
<1> QED
  BY <1>3 DEF SameTimes, Resumed, Fields, z

LEMMA CloseCycleTimes ==
  ASSUME NEW x, DOMAIN x = Fields, NEW c
  PROVE  SameTimes(x, CloseCycle(x, c))
<1> DEFINE one(k)    == ChargeIf(x, k, "DEFINITION_CYCLE_COVERAGE", c.dirty)
           two(k, l) == ChargeIf(one(k), l, "NO_BURST_DEFINITIONS", c.dirty)
<1>1. \A k : SameTimes(x, one(k))
  BY ChargedTimes
<1>2. \A k, l : SameTimes(x, two(k, l))
  <2> HIDE DEF one
  <2>1. \A k, l : SameTimes(one(k), two(k, l))
    BY <1>1, ChargedTimes DEF SameTimes
  <2> HIDE DEF two
  <2> QED
    BY <1>1, <2>1 DEF SameTimes
<1>3. \/ CloseCycle(x, c) = x
      \/ \E k, l : CloseCycle(x, c) = OpenCycle(two(k, l), c)
  BY DEF CloseCycle
<1> HIDE DEF two
<1>4. ASSUME NEW y, SameTimes(x, y)
      PROVE  SameTimes(x, OpenCycle(y, c))
  BY <1>4 DEF SameTimes, OpenCycle, Fields
<1> QED
  BY <1>2, <1>3, <1>4 DEF SameTimes

LEMMA NewPeriodStamped ==
  ASSUME NEW x, Stamped(x), NEW c
  PROVE  Stamped(NewPeriod(x, c))
<1> DEFINE y == Decide(x, c, TRUE)
<1>1. Stamped(y)
  BY DecideTimes, StampedSame DEF Stamped
<1>2. NewPeriod(x, c) \in {x, [y EXCEPT !.ready = NoTS, !.first = NoTS, !.lastServing = NoTS,
                                        !.lastRefdata = NoTS, !.decided = FALSE]}
  BY DEF NewPeriod
<1> HIDE DEF y
<1>3. NoTS \in Int
  BY DEF NoTS
<1>4. Stamped([y EXCEPT !.ready = NoTS, !.first = NoTS, !.lastServing = NoTS,
                        !.lastRefdata = NoTS, !.decided = FALSE])
  BY <1>1, <1>3 DEF Stamped, Fields
<1> QED
  BY <1>2, <1>4

LEMMA AppliedStamped ==
  ASSUME NEW x, Stamped(x), NEW m, NEW c, c.ts \in Int
  PROVE  Stamped(Applied(x, m, c))
<1> DEFINE adv   == Advancing(x, m)
           fresh == x.first # NoTS /\ Restarts(x, m)
           stamped == IF x.first = NoTS THEN [x EXCEPT !.first = c.ts]
                      ELSE IF fresh THEN [x EXCEPT !.first = c.ts, !.lastRefdata = NoTS,
                                                   !.ready = NoTS, !.decided = FALSE]
                      ELSE x
           set == [stamped EXCEPT !.valid = TRUE, !.seqEverSet = TRUE,
                                  !.prev = <<m.seq, m.count>>,
                                  !.latest   = IF adv THEN m.seq ELSE @,
                                  !.expected = IF adv THEN m.count ELSE @,
                                  !.defs     = IF adv THEN {} ELSE @,
                                  !.frozen   = IF adv THEN {} ELSE @,
                                  !.lastManifest = c.ts, !.lastServing = c.ts]
<1>1. Stamped(stamped)
  BY DEF Stamped, Fields, NoTS
<1>2. Applied(x, m, c) = set \/ Applied(x, m, c) = OpenCycle(set, c)
  BY DEF Applied
<1> HIDE DEF stamped, adv
<1>3. Stamped(set)
  <2>1. /\ DOMAIN set = Fields /\ set.first = stamped.first /\ set.lastServing = c.ts
        /\ set.lastRefdata = stamped.lastRefdata
    <3>1. DOMAIN stamped = Fields
      BY <1>1 DEF Stamped
    <3> QED
      BY <3>1 DEF Fields
  <2> HIDE DEF set
  <2> QED
    BY <1>1, <2>1 DEF Stamped
<1> HIDE DEF set
<1> QED
  BY <1>2, <1>3 DEF OpenCycle, Stamped, Fields

LEMMA SummaryStamped ==
  ASSUME NEW x, Stamped(x), NEW m, NEW c, c.ts \in Int
  PROVE  Stamped(OnManifestSummary(x, m, c))
<1> DEFINE a == Armed(x, m, c)
           j == Judged(a, m, c)
<1>1. Stamped(a)
  BY DEF Armed, Stamped, Fields
<1>2. SameBut(a, j, {"findings"})
  BY <1>1, JudgedSame DEF Stamped
<1>3. Stamped(j)
  <2> HIDE DEF a, j
  <2> QED
    BY <1>1, <1>2 DEF SameBut, Stamped, Fields
<1>4. \A cond, rule, dirty : /\ Stamped(ChargeIf(x, cond, rule, dirty))
                             /\ Stamped(ChargeIf(a, cond, rule, dirty))
  <2> HIDE DEF a
  <2> QED
    BY <1>1, ChargedTimes, StampedSame DEF Stamped
<1> HIDE DEF a, j
<1>5. Stamped(Invalidated(j, c))
  <2> DEFINE y == Invalidated(j, c)
  <2>1. /\ DOMAIN y = Fields
        /\ y.first = j.first /\ y.lastServing = j.lastServing /\ y.lastRefdata = j.lastRefdata
    <3>1. DOMAIN j = Fields
      BY <1>3 DEF Stamped
    <3> QED
      BY <3>1 DEF Invalidated, Fields
  <2> HIDE DEF y
  <2>2. Stamped(y)
    BY <1>3, <2>1 DEF Stamped
  <2> QED
    BY <2>2 DEF y
<1>6. Stamped(Serving(j, m, c))
  <2> DEFINE r == Resumed(j, c)
             d == ChargeIf(r, CadenceMissed(j, c), "MANIFEST_CADENCE", c.dirty)
             e == CloseCycle(d, c)
             n == NewPeriod(e, c)
  <2>1. Stamped(r)
    BY <1>3, ResumedTimes, StampedSame DEF Stamped
  <2>2. Stamped(d)
    <3> HIDE DEF r
    <3> QED
      BY <2>1, ChargedTimes, StampedSame DEF Stamped
  <2>3. Stamped(e)
    <3> HIDE DEF d
    <3> QED
      BY <2>2, CloseCycleTimes, StampedSame DEF Stamped
  <2>4. Stamped(n)
    <3> HIDE DEF e
    <3> QED
      BY <2>3, NewPeriodStamped
  <2>5. Serving(j, m, c) = Applied(n, m, c)
    BY DEF Serving
  <2> HIDE DEF n
  <2> QED
    BY <2>4, <2>5, AppliedStamped
<1> QED
  BY <1>3, <1>4, <1>5, <1>6 DEF OnManifestSummary, a, j

LEMMA DefinitionStamped ==
  ASSUME NEW x, Stamped(x), NEW m, NEW c
  PROVE  Stamped(OnInstrumentDef(x, m, c))
<1>1. \A y, cond, rule, dirty : Stamped(y) => Stamped(ChargeIf(y, cond, rule, dirty))
  BY ChargedTimes, StampedSame DEF Stamped
<1> DEFINE stale  == ChargeIf(x, x.valid /\ m.seq # x.latest, "STALE_SEQ_TAG_AFTER_BUMP", c.dirty)
           left   == ChargeIf(stale, x.frozen # {} /\ m.id \notin x.frozen,
                              "SET_CHANGE_NO_SEQ_BUMP", c.dirty)
           joined == [left EXCEPT !.defs = @ \cup {m.id}]
           within == ChargeIf(joined, Cardinality(joined.defs) > x.expected,
                              "COUNT_VS_DISTINCT_DEFS", c.dirty)
           frozen == Freeze(within, c)
           noted  == NoteInCycle(frozen, m, c)
<1>2. Stamped(stale)
  BY <1>1
<1>3. OnInstrumentDef(x, m, c) \in {stale, OnDefinitionStrike(noted, m, c)}
  BY DEF OnInstrumentDef
<1> HIDE DEF stale
<1>4. Stamped(left)
  BY <1>1, <1>2
<1> HIDE DEF left
<1>5. Stamped(joined)
  BY <1>4 DEF Stamped, Fields
<1> HIDE DEF joined
<1>6. Stamped(within)
  BY <1>1, <1>5
<1> HIDE DEF within
<1>7. Stamped(frozen)
  BY <1>6 DEF Freeze, Stamped, Fields
<1> HIDE DEF frozen
<1>8. Stamped(noted)
  BY <1>7 DEF NoteInCycle, Stamped, Fields
<1> HIDE DEF noted
<1>9. Stamped(OnDefinitionStrike(noted, m, c))
  <2> DEFINE no        == FALSE
             one(k)    == ChargeIf(noted, k, "PRESENCE_STABLE", no)
             two(k, l) == ChargeIf(one(k), l, "FIXED_STAYS_FIXED", no)
  <2>1. \E k, l, a, e : OnDefinitionStrike(noted, m, c) = [two(k, l) EXCEPT !.strikes[a] = e]
    BY DEF OnDefinitionStrike
  <2> HIDE DEF no
  <2>2. \A k : Stamped(one(k))
    BY <1>1, <1>8
  <2> HIDE DEF one
  <2>3. \A k, l : Stamped(two(k, l))
    BY <1>1, <2>2
  <2> HIDE DEF two
  <2>4. \A y, a, e : Stamped(y) => Stamped([y EXCEPT !.strikes[a] = e])
    BY DEF Stamped, Fields
  <2> QED
    BY <2>1, <2>3, <2>4
<1> QED
  BY <1>2, <1>3, <1>9

LEMMA ReadAllStamped ==
  ASSUME NEW x, Stamped(x), NEW msgs, Len(msgs) \in Nat, NEW c, c.ts \in Int
  PROVE  Stamped(ReadAll(x, msgs, c))
<1>1. PICK f : /\ IsReading(f, Len(msgs), x, msgs, c)
               /\ ReadAll(x, msgs, c) = f[Len(msgs)]
  BY ReadAllReads
<1>2. \A n \in 0 .. Len(msgs) : f[n] = IF n = 0 THEN x ELSE OnRefData(f[n - 1], msgs[n], c)
  BY <1>1 DEF IsReading
<1> DEFINE Bad == {n \in 0 .. Len(msgs) : ~Stamped(f[n])}
<1>3. Bad = {}
  <2> SUFFICES ASSUME Bad # {} PROVE FALSE
    OBVIOUS
  <2>1. PICK n \in Bad : \A k \in Bad : n <= k
    <3>1. Bad \in SUBSET Nat
      OBVIOUS
    <3> HIDE DEF Bad
    <3> QED
      BY <3>1, LeastOf
  <2>2. n # 0
    BY <1>2, <2>1
  <2>3. n - 1 \in 0 .. Len(msgs) /\ n - 1 \notin Bad
    BY <2>1, <2>2
  <2>4. Stamped(f[n - 1])
    BY <2>3
  <2>5. f[n] = OnRefData(f[n - 1], msgs[n], c)
    BY <1>2, <2>1, <2>2
  <2>6. Stamped(f[n])
    BY <2>4, <2>5, SummaryStamped, DefinitionStamped DEF OnRefData
  <2> QED
    BY <2>1, <2>6
<1> QED
  BY <1>1, <1>3

(* Past the deadline and without a verdict; what it then waits for.        *)
Span == plan.cadence + plan.cycle

Owes(x) ==
  /\ plan.cadence > 0 /\ plan.cycle > 0
  /\ x.valid /\ x.first <= x.lastServing /\ ClosedBy(x) - x.first > Span
  /\ ~x.decided

HeldBy(s, q) ==
  /\ ClosedBy(s.v) - s.ext[q].lastArrival <= Span
  /\ \E item \in s.pt[q].buf : SentAt(item) <= s.v.first + Span

Awaited(s) == Owes(s.v) => \E q \in Paths : HeldBy(s, q)

Timely(s) ==
  /\ Stamped(s.v)
  /\ \A q \in Ports : "lastArrival" \in DOMAIN s.ext[q] /\ s.ext[q].lastArrival \in Int

(* Decide leaves the verdict open past the deadline only for the buffers.  *)
LEMMA DecideWaits ==
  ASSUME plan \in Plans,
         NEW x, Stamped(x), NEW c, c.cadence = plan.cadence, c.cycle = plan.cycle,
         NEW y, y = Decide(x, c, FALSE), StateTyped(y), Owes(y)
  PROVE  Unread(c) /\ y.first = x.first /\ ClosedBy(y) = ClosedBy(x)
<1>1. SameTimes(x, y)
  BY DecideTimes DEF Stamped
<1>2. y.first = x.first /\ y.lastServing = x.lastServing /\ ClosedBy(y) = ClosedBy(x)
  BY <1>1 DEF SameTimes, ClosedBy
<1>3. x.first # NoTS
  BY <1>2 DEF StateTyped, Owes
<1>4. ~Open(x, c) /\ c.cadence # 0 /\ c.cycle # 0
  <2>1. ClosedBy(x) \in Int
    BY DEF ClosedBy, Later, Stamped
  <2>2. ~(x.lastServing < x.first)
    <3>1. x.first <= x.lastServing /\ x.first \in Int /\ x.lastServing \in Int
      BY <1>2 DEF Owes, Stamped
    <3> QED
      BY <3>1
  <2>3. ~(ClosedBy(x) - x.first <= Window(c))
    <3>1. ClosedBy(x) - x.first > Window(c)
      BY <1>2 DEF Owes, Span, Window
    <3>2. Window(c) \in Nat
      BY RefPlansAssumption DEF Window
    <3> QED
      BY <2>1, <3>1, <3>2 DEF Stamped
  <2>4. c.cadence # 0 /\ c.cycle # 0
    BY DEF Owes
  <2> QED
    BY <1>3, <2>2, <2>3, <2>4 DEF Open
<1>5. \A cond, rule, dirty : ChargeIf(Decided(x), cond, rule, dirty).decided
  BY DEF ChargeIf, Charge, Decided, Stamped, Fields
<1>6. Decided(x).decided
  BY DEF Decided, Stamped, Fields
<1>7. Unread(c)
  BY <1>4, <1>5, <1>6 DEF Decide, Owes
<1> QED
  BY <1>2, <1>7

(* processRefdataFrame, whatever was awaited before it.                    *)
LEMMA FrameAwaited ==
  ASSUME SoleReader(plan), plan \in Plans, NEW pub, Catalogue(pub),
         NEW s, EraKnown(s, pub), Timely(s),
         NEW p \in Ports, NEW item, Readable(p, item, pub)
  PROVE  Timely(OnRefDataFrame(s, p, item)) /\ Awaited(OnRefDataFrame(s, p, item))
<1> DEFINE c     == Context(s, p, SentAt(item))
           fresh == IF s.ext[p].refdataEra \notin {NoEra, item.rc} THEN OnResetChannel(s.v) ELSE s.v
           all   == ReadAll(fresh, item.body.msgs, c)
           w     == Clocked(all, c)
           held  == WithBuffers(c, s, w)
           y     == Decide(w, held, FALSE)
           u     == OnRefDataFrame(s, p, item)
<1>1. u = [s EXCEPT !.v = y, !.ext[p].refdataEra = item.rc]
  BY DEF OnRefDataFrame
<1>2. /\ c.ts \in Int /\ Window(c) = Span /\ "unread" \in DOMAIN c
      /\ c.cadence = plan.cadence /\ c.cycle = plan.cycle
      /\ DOMAIN c = {"ts", "dirty", "taints", "cadence", "cycle", "anyDirty", "mktSeen",
                     "mktDirty", "unread", "stranded"}
  BY DEF Context, Readable, Window, Span
<1>3. Span \in Nat
  BY RefPlansAssumption DEF Span
<1>4. Stamped(fresh)
  <2>1. Stamped(OnResetChannel(s.v))
    BY DEF OnResetChannel, NewRefData, Stamped, Fields, NoTS
  <2> QED
    BY <2>1 DEF Timely
<1> HIDE DEF c, fresh
<1>5. Stamped(all)
  BY <1>2, <1>4, ReadAllStamped DEF Readable
<1> HIDE DEF all
<1>6. Stamped(w)
  BY <1>2, <1>5 DEF Clocked, Later, Stamped, Fields
<1> HIDE DEF w
<1>7. /\ held.cadence = plan.cadence /\ held.cycle = plan.cycle
      /\ held.unread = \E q \in Paths :
                         /\ ~Stopped(s.ext[q], ClosedBy(w), c)
                         /\ {i \in s.pt[q].buf : SentAt(i) <= w.first + Window(c)} # {}
  BY <1>2 DEF WithBuffers
<1> HIDE DEF held
<1>8. Stamped(y)
  BY <1>6, DecideTimes, StampedSame DEF Stamped
<1>9. EraKnown(u, pub) /\ u.pt = s.pt
  BY FrameKeeps
<1> HIDE DEF y
<1>10. /\ u.v = y
       /\ \A q \in Ports : /\ "lastArrival" \in DOMAIN u.ext[q]
                           /\ u.ext[q].lastArrival = s.ext[q].lastArrival
  <2>1. /\ u.v = y /\ u.ext[p] = [s.ext[p] EXCEPT !.refdataEra = item.rc]
        /\ \A q \in Ports : q # p => u.ext[q] = s.ext[q]
    BY <1>1 DEF EraKnown
  <2> HIDE DEF u
  <2> QED
    BY <2>1 DEF Timely
<1> HIDE DEF u
<1>11. Timely(u)
  BY <1>8, <1>10 DEF Timely
<1>12. ASSUME Owes(u.v)
       PROVE  \E q \in Paths : HeldBy(u, q)
  <2>1. Unread(held) /\ y.first = w.first /\ ClosedBy(y) = ClosedBy(w)
    BY <1>6, <1>7, <1>9, <1>10, <1>12, DecideWaits DEF EraKnown, y
  <2>2. PICK q \in Paths : /\ ~Stopped(s.ext[q], ClosedBy(w), c)
                           /\ {i \in s.pt[q].buf : SentAt(i) <= w.first + Span} # {}
    BY <1>2, <1>7, <2>1 DEF Unread
  <2>3. q \in Ports
    BY DEF Paths
  <2>4. ClosedBy(w) \in Int /\ s.ext[q].lastArrival \in Int
    BY <1>6, <2>3 DEF ClosedBy, Later, Stamped, Timely
  <2>5. ClosedBy(w) - s.ext[q].lastArrival <= Span
    BY <1>2, <1>3, <2>2, <2>4 DEF Stopped
  <2>6. HeldBy(u, q)
    BY <1>9, <1>10, <2>1, <2>2, <2>3, <2>5 DEF HeldBy
  <2> QED
    BY <2>6
<1> QED
  BY <1>11, <1>12 DEF Awaited, u

(* The buffer of a port may be replaced by one that holds as much, its     *)
(* path heard later and its taints counted.                                *)
LEMMA AwaitedOn ==
  ASSUME plan \in Plans, NEW s, Timely(s), Awaited(s), NEW u, u.v = s.v,
         \A q \in Ports : /\ "lastArrival" \in DOMAIN u.ext[q]
                          /\ u.ext[q].lastArrival \in Int
                          /\ u.ext[q].lastArrival >= s.ext[q].lastArrival,
         \A q \in Paths : s.pt[q].buf \subseteq u.pt[q].buf
  PROVE  Timely(u) /\ Awaited(u)
<1>1. Timely(u)
  BY DEF Timely
<1>2. ASSUME NEW q \in Paths, HeldBy(s, q)
      PROVE  HeldBy(u, q)
  <2>1. q \in Ports /\ Span \in Nat /\ ClosedBy(s.v) \in Int
    BY RefPlansAssumption DEF Paths, Span, ClosedBy, Later, Stamped, Timely
  <2>2. s.ext[q].lastArrival \in Int /\ ClosedBy(s.v) - s.ext[q].lastArrival <= Span
    BY <1>2, <2>1 DEF HeldBy, Timely
  <2>3. ClosedBy(u.v) - u.ext[q].lastArrival <= Span
    BY <2>1, <2>2
  <2> QED
    BY <1>2, <2>3 DEF HeldBy
<1> QED
  BY <1>1, <1>2 DEF Awaited

(* classify of one item, new to its path.                                  *)
IsNew(t, item) == item.copy = 0 /\ item.seq \notin SeqsOf(t.accepted)

LEMMA ItemAwaited ==
  ASSUME SoleReader(plan), plan \in Plans, NEW pub, Catalogue(pub),
         NEW s, EraKnown(s, pub), Timely(s), Awaited(s), DOMAIN s.pt = Ports,
         NEW p \in Ports, NEW item,
         p # "mktdata" => Readable(p, item, pub) /\ IsNew(s.pt[p], item)
  PROVE  Timely(ClassifyItem(p, s, item)) /\ Awaited(ClassifyItem(p, s, item))
<1> DEFINE t    == s.pt[p]
           gap  == HasGap(t, FreshOf(t, {item}))
           seen == [s EXCEPT !.pt[p] = [Classify(t, {item}) EXCEPT !.buf = @ \ {item}],
                             !.ext[p] = Tainted(@, gap)]
           u    == ClassifyItem(p, s, item)
<1>1. /\ DOMAIN seen = {"pt", "ext", "v"} /\ seen.v = s.v
      /\ DOMAIN seen.ext = Ports
      /\ seen.ext[p] = Tainted(s.ext[p], gap)
      /\ \A q \in Ports : q # p => seen.ext[q] = s.ext[q]
      /\ DOMAIN seen.pt = Ports
      /\ \A q \in Ports : q # p => seen.pt[q] = s.pt[q]
  BY DEF EraKnown
<1>2. u = IF FreshOf(t, {item}) = {} THEN seen
          ELSE IF p = "mktdata" THEN OnMktdataFrame(seen, item)
          ELSE OnRefDataFrame(seen, p, item)
  BY DEF ClassifyItem
<1> HIDE DEF seen
<1>3. /\ "lastArrival" \in DOMAIN s.ext[p] /\ "refdataEra" \in DOMAIN s.ext[p]
      /\ s.ext[p].lastArrival \in Int
  BY DEF Timely, EraKnown
<1>4. /\ "lastArrival" \in DOMAIN seen.ext[p] /\ "refdataEra" \in DOMAIN seen.ext[p]
      /\ seen.ext[p].lastArrival = s.ext[p].lastArrival
      /\ seen.ext[p].refdataEra = s.ext[p].refdataEra
  <2> HIDE DEF gap
  <2> QED
    BY <1>1, <1>3 DEF Tainted
<1>5. \A q \in Ports : /\ "lastArrival" \in DOMAIN seen.ext[q]
                       /\ seen.ext[q].lastArrival \in Int
                       /\ seen.ext[q].lastArrival >= s.ext[q].lastArrival
  BY <1>1, <1>3, <1>4 DEF Timely
<1>6. EraKnown(seen, pub)
  <2>1. \A q \in Ports : /\ "refdataEra" \in DOMAIN seen.ext[q]
                         /\ seen.ext[q].refdataEra = s.ext[q].refdataEra
    BY <1>1, <1>4 DEF EraKnown
  <2> QED
    BY <1>1, <2>1, SameEraKnown
<1>7. Timely(seen)
  BY <1>1, <1>5 DEF Timely
<1>8. CASE p = "mktdata"
  <2>1. \A q \in Paths : q # p
    BY <1>8 DEF Paths
  <2>2. Timely(seen) /\ Awaited(seen)
    <3>1. \A q \in Paths : s.pt[q].buf \subseteq seen.pt[q].buf
      BY <1>1, <2>1 DEF Paths
    <3> QED
      BY <1>1, <1>5, <3>1, AwaitedOn
  <2> DEFINE z == OnMktdataFrame(seen, item)
  <2>3. z.pt = seen.pt /\ z.ext = seen.ext /\ SameTimes(seen.v, z.v)
        /\ z.v.valid = seen.v.valid /\ z.v.decided = seen.v.decided
    BY <1>1, <1>7 DEF OnMktdataFrame, SameTimes, Timely, Stamped, Fields
  <2> HIDE DEF z
  <2>4. Timely(z)
    BY <2>2, <2>3, StampedSame DEF Timely
  <2>5. ClosedBy(z.v) = ClosedBy(seen.v)
    BY <2>3 DEF ClosedBy, SameTimes
  <2>6. Owes(z.v) => Owes(seen.v)
    BY <2>3, <2>5 DEF Owes, SameTimes
  <2>7. \A q : HeldBy(seen, q) => HeldBy(z, q)
    BY <2>3, <2>5 DEF HeldBy, SameTimes
  <2>8. Awaited(z)
    BY <2>2, <2>6, <2>7 DEF Awaited
  <2> QED
    BY <1>2, <1>8, <2>2, <2>4, <2>8 DEF z
<1>9. CASE p # "mktdata"
  <2>1. item \in FreshOf(t, {item})
    BY <1>9 DEF FreshOf, IsNew
  <2>2. u = OnRefDataFrame(seen, p, item)
    BY <1>2, <1>9, <2>1
  <2> HIDE DEF u
  <2> QED
    BY <1>6, <1>7, <1>9, <2>2, FrameAwaited DEF u
<1> QED
  BY <1>8, <1>9

(* A tracker whose frames are apart from each other and from the accepted. *)
Orderly(t) ==
  /\ DOMAIN t = TrackerFields
  /\ \A i \in t.buf : i.seq \in Seqs /\ IsNew(t, i)
  /\ \A i, j \in t.buf : i.seq = j.seq => i = j

LEMMA PoppedOrderly ==
  ASSUME NEW t, Orderly(t), NEW item \in t.buf
  PROVE  LET u == Popped(t, item)
         IN  /\ Orderly(u) /\ u.buf = t.buf \ {item} /\ u.era = t.era /\ u.eraPos = t.eraPos
             /\ \A a \in u.accepted : a \in t.accepted \/ a.seq = item.seq
<1> DEFINE c == Classify(t, {item})
           u == Popped(t, item)
<1>1. /\ DOMAIN c = TrackerFields /\ c.buf = t.buf /\ c.era = t.era /\ c.eraPos = t.eraPos
      /\ c.accepted = t.accepted \cup {[seq |-> f.seq, body |-> f.body] : f \in FreshOf(t, {item})}
  BY DEF Classify, Orderly, TrackerFields
<1>2. \A a \in c.accepted : a \in t.accepted \/ a.seq = item.seq
  BY <1>1 DEF FreshOf
<1>3. u = [c EXCEPT !.buf = c.buf \ {item}]
  BY DEF Popped
<1> HIDE DEF c, u
<1>4. /\ DOMAIN u = TrackerFields /\ u.buf = t.buf \ {item} /\ u.era = t.era
      /\ u.eraPos = t.eraPos /\ u.accepted = c.accepted
  BY <1>1, <1>3 DEF TrackerFields
<1>5. Orderly(u)
  BY <1>2, <1>4 DEF Orderly, IsNew, SeqsOf
<1> QED
  BY <1>2, <1>4, <1>5 DEF u

LEMMA PlacesApart ==
  ASSUME NEW S, \A i \in S : i.seq \in Seqs /\ i.copy = 0,
         \A i, j \in S : i.seq = j.seq => i = j
  PROVE  /\ \A i \in S : Place(i) \in 0 .. LastPlace
         /\ \A i, j \in S : Place(i) = Place(j) => i = j
<1> DEFINE k == W + 1
<1>1. MaxSeq \in Nat /\ W \in Nat /\ \A i \in S : i.seq \in Nat /\ i.seq <= MaxSeq
  BY SeqAssumption, WindowAssumption DEF Seqs
<1>2. \A i \in S : Place(i) = i.seq * k /\ i.seq * k \in Nat
  <2>1. \A i \in S : i.seq * (W + 1) \in Nat
    BY <1>1, PlaceOrder
  <2> QED
    BY <2>1 DEF Place
<1>3. LastPlace = MaxSeq * k + W /\ MaxSeq * k \in Nat
  BY <1>1, PlaceOrder DEF LastPlace
<1>4. \A a, b \in Nat : a * k <= b * k => a <= b
  BY PlaceOrder
<1> HIDE DEF k
<1>5. ASSUME NEW i \in S
      PROVE  Place(i) \in 0 .. LastPlace
  <2>1. i.seq * k <= MaxSeq * k
    <3>1. CASE MaxSeq * k <= i.seq * k
      <4>1. MaxSeq = i.seq
        BY <1>1, <1>4, <3>1
      <4> QED
        BY <1>3, <4>1
    <3> QED
      BY <1>2, <1>3, <3>1
  <2> QED
    BY <1>1, <1>2, <1>3, <2>1
<1>6. ASSUME NEW i \in S, NEW j \in S, Place(i) = Place(j)
      PROVE  i = j
  <2>1. i.seq <= j.seq /\ j.seq <= i.seq
    BY <1>1, <1>2, <1>4, <1>6
  <2> QED
    BY <1>1, <2>1
<1> QED
  BY <1>5, <1>6

LEMMA WalkNothing ==
  ASSUME NEW p, NEW s
  PROVE  Walk(p, s, {}) = s
<1> DEFINE none == {}
<1>1. PICK f : IsWalk(f, LastPlace, p, s, none) /\ Walk(p, s, none) = f[LastPlace]
  BY WalkWalks
<1>2. \A n \in -1 .. LastPlace : f[n] = IF n = -1 THEN s ELSE WalkStep(p, f[n - 1], none, n)
  BY <1>1, LastPlaceNat DEF IsWalk
<1>3. \A n \in 0 .. LastPlace : f[n] = f[n - 1]
  BY <1>2, LastPlaceNat DEF WalkStep, At
<1> DEFINE Same == {n \in Nat : n \in 0 .. LastPlace => f[n] = s}
<1>4. f[-1] = s
  BY <1>2, LastPlaceNat
<1>5. 0 \in Same
  BY <1>3, <1>4
<1>6. \A n \in 1 .. LastPlace : n - 1 \in Same => n \in Same
  BY <1>3, LastPlaceNat
<1>7. LastPlace \in Same
  <2> HIDE DEF Same
  <2> QED
    BY <1>5, <1>6, LastPlaceNat, UpTo
<1> QED
  BY <1>1, <1>7, LastPlaceNat

(* The items of a drained buffer, one after the other: what the verdict    *)
(* waits for leaves the buffer only by being read.                         *)
LEMMA WalkAwaited ==
  ASSUME SoleReader(plan), plan \in Plans, NEW pub, Catalogue(pub),
         NEW s, EraKnown(s, pub), Timely(s), Awaited(s), DOMAIN s.pt = Ports,
         NEW p \in Ports, Orderly(s.pt[p]),
         p # "mktdata" => \A item \in s.pt[p].buf : Readable(p, item, pub)
  PROVE  LET w == Walk(p, s, s.pt[p].buf)
         IN  /\ Timely(w) /\ Awaited(w) /\ w.pt[p].buf = {}
<1> DEFINE S == s.pt[p].buf
<1>1. PICK f : IsWalk(f, LastPlace, p, s, S) /\ Walk(p, s, S) = f[LastPlace]
  BY WalkWalks
<1>2. \A n \in -1 .. LastPlace : f[n] = IF n = -1 THEN s ELSE WalkStep(p, f[n - 1], S, n)
  BY <1>1, LastPlaceNat DEF IsWalk
<1>3. /\ \A i \in S : Place(i) \in 0 .. LastPlace
      /\ \A i, j \in S : Place(i) = Place(j) => i = j
  <2>1. /\ \A i \in S : i.seq \in Seqs /\ i.copy = 0
        /\ \A i, j \in S : i.seq = j.seq => i = j
    BY DEF Orderly, IsNew
  <2> HIDE DEF S
  <2> QED
    BY <2>1, PlacesApart
<1>4. p # "mktdata" => \A item \in S : Readable(p, item, pub)
  OBVIOUS
<1> DEFINE Good(u, n) == /\ EraKnown(u, pub) /\ Timely(u) /\ Awaited(u) /\ DOMAIN u.pt = Ports
                         /\ Orderly(u.pt[p])
                         /\ u.pt[p].buf = {i \in S : Place(i) > n}
<1>5. Good(f[-1], -1)
  <2>1. S = {i \in S : Place(i) > -1}
    BY <1>3
  <2>2. f[-1] = s
    BY <1>2, LastPlaceNat
  <2> QED
    BY <2>1, <2>2
<1> HIDE DEF S
<1>6. ASSUME NEW n \in 0 .. LastPlace, NEW u, u = f[n - 1], Good(u, n - 1)
      PROVE  Good(f[n], n)
  <2>1. f[n] = WalkStep(p, u, S, n)
    BY <1>2, <1>6, LastPlaceNat
  <2>2. \A i \in S : Place(i) > n - 1 <=> Place(i) > n \/ Place(i) = n
    BY <1>3
  <2>3. CASE At(S, n) = {}
    <3>1. f[n] = u
      BY <2>1, <2>3 DEF WalkStep
    <3>2. {i \in S : Place(i) > n - 1} = {i \in S : Place(i) > n}
      BY <2>2, <2>3 DEF At
    <3> QED
      BY <1>6, <3>1, <3>2
  <2>4. CASE At(S, n) # {}
    <3>1. PICK item : item = CHOOSE i \in At(S, n) : TRUE
      OBVIOUS
    <3>2. item \in S /\ Place(item) = n
      BY <2>4, <3>1 DEF At
    <3>3. f[n] = ClassifyItem(p, u, item)
      BY <2>1, <2>4, <3>1 DEF WalkStep
    <3>4. item \in u.pt[p].buf
      BY <1>6, <2>2, <3>2
    <3>5. /\ EraKnown(u, pub) /\ Timely(u) /\ Awaited(u) /\ DOMAIN u.pt = Ports
          /\ Orderly(u.pt[p]) /\ u.pt[p].buf = {i \in S : Place(i) > n - 1}
      BY <1>6
    <3>6. p # "mktdata" => Readable(p, item, pub) /\ IsNew(u.pt[p], item)
      BY <1>4, <3>2, <3>4, <3>5 DEF Orderly
    <3> DEFINE w == ClassifyItem(p, u, item)
    <3>7. Timely(w) /\ Awaited(w)
      BY <3>5, <3>6, ItemAwaited
    <3>8. EraKnown(w, pub) /\ OnlyPort(u, w, p) /\ w.pt[p] = Popped(u.pt[p], item)
      BY <3>5, <3>6, ItemKeeps
    <3> HIDE DEF w
    <3>9. Orderly(w.pt[p]) /\ w.pt[p].buf = u.pt[p].buf \ {item}
      BY <3>4, <3>5, <3>8, PoppedOrderly
    <3>10. \A i \in S : i = item <=> Place(i) = n
      BY <1>3, <3>2
    <3>11. u.pt[p].buf \ {item} = {i \in S : Place(i) > n}
      <4>1. \A i \in S : Place(i) > n - 1 /\ i # item <=> Place(i) > n
        <5>1. \A i \in S : Place(i) > n => Place(i) # n
          BY <1>3
        <5> QED
          BY <2>2, <3>10, <5>1
      <4> QED
        BY <3>5, <4>1
    <3>12. DOMAIN w.pt = Ports
      BY <3>5, <3>8 DEF OnlyPort
    <3> QED
      BY <3>3, <3>7, <3>8, <3>9, <3>11, <3>12 DEF w
  <2> QED
    BY <2>3, <2>4
<1> HIDE DEF Good
<1> DEFINE Bad == {n \in 0 .. LastPlace : ~Good(f[n], n)}
<1>7. Bad = {}
  <2> SUFFICES ASSUME Bad # {} PROVE FALSE
    OBVIOUS
  <2>1. PICK n \in Bad : \A k \in Bad : n <= k
    <3>1. Bad \in SUBSET Nat
      OBVIOUS
    <3> HIDE DEF Bad
    <3> QED
      BY <3>1, LeastOf
  <2>2. Good(f[n - 1], n - 1)
    <3>1. CASE n = 0
      BY <1>5, <3>1
    <3>2. CASE n # 0
      <4>1. n - 1 \in 0 .. LastPlace /\ n - 1 \notin Bad
        BY <2>1, <3>2, LastPlaceNat
      <4> QED
        BY <4>1
    <3> QED
      BY <3>1, <3>2
  <2> QED
    BY <1>6, <2>1, <2>2
<1>8. Good(f[LastPlace], LastPlace)
  BY <1>7, LastPlaceNat
<1>9. {i \in S : Place(i) > LastPlace} = {}
  BY <1>3, LastPlaceNat
<1> QED
  BY <1>1, <1>8, <1>9 DEF Good, S

-----------------------------------------------------------------------------
(* No frame is heard twice, so each one buffered is new when it is read.   *)
Heard(q, t) ==
  /\ Orderly(t)
  /\ t.eraPos = 0 => t.accepted = {}
  /\ \A a \in t.accepted :
       /\ Numbered(q, [rc |-> t.era, seq |-> a.seq])
       /\ \A n \in DOMAIN net : net[n].port = q /\ net[n].rc = t.era => net[n].seq # a.seq

HeardInv ==
  /\ \A q \in Ports : Heard(q, pt[q])
  /\ \A n \in DOMAIN net : net[n].seq \in Seqs

DeadlineInv == (running => HeardInv /\ Timely(Engine)) /\ Awaited(Engine)

(* The accepted frames of the tracker a frame is pushed into, and that it  *)
(* holds all it held unless the era is left.                               *)
LEMMA OpenedKeeps ==
  ASSUME NEW p, DOMAIN pt[p] = TrackerFields, pt[p].eraPos = 0 => pt[p].accepted = {}, NEW d
  PROVE  LET o == Opened(p, d)
         IN  /\ DOMAIN o = TrackerFields
             /\ Advances(p, d) => o.buf = {}
             /\ ~Advances(p, d) => o.buf = pt[p].buf
             /\ o.accepted = {} \/ (o.accepted = pt[p].accepted /\ d.rc = pt[p].era)
                \/ Quarantines(p, d)
<1> DEFINE t == pt[p]
           o == Opened(p, d)
<1>1. DOMAIN t = TrackerFields /\ (t.eraPos = 0 => t.accepted = {})
  OBVIOUS
<1>2. CASE Seeds(p, d)
  <2>1. ~Advances(p, d) /\ o = Seeded(t, d.rc) /\ t.eraPos = 0
    BY <1>2 DEF Seeds, Advances, Opened
  <2> HIDE DEF t, o
  <2>2. DOMAIN o = TrackerFields /\ o.buf = t.buf /\ o.accepted = t.accepted
    BY <1>1, <2>1 DEF Seeded, TrackerFields
  <2> QED
    BY <1>1, <2>1, <2>2 DEF t, o
<1>3. CASE Advances(p, d)
  <2> DEFINE u == Drained(t)
             a == AdvanceEra(u, d.rc)
  <2>1. o = [a EXCEPT !.dirty = Late(t, d)]
    BY <1>3 DEF Opened, Advances, Seeds
  <2>2. DOMAIN u = TrackerFields /\ u.buf = {}
    <3> HIDE DEF t
    <3> QED
      BY <1>1 DEF Drained, Classify, TrackerFields
  <2> HIDE DEF t, u
  <2>3. DOMAIN a = TrackerFields /\ a.buf = {} /\ a.accepted = {}
    BY <2>2 DEF AdvanceEra, TrackerFields
  <2> HIDE DEF a, o
  <2>4. DOMAIN o = TrackerFields /\ o.buf = {} /\ o.accepted = {}
    BY <2>1, <2>3 DEF TrackerFields
  <2> QED
    BY <1>3, <2>4 DEF o
<1>4. CASE ~Seeds(p, d) /\ ~Advances(p, d)
  <2>1. o = [t EXCEPT !.stragglers = 0]
    BY <1>4 DEF Opened
  <2>2. Quarantines(p, d) \/ d.rc = t.era
    BY <1>4 DEF Seeds, Advances, OtherEra
  <2> HIDE DEF t, o
  <2>3. DOMAIN o = TrackerFields /\ o.buf = t.buf /\ o.accepted = t.accepted
    BY <1>1, <2>1 DEF TrackerFields
  <2> QED
    BY <1>4, <2>2, <2>3 DEF t, o
<1> QED
  BY <1>2, <1>3, <1>4

(* The path of a frame is noted to send. *)
LEMMA ArrivedAwaited ==
  ASSUME plan \in Plans, NEW pub, EraKnown(Engine, pub), Timely(Engine), Awaited(Engine),
         NEW p \in Ports, NEW d, p # "mktdata" => SentAt(d) \in Int
  PROVE  LET s == [pt |-> pt, ext |-> Arrived(p, d), v |-> v] IN Timely(s) /\ Awaited(s)
<1> DEFINE at == IF p = "mktdata" THEN NoTS ELSE SentAt(d)
           s  == [pt |-> pt, ext |-> Arrived(p, d), v |-> v]
<1>1. /\ Engine.ext = ext /\ Engine.v = v /\ Engine.pt = pt
      /\ s.ext = Arrived(p, d) /\ s.v = v /\ s.pt = pt
  BY DEF Engine
<1>2. DOMAIN ext = Ports
  BY <1>1 DEF EraKnown
<1> HIDE DEF s
<1>3. \A q \in Ports : /\ "lastArrival" \in DOMAIN s.ext[q]
                       /\ s.ext[q].lastArrival \in Int
                       /\ s.ext[q].lastArrival >= Engine.ext[q].lastArrival
  <2>1. s.ext = [ext EXCEPT ![p].lastArrival = Later(@, at)]
    BY <1>1 DEF Arrived
  <2>2. at \in Int
    BY DEF NoTS
  <2> HIDE DEF at
  <2>3. /\ s.ext[p] = [ext[p] EXCEPT !.lastArrival = Later(@, at)]
        /\ \A q \in Ports : q # p => s.ext[q] = ext[q]
    BY <1>2, <2>1
  <2>4. \A q \in Ports : "lastArrival" \in DOMAIN ext[q] /\ ext[q].lastArrival \in Int
    BY <1>1 DEF Timely
  <2>5. /\ "lastArrival" \in DOMAIN s.ext[p]
        /\ s.ext[p].lastArrival = Later(ext[p].lastArrival, at)
    BY <2>3, <2>4
  <2>6. s.ext[p].lastArrival \in Int /\ s.ext[p].lastArrival >= ext[p].lastArrival
    BY <2>2, <2>4, <2>5 DEF Later
  <2> QED
    BY <1>1, <2>3, <2>4, <2>5, <2>6
<1>4. \A q \in Paths : Engine.pt[q].buf \subseteq s.pt[q].buf
  BY <1>1
<1>5. PICK e : e = Engine
  OBVIOUS
<1>6. Timely(s) /\ Awaited(s)
  BY <1>1, <1>3, <1>4, <1>5, AwaitedOn
<1> QED
  BY <1>6 DEF s

(* Engine.Process of a frame under way: the verdict still waits for what   *)
(* is buffered, and the tracker stays in order.                            *)
LEMMA ProcessedAwaited ==
  ASSUME RefInv, running, HeardInv, Timely(Engine), Awaited(Engine),
         SoleReader(plan), FewChanges(plan),
         NEW p \in Ports, NEW d, FrameFrom(p, d), d.rc \in ResetCounts, d.seq \in Seqs,
         \A i \in pt[p].buf : i.rc = d.rc => i.seq # d.seq,
         \A a \in pt[p].accepted : pt[p].era = d.rc => a.seq # d.seq,
         ~Quarantines(p, d)
  PROVE  LET s == Processed(p, d)
         IN  /\ Timely(s) /\ Awaited(s)
             /\ Orderly(s.pt[p])
             /\ \A a \in s.pt[p].accepted :
                  \/ pt[p].era = d.rc /\ \E b \in pt[p].accepted \cup pt[p].buf : a.seq = b.seq
                  \/ a.seq = d.seq
<1> DEFINE o       == Opened(p, d)
           item    == [rc |-> d.rc, seq |-> d.seq, body |-> d.body, copy |-> 0]
           drained == IF Advances(p, d) THEN pt[p].buf ELSE {}
           start   == [pt |-> pt, ext |-> Arrived(p, d), v |-> v]
           old     == Walk(p, start, drained)
           pushed  == Push(o, d)
           late    == Advances(p, d) /\ Late(pt[p], d)
           new     == [old EXCEPT !.pt[p] = pushed, !.ext[p] = Tainted(@, late)]
           s       == Processed(p, d)
<1>1. /\ PubInv /\ FlowInv /\ EraKnown(Engine, published) /\ Catalogue(published)
      /\ plan \in Plans /\ DOMAIN pt = Ports
  BY PublishedIsCatalogue DEF RefInv, FlowInv, IntakeInv, PubInv
<1>2. /\ DOMAIN o = TrackerFields /\ o.era = d.rc /\ o.eraPos \in Nat /\ o.eraPos # 0
      /\ o.buf \subseteq pt[p].buf /\ \A i \in o.buf : i.rc = d.rc
  BY <1>1, OpenedOf DEF FlowInv, IntakeInv, BufferInv
<1>3. /\ Advances(p, d) => o.buf = {}
      /\ ~Advances(p, d) => o.buf = pt[p].buf
      /\ o.accepted = {} \/ (o.accepted = pt[p].accepted /\ d.rc = pt[p].era)
  BY OpenedKeeps DEF HeardInv, Heard, Orderly
<1>4. Orderly(pt[p]) /\ (p # "mktdata" => \A i \in pt[p].buf : Readable(p, i, published))
  BY <1>1 DEF HeardInv, Heard, FlowInv, BufferInv, FrameFrom
<1>5. /\ EraKnown(start, published) /\ Timely(start) /\ Awaited(start)
      /\ start.pt = pt
  <2>1. EraKnown(start, published)
    BY <1>1, ArrivedKnown
  <2>2. p # "mktdata" => SentAt(d) \in Int
    BY DEF FrameFrom, Readable
  <2> HIDE DEF Engine
  <2>3. Timely(start) /\ Awaited(start)
    BY <1>1, <2>2, ArrivedAwaited
  <2> QED
    BY <2>1, <2>3
<1>6. /\ EraKnown(old, published) /\ OnlyPort(start, old, p) /\ Timely(old) /\ Awaited(old)
      /\ Advances(p, d) => old.pt[p].buf = {}
  <2>1. p # "mktdata" => \A i \in drained : Readable(p, i, published)
    BY <1>4
  <2>2. EraKnown(old, published) /\ OnlyPort(start, old, p)
    <3> HIDE DEF start, drained
    <3> QED
      BY <1>1, <1>5, <2>1, WalkKeeps
  <2>3. CASE Advances(p, d)
    <3>1. drained = start.pt[p].buf
      BY <2>3
    <3> HIDE DEF start, drained
    <3>2. old = Walk(p, start, start.pt[p].buf)
      BY <3>1
    <3> HIDE DEF old
    <3>3. Timely(old) /\ Awaited(old) /\ old.pt[p].buf = {}
      BY <1>1, <1>4, <1>5, <3>2, WalkAwaited
    <3> QED
      BY <2>2, <3>3
  <2>4. CASE ~Advances(p, d)
    <3>1. drained = {}
      BY <2>4
    <3> HIDE DEF start, drained
    <3>2. old = start
      BY <3>1, WalkNothing
    <3> HIDE DEF old
    <3> QED
      BY <1>5, <2>2, <2>4, <3>2
  <2> QED
    BY <2>3, <2>4
<1>7. DOMAIN old.pt = Ports /\ \A q \in Ports : q # p => old.pt[q] = pt[q]
  BY <1>1, <1>5, <1>6 DEF OnlyPort
<1>8. old.pt[p].buf \subseteq o.buf
  <2>1. "buf" \in DOMAIN pt[p]
    BY <1>4 DEF Orderly, TrackerFields
  <2>2. old.pt[p].buf \subseteq pt[p].buf
    <3> HIDE DEF old, start
    <3> QED
      BY <1>1, <1>5, <1>6, <2>1 DEF OnlyPort
  <2> HIDE DEF old, o
  <2> QED
    BY <1>3, <1>6, <2>2
<1> HIDE DEF old, start
<1>9. pushed = [o EXCEPT !.buf = o.buf \cup {item}]
  <2>1. \A i \in o.buf : i.seq # d.seq
    BY <1>2
  <2>2. "buf" \in DOMAIN o
    BY <1>2 DEF TrackerFields
  <2> HIDE DEF o
  <2> QED
    BY <2>1, <2>2, PushedNew
<1>10. item.rc = d.rc /\ item.seq = d.seq /\ item.body = d.body /\ item.copy = 0
  OBVIOUS
<1> HIDE DEF o, item
<1>11. /\ DOMAIN pushed = TrackerFields /\ pushed.buf = o.buf \cup {item}
       /\ pushed.accepted = o.accepted
  <2> HIDE DEF pushed
  <2> QED
    BY <1>2, <1>9 DEF TrackerFields
<1> HIDE DEF pushed, late
<1>12. Orderly(pushed)
  <2>1. \A i \in o.buf : i \in pt[p].buf /\ i.rc = d.rc
    BY <1>2
  <2>2. \A i \in o.buf : i.seq \in Seqs /\ i.copy = 0 /\ i.seq # d.seq
                         /\ i.seq \notin SeqsOf(pt[p].accepted)
    BY <1>4, <2>1 DEF Orderly, IsNew
  <2>3. d.seq \notin SeqsOf(o.accepted)
    BY <1>3 DEF SeqsOf
  <2>4. \A i \in o.buf : i.seq \notin SeqsOf(o.accepted)
    BY <1>3, <2>2 DEF SeqsOf
  <2>5. \A i \in pushed.buf : i.seq \in Seqs /\ IsNew(pushed, i)
    BY <1>10, <1>11, <2>2, <2>3, <2>4 DEF IsNew
  <2>6. \A i, j \in pushed.buf : i.seq = j.seq => i = j
    BY <1>4, <1>10, <1>11, <2>1, <2>2 DEF Orderly
  <2> QED
    BY <1>11, <2>5, <2>6 DEF Orderly
<1>13. p # "mktdata" => \A i \in pushed.buf : Readable(p, i, published)
  <2>1. p # "mktdata" => Readable(p, d, published)
    BY DEF FrameFrom
  <2>2. p # "mktdata" => Readable(p, item, published)
    BY <1>10, <2>1, ReadableGrows
  <2> QED
    BY <1>2, <1>4, <1>11, <2>2
<1>14. /\ EraKnown(new, published) /\ Timely(new) /\ Awaited(new)
       /\ DOMAIN new.pt = Ports /\ new.pt[p] = pushed
  <2>1. /\ DOMAIN old = {"pt", "ext", "v"} /\ DOMAIN old.ext = Ports
        /\ \A q \in Ports : "refdataEra" \in DOMAIN old.ext[q]
    BY <1>6 DEF EraKnown
  <2>2. /\ DOMAIN new = {"pt", "ext", "v"} /\ new.v = old.v
        /\ DOMAIN new.pt = Ports /\ new.pt[p] = pushed
        /\ \A q \in Ports : q # p => new.pt[q] = old.pt[q]
        /\ DOMAIN new.ext = Ports /\ new.ext[p] = Tainted(old.ext[p], late)
        /\ \A q \in Ports : q # p => new.ext[q] = old.ext[q]
    BY <1>7, <2>1
  <2>3. \A q \in Ports : "lastArrival" \in DOMAIN old.ext[q] /\ old.ext[q].lastArrival \in Int
    BY <1>6 DEF Timely
  <2>4. LET e == Tainted(old.ext[p], late)
        IN  /\ "refdataEra" \in DOMAIN e /\ e.refdataEra = old.ext[p].refdataEra
            /\ "lastArrival" \in DOMAIN e /\ e.lastArrival = old.ext[p].lastArrival
    BY <2>1, <2>3 DEF Tainted
  <2> HIDE DEF new
  <2>5. EraKnown(new, published)
    <3>1. \A q \in Ports : /\ "refdataEra" \in DOMAIN new.ext[q]
                           /\ new.ext[q].refdataEra = old.ext[q].refdataEra
      BY <2>1, <2>2, <2>4
    <3> QED
      BY <1>6, <2>2, <3>1, SameEraKnown
  <2>6. \A q \in Ports : /\ "lastArrival" \in DOMAIN new.ext[q]
                         /\ new.ext[q].lastArrival \in Int
                         /\ new.ext[q].lastArrival >= old.ext[q].lastArrival
    <3>1. \A q \in Ports : /\ "lastArrival" \in DOMAIN new.ext[q]
                           /\ new.ext[q].lastArrival = old.ext[q].lastArrival
      BY <2>2, <2>3, <2>4
    <3> QED
      BY <2>3, <3>1
  <2>7. \A q \in Paths : old.pt[q].buf \subseteq new.pt[q].buf
    BY <1>8, <1>11, <2>2 DEF Paths
  <2> QED
    BY <1>1, <1>6, <2>2, <2>5, <2>6, <2>7, AwaitedOn
<1>15. s = IF Overflows(pushed) THEN ClassifyItem(p, new, HeadOf(pushed)) ELSE new
  BY DEF Processed, pushed, new, old, start, late, o
<1> HIDE DEF new, s
<1>16. \A a \in pushed.accepted : pt[p].era = d.rc /\ a \in pt[p].accepted
  BY <1>3, <1>11
<1>17. CASE ~Overflows(pushed)
  BY <1>12, <1>14, <1>15, <1>16, <1>17 DEF s
<1>18. CASE Overflows(pushed)
  <2>1. PICK h : h = HeadOf(pushed)
    OBVIOUS
  <2>2. h \in pushed.buf
    <3>1. pushed.buf # {} /\ \A i \in pushed.buf : i.seq \in Nat /\ i.copy = 0
      BY <1>11, <1>12, SeqAssumption DEF Orderly, IsNew, Seqs
    <3> QED
      BY <2>1, <3>1, HeadIn
  <2>3. p # "mktdata" => Readable(p, h, published) /\ IsNew(new.pt[p], h)
    BY <1>12, <1>13, <1>14, <2>2 DEF Orderly
  <2>4. s = ClassifyItem(p, new, h)
    BY <1>15, <1>18, <2>1
  <2>5. Timely(s) /\ Awaited(s)
    BY <1>1, <1>14, <2>3, <2>4, ItemAwaited
  <2>6. s.pt[p] = Popped(pushed, h)
    BY <1>1, <1>14, <2>3, <2>4, ItemKeeps
  <2>7. /\ Orderly(s.pt[p])
        /\ \A a \in s.pt[p].accepted : a \in pushed.accepted \/ a.seq = h.seq
    BY <1>12, <2>2, <2>6, PoppedOrderly
  <2>8. h.seq = d.seq \/ (h \in pt[p].buf /\ pt[p].era = d.rc)
    <3>1. h = item \/ h \in o.buf
      BY <1>11, <2>2
    <3>2. \A i \in pt[p].buf : i.rc = pt[p].era
      BY <1>1 DEF FlowInv, BufferInv
    <3> QED
      BY <1>2, <1>10, <3>1, <3>2
  <2> QED
    BY <1>16, <2>5, <2>7, <2>8 DEF s
<1> QED
  BY <1>17, <1>18

(* A numbered frame stays one while the publisher goes on. *)
LEMMA NumberedStays ==
  ASSUME feedEra \in Nat, NEW q \in Ports, sent[q] \in Nat,
         \/ feedEra' = feedEra /\ sent'[q] \in Nat /\ sent[q] <= sent'[q]
         \/ feedEra' = feedEra + 1,
         NEW x, Numbered(q, x)
  PROVE  Numbered(q, x)'
<1>1. x.seq \in Nat
  BY DEF Numbered
<1>2. PICK e \in 0 .. feedEra : x.rc = ResetCountOf(e) /\ (e = feedEra => x.seq < sent[q])
  BY DEF Numbered
<1>3. CASE feedEra' = feedEra /\ sent'[q] \in Nat /\ sent[q] <= sent'[q]
  BY <1>1, <1>2, <1>3 DEF Numbered
<1>4. CASE feedEra' = feedEra + 1
  <2>1. e \in 0 .. feedEra' /\ e # feedEra'
    BY <1>2, <1>4
  <2> QED
    BY <1>1, <1>2, <2>1 DEF Numbered
<1> QED
  BY <1>3, <1>4

(* The engine after a step is s. *)
LEMMA NewAwaited ==
  ASSUME UNCHANGED plan, NEW s, Timely(s), Awaited(s), pt' = s.pt, ext' = s.ext, v' = s.v
  PROVE  Timely(Engine)' /\ Awaited(Engine)'
<1>1. /\ (Engine')["pt"] = s.pt /\ (Engine')["ext"] = s.ext /\ (Engine')["v"] = s.v
  BY DEF Engine
<1>2. Span' = Span
  BY DEF Span
<1>3. \A q : HeldBy(s, q) => HeldBy(Engine, q)'
  BY <1>1, <1>2 DEF HeldBy
<1>4. Owes((Engine).v)' => Owes(s.v)
  BY <1>1, <1>2 DEF Owes
<1> QED
  BY <1>1, <1>3, <1>4 DEF Timely, Awaited

LEMMA EngineAwaited ==
  ASSUME UNCHANGED <<plan, pt, ext, v>>
  PROVE  /\ Timely(Engine) => Timely(Engine)'
         /\ Awaited(Engine) => Awaited(Engine)'
<1>1. Engine' = Engine /\ Span' = Span
  BY DEF Engine, Span
<1> QED
  BY <1>1 DEF Timely, Awaited, Owes, HeldBy

(* The publisher goes on: a new frame is numbered past all that were.      *)
LEMMA PublisherAwaited ==
  ASSUME RefInv, DeadlineInv, FewChanges(plan), PublisherOnly,
         \/ \E p \in Ports : \E msgs : Put(p, msgs)
         \/ UNCHANGED <<net, sent, feedEra>>
         \/ NextEra
  PROVE  DeadlineInv'
<1>1. /\ running /\ running' /\ HeardInv /\ Timely(Engine) /\ Awaited(Engine)
      /\ UNCHANGED <<plan, pt, ext, v>>
  BY DEF PublisherOnly, DeadlineInv, vars, recVars
<1>2. /\ PubInv /\ FlowInv /\ feedEra \in Nat /\ feedEra \in 0 .. plan.resets
      /\ plan.resets \in Nat /\ sent \in [Ports -> Nat]
  BY <1>1, PlansAssumption DEF RefInv, PubInv, FlowInv, NetInv
<1>3. Timely(Engine)' /\ Awaited(Engine)'
  BY <1>1, EngineAwaited
<1>4. ASSUME \A q \in Ports : \A x : Numbered(q, x) => Numbered(q, x)', net' = net
      PROVE  HeardInv'
  BY <1>1, <1>4 DEF HeardInv, Heard, Orderly, IsNew, SeqsOf
<1>5. CASE UNCHANGED <<net, sent, feedEra>>
  <2>1. \A q \in Ports : \A x : Numbered(q, x) => Numbered(q, x)'
    BY <1>2, <1>5, NumberedStays
  <2> QED
    BY <1>1, <1>3, <1>4, <1>5, <2>1 DEF DeadlineInv
<1>6. CASE NextEra
  <2>1. \A q \in Ports : \A x : Numbered(q, x) => Numbered(q, x)'
    BY <1>2, <1>6, NumberedStays DEF NextEra
  <2> QED
    BY <1>1, <1>3, <1>4, <1>6, <2>1 DEF DeadlineInv, NextEra
<1>7. ASSUME NEW p \in Ports, NEW msgs, Put(p, msgs)
      PROVE  HeardInv'
  <2>1. PICK f : /\ net' = Append(net, f) /\ f.port = p /\ f.rc = ResetCountOf(feedEra)
                 /\ f.seq = sent[p]
    BY <1>7 DEF Put
  <2>2. /\ sent' = [sent EXCEPT ![p] = @ + 1] /\ feedEra' = feedEra /\ sent[p] <= MaxSeq
    BY <1>7 DEF Put
  <2>3. \A q \in Ports : sent'[q] \in Nat /\ sent[q] <= sent'[q]
    BY <1>2, <2>2
  <2>4. \A q \in Ports : \A x : Numbered(q, x) => Numbered(q, x)'
    BY <1>2, <2>2, <2>3, NumberedStays
  <2>5. /\ Len(net) \in Nat /\ DOMAIN net = 1 .. Len(net)
        /\ DOMAIN net' = 1 .. Len(net) + 1 /\ net'[Len(net) + 1] = f
        /\ \A n \in DOMAIN net : net'[n] = net[n]
    <3> DEFINE S == {net[n] : n \in DOMAIN net} \cup {f}
    <3>1. net \in Seq({net[n] : n \in DOMAIN net})
      BY <1>2 DEF FlowInv, NetInv
    <3>2. Len(net) \in Nat /\ DOMAIN net = 1 .. Len(net)
      BY <3>1, LenProperties
    <3>3. net \in Seq(S) /\ f \in S
      BY <3>1, <3>2, SeqDef
    <3> HIDE DEF S
    <3>4. /\ net' \in Seq(S) /\ Len(net') = Len(net) + 1 /\ net'[Len(net) + 1] = f
          /\ \A n \in 1 .. Len(net) : net'[n] = net[n]
      BY <2>1, <3>3, AppendProperties
    <3>5. DOMAIN net' = 1 .. Len(net) + 1
      BY <3>4, LenProperties
    <3> QED
      BY <3>2, <3>4, <3>5
  <2>6. \A n \in DOMAIN net' : net'[n] = f \/ \E k \in DOMAIN net : net'[n] = net[k]
    BY <2>5
  <2>7. f.seq \in Seqs
    BY <1>2, <2>1, <2>2, SeqAssumption DEF Seqs
  <2>8. ASSUME NEW a, Numbered(p, [rc |-> ResetCountOf(feedEra), seq |-> a])
        PROVE  a # f.seq
    <3>1. PICK e \in 0 .. feedEra : /\ ResetCountOf(feedEra) = ResetCountOf(e)
                                    /\ e = feedEra => a < sent[p]
      BY <2>8 DEF Numbered
    <3>2. e = feedEra
      BY <1>2, <3>1 DEF FewChanges
    <3>3. a \in Nat
      BY <2>8 DEF Numbered
    <3> QED
      BY <1>2, <2>1, <3>1, <3>2, <3>3
  <2>9. ASSUME NEW q \in Ports
        PROVE  Heard(q, pt[q])'
    <3>1. Heard(q, pt[q]) /\ pt' = pt
      BY <1>1 DEF HeardInv
    <3>2. ASSUME NEW a \in pt[q].accepted
          PROVE  /\ Numbered(q, [rc |-> pt[q].era, seq |-> a.seq])'
                 /\ \A n \in DOMAIN net' : net'[n].port = q /\ net'[n].rc = pt[q].era
                                              => net'[n].seq # a.seq
      <4>1. Numbered(q, [rc |-> pt[q].era, seq |-> a.seq])
        BY <3>1 DEF Heard
      <4>2. Numbered(q, [rc |-> pt[q].era, seq |-> a.seq])'
        <5>1. PICK x : x = [rc |-> pt[q].era, seq |-> a.seq]
          OBVIOUS
        <5> QED
          BY <2>4, <3>1, <4>1, <5>1 DEF Numbered
      <4>3. ASSUME NEW n \in DOMAIN net', net'[n].port = q, net'[n].rc = pt[q].era
            PROVE  net'[n].seq # a.seq
        <5>1. CASE net'[n] = f
          BY <2>1, <2>8, <4>1, <4>3, <5>1
        <5>2. CASE \E k \in DOMAIN net : net'[n] = net[k]
          BY <3>1, <4>3, <5>2 DEF Heard
        <5> QED
          BY <2>6, <5>1, <5>2
      <4> QED
        BY <4>2, <4>3
    <3> QED
      BY <3>1, <3>2 DEF Heard, Orderly, IsNew, SeqsOf
  <2> QED
    BY <1>1, <2>6, <2>7, <2>9 DEF HeardInv
<1> QED
  BY <1>1, <1>3, <1>5, <1>6, <1>7 DEF DeadlineInv

(* The network loses a frame. *)
LEMMA LoseAwaited ==
  ASSUME RefInv, DeadlineInv, NEW n \in DOMAIN net, Lose(n)
  PROVE  DeadlineInv'
<1>1. /\ running /\ net' = RemoveAt(net, n)
      /\ UNCHANGED <<plan, feedEra, sent, published, pt, ext, v>>
  BY DEF Lose, Dropping, vars, pubVars, recVars
<1>2. FlowInv /\ HeardInv /\ Timely(Engine) /\ Awaited(Engine)
  BY <1>1 DEF RefInv, DeadlineInv
<1>3. \A m \in DOMAIN net' : \E j \in DOMAIN net : j # n /\ net'[m] = net[j]
  BY <1>1, <1>2, NetShrinks DEF FlowInv
<1>4. \A q, x : Numbered(q, x) => Numbered(q, x)'
  BY <1>1 DEF Numbered
<1>5. HeardInv'
  BY <1>1, <1>2, <1>3, <1>4 DEF HeardInv, Heard, Orderly, IsNew, SeqsOf
<1> QED
  BY <1>1, <1>2, <1>5, EngineAwaited DEF DeadlineInv

(* Deliver. *)
LEMMA DeliverAwaited ==
  ASSUME RefInv, DeadlineInv, SoleReader(plan), FewChanges(plan),
         NEW n \in DOMAIN net, Deliver(n), NEW p, p = net[n].port,
         NEW d, d = [rc |-> net[n].rc, seq |-> net[n].seq, body |-> net[n].body]
  PROVE  DeadlineInv'
<1>1. /\ running /\ net' = RemoveAt(net, n)
      /\ Receives(p, d) \/ Drops(p, d)
      /\ UNCHANGED <<plan, feedEra, sent, published, running>>
  BY DEF Deliver, pubVars
<1>2. /\ PubInv /\ FlowInv /\ EraKnown(Engine, published) /\ plan \in Plans
      /\ HeardInv /\ Timely(Engine) /\ Awaited(Engine)
      /\ DOMAIN pt = Ports /\ \A q \in Ports : DOMAIN pt[q] = TrackerFields
  BY <1>1 DEF RefInv, PubInv, DeadlineInv, FlowInv, IntakeInv
<1>3. \A m \in DOMAIN net' : \E j \in DOMAIN net : j # n /\ net'[m] = net[j]
  BY <1>1, <1>2, NetShrinks DEF FlowInv
<1>4. d.rc = net[n].rc /\ d.seq = net[n].seq /\ d.body = net[n].body
  OBVIOUS
<1>5. p \in Ports /\ FrameFrom(p, d)
  <2>1. p \in Ports /\ FrameFrom(p, net[n])
    BY <1>2 DEF FlowInv, NetInv
  <2>2. Readable(p, net[n], published) => Readable(p, d, published)
    BY <1>4, ReadableGrows
  <2> QED
    BY <1>4, <2>1, <2>2 DEF FrameFrom, Numbered
<1>6. d.rc \in ResetCounts /\ d.seq \in Seqs
  <2>1. \E e \in 0 .. feedEra : d.rc = ResetCountOf(e)
    BY <1>5 DEF FrameFrom, Numbered
  <2>2. plan \in Plans /\ feedEra \in 0 .. plan.resets /\ plan.resets \in Nat
    BY <1>2, PlansAssumption DEF PubInv
  <2> QED
    BY <1>2, <1>4, <2>1, <2>2, CountsAssumption DEF HeardInv
<1>7. \A i \in pt[p].buf : i.rc = d.rc => i.seq # d.seq
  BY <1>2, <1>4, <1>5 DEF FlowInv, BufferInv
<1>8. \A a \in pt[p].accepted : pt[p].era = d.rc => a.seq # d.seq
  <2> SUFFICES ASSUME NEW a \in pt[p].accepted, pt[p].era = d.rc
               PROVE  a.seq # d.seq
    OBVIOUS
  <2>1. Heard(p, pt[p])
    BY <1>2, <1>5 DEF HeardInv
  <2>2. net[n].port = p /\ net[n].rc = pt[p].era
    BY <1>4
  <2>3. net[n].seq # a.seq
    BY <2>1, <2>2 DEF Heard
  <2> QED
    BY <1>4, <2>3
<1>9. \A m \in DOMAIN net' : net'[m].port = p /\ net'[m].rc = d.rc => net'[m].seq # d.seq
  <2>1. ASSUME NEW m \in DOMAIN net', net'[m].port = p, net'[m].rc = d.rc, net'[m].seq = d.seq
        PROVE  FALSE
    <3>1. PICK j \in DOMAIN net : j # n /\ net'[m] = net[j]
      BY <1>3
    <3>2. net[j].port = net[n].port /\ net[j].rc = net[n].rc /\ net[j].seq = net[n].seq
      BY <1>4, <2>1, <3>1
    <3>3. j = n
      BY <1>2, <3>2 DEF FlowInv, NetInv
    <3> QED
      BY <3>1, <3>3
  <2> QED
    BY <2>1
<1>10. \A q, x : Numbered(q, x) => Numbered(q, x)'
  BY <1>1 DEF Numbered
<1>11. \A q \in Ports : Heard(q, pt[q]) /\ (pt'[q] = pt[q] => Heard(q, pt[q])')
  BY <1>2, <1>3, <1>10 DEF HeardInv, Heard, Orderly, IsNew, SeqsOf
<1>12. \A m \in DOMAIN net' : net'[m].seq \in Seqs
  BY <1>2, <1>3 DEF HeardInv
<1>13. CASE Drops(p, d)
  <2>1. /\ pt' = [pt EXCEPT ![p].stragglers = @ + 1] /\ ext' = Arrived(p, d) /\ v' = v
    BY <1>13 DEF Drops, Quarantine
  <2>2. /\ \A q \in Ports : q # p => pt'[q] = pt[q]
        /\ DOMAIN pt'[p] = TrackerFields /\ pt'[p].buf = pt[p].buf /\ pt'[p].era = pt[p].era
        /\ pt'[p].eraPos = pt[p].eraPos /\ pt'[p].accepted = pt[p].accepted
    BY <1>2, <1>5, <2>1 DEF TrackerFields
  <2>3. Heard(p, pt[p])'
    BY <1>3, <1>5, <1>10, <1>11, <2>2 DEF Heard, Orderly, IsNew, SeqsOf
  <2>4. HeardInv'
    BY <1>11, <1>12, <2>2, <2>3 DEF HeardInv
  <2>5. PICK s : s = [pt |-> pt, ext |-> Arrived(p, d), v |-> v]
    OBVIOUS
  <2>6. Timely(s) /\ Awaited(s)
    <3>1. p # "mktdata" => SentAt(d) \in Int
      BY <1>5 DEF FrameFrom, Readable
    <3> HIDE DEF Engine
    <3> QED
      BY <1>2, <1>5, <2>5, <3>1, ArrivedAwaited
  <2>7. PICK u : u = [pt |-> pt', ext |-> ext', v |-> v']
    OBVIOUS
  <2>8. Timely(u) /\ Awaited(u)
    <3>1. u.v = s.v /\ u.ext = s.ext /\ u.pt = pt' /\ s.pt = pt
      BY <2>1, <2>5, <2>7
    <3>2. \A q \in Paths : s.pt[q].buf \subseteq u.pt[q].buf
      BY <2>2, <3>1 DEF Paths
    <3>3. \A q \in Ports : /\ "lastArrival" \in DOMAIN u.ext[q]
                           /\ u.ext[q].lastArrival \in Int
                           /\ u.ext[q].lastArrival >= s.ext[q].lastArrival
      BY <2>6, <3>1 DEF Timely
    <3> QED
      BY <1>2, <2>6, <3>1, <3>2, <3>3, AwaitedOn
  <2>9. Timely(Engine)' /\ Awaited(Engine)'
    BY <1>1, <2>7, <2>8, NewAwaited
  <2> QED
    BY <2>4, <2>9 DEF DeadlineInv
<1>14. CASE Receives(p, d)
  <2>1. PICK s : s = Processed(p, d)
    OBVIOUS
  <2>2. ~Quarantines(p, d) /\ pt' = s.pt /\ ext' = s.ext /\ v' = s.v
    BY <1>14, <2>1 DEF Receives
  <2>3. /\ DOMAIN s.pt = Ports /\ \A q \in Ports : q # p => s.pt[q] = pt[q]
        /\ s.pt[p].era = d.rc /\ s.pt[p].eraPos # 0
    BY <1>2, <1>5, <1>6, <1>7, <2>1, <2>2, ProcessedKeeps
  <2>4. /\ Timely(s) /\ Awaited(s) /\ Orderly(s.pt[p])
        /\ \A a \in s.pt[p].accepted :
             \/ pt[p].era = d.rc /\ \E b \in pt[p].accepted \cup pt[p].buf : a.seq = b.seq
             \/ a.seq = d.seq
    BY <1>1, <1>2, <1>5, <1>6, <1>7, <1>8, <2>1, <2>2, ProcessedAwaited
  <2>5. ASSUME NEW a \in s.pt[p].accepted
        PROVE  /\ Numbered(p, [rc |-> d.rc, seq |-> a.seq])
               /\ \A m \in DOMAIN net' : net'[m].port = p /\ net'[m].rc = d.rc
                                            => net'[m].seq # a.seq
    <3>1. CASE a.seq = d.seq
      BY <1>5, <1>9, <3>1 DEF FrameFrom, Numbered
    <3>2. ASSUME pt[p].era = d.rc, NEW b \in pt[p].accepted, a.seq = b.seq
          PROVE  /\ Numbered(p, [rc |-> d.rc, seq |-> a.seq])
                 /\ \A m \in DOMAIN net' : net'[m].port = p /\ net'[m].rc = d.rc
                                              => net'[m].seq # a.seq
      BY <1>3, <1>5, <1>11, <3>2 DEF Heard
    <3>3. ASSUME pt[p].era = d.rc, NEW b \in pt[p].buf, a.seq = b.seq
          PROVE  /\ Numbered(p, [rc |-> d.rc, seq |-> a.seq])
                 /\ \A m \in DOMAIN net' : net'[m].port = p /\ net'[m].rc = d.rc
                                              => net'[m].seq # a.seq
      <4>1. /\ Numbered(p, b) /\ b.rc = d.rc
            /\ \A m \in DOMAIN net : net[m].port = p /\ net[m].rc = b.rc => net[m].seq # b.seq
        BY <1>2, <1>5, <3>3 DEF FlowInv, BufferInv, FrameFrom
      <4>2. Numbered(p, [rc |-> d.rc, seq |-> a.seq])
        BY <3>3, <4>1 DEF Numbered
      <4> QED
        BY <1>3, <3>3, <4>1, <4>2
    <3> QED
      BY <2>4, <3>1, <3>2, <3>3
  <2>6. Heard(p, pt[p])'
    <3>1. \A a \in s.pt[p].accepted : Numbered(p, [rc |-> d.rc, seq |-> a.seq])'
      BY <1>1, <2>5 DEF Numbered
    <3> QED
      BY <2>2, <2>3, <2>4, <2>5, <3>1 DEF Heard, Orderly, IsNew, SeqsOf
  <2>7. HeardInv'
    BY <1>11, <1>12, <2>2, <2>3, <2>6 DEF HeardInv
  <2>8. Timely(Engine)' /\ Awaited(Engine)'
    BY <1>1, <2>2, <2>4, NewAwaited
  <2> QED
    BY <2>7, <2>8 DEF DeadlineInv
<1> QED
  BY <1>1, <1>13, <1>14

LEMMA DeliverWaits ==
  ASSUME RefInv, DeadlineInv, SoleReader(plan), FewChanges(plan), NEW n \in DOMAIN net, Deliver(n)
  PROVE  DeadlineInv'
BY DeliverAwaited

(* EndRun: no verdict is left open. *)
LEMMA EndRunDecides ==
  ASSUME RefInv, SoleReader(plan), FewChanges(plan), EndRun
  PROVE  DeadlineInv'
<1> DEFINE c == Context(Flushed, "mktdata", NoTS)
           z == ResolveValidZero(Flushed.v, FALSE, c)
<1>1. running /\ ~running' /\ v' = AtEnd(Flushed.v, c)
  BY DEF EndRun
<1>2. PubInv /\ FlowInv /\ EraKnown(Engine, published)
  BY <1>1 DEF RefInv
<1>3. HoldsReadable(pt, published)
  BY <1>2 DEF FlowInv, IntakeInv, BufferInv, FrameFrom, HoldsReadable, TrackerFields
<1>4. EraKnown(Flushed, published)
  BY <1>2, <1>3, PublishedIsCatalogue, FlushKeeps
<1>5. StateTyped(z)
  BY <1>4, ResolvedTyped DEF EraKnown
<1> DEFINE final == TRUE
<1>6. v' = Decide(z, c, final)
  BY <1>1 DEF AtEnd
<1>7. final
  OBVIOUS
<1> HIDE DEF c, z, final
<1>8. \A cond, rule, dirty : ChargeIf(Decided(z), cond, rule, dirty).decided
  BY <1>5 DEF ChargeIf, Charge, Decided, StateTyped, Fields
<1>9. Decided(z).decided
  BY <1>5 DEF Decided, StateTyped, Fields
<1>10. Decide(z, c, final).decided
  BY <1>7, <1>8, <1>9 DEF Decide
<1>11. v'.decided
  BY <1>6, <1>10
<1>12. Awaited(Engine)'
  <2>1. (Engine')["v"] = v'
    BY DEF Engine
  <2> QED
    BY <1>11, <2>1 DEF Awaited, Owes
<1> QED
  BY <1>1, <1>12 DEF DeadlineInv

LEMMA StartsDecided ==
  ASSUME RefInit, RefInv
  PROVE  DeadlineInv
<1>1. /\ net = << >> /\ v = NewRefData /\ pt = [p \in Ports |-> NewTracker]
      /\ ext = [p \in Ports |-> [refdataEra |-> NoEra, taints |-> 0, lastArrival |-> NoTS]]
  BY DEF RefInit, NetInit, Init
<1>2. \A q \in Ports : Heard(q, pt[q])
  BY <1>1 DEF NewTracker, Heard, Orderly, TrackerFields
<1>3. HeardInv
  BY <1>1, <1>2 DEF HeardInv
<1>4. Engine.v = NewRefData /\ Engine.ext = ext
  BY <1>1 DEF Engine
<1>5. Stamped(NewRefData) /\ ~NewRefData.valid
  BY DEF NewRefData, Stamped, Fields, NoTS
<1>6. Timely(Engine)
  BY <1>1, <1>4, <1>5 DEF Timely, NoTS
<1>7. Awaited(Engine)
  BY <1>4, <1>5 DEF Awaited, Owes
<1> QED
  BY <1>3, <1>6, <1>7 DEF DeadlineInv

LEMMA DeadlineStep ==
  ASSUME RefInv, DeadlineInv, [RefNext]_allVars
  PROVE  DeadlineInv'
<1>1. SoleReader(plan) /\ FewChanges(plan)
  BY ApartAssumption DEF RefInv, PubInv
<1>2. /\ "mktdata" \in Ports /\ Paths \subseteq Ports
  BY PlansAssumption DEF Paths
<1>3. ASSUME NEW p \in Paths, SendSummary(p) \/ Start(p) \/ SendZero(p)
      PROVE  DeadlineInv'
  <2>1. PublisherOnly /\ \E msgs : Put(p, msgs)
    BY <1>3 DEF SendSummary, Start, SendZero
  <2> QED
    BY <1>1, <1>2, <2>1, PublisherAwaited
<1>4. ASSUME NEW p \in Paths, NEW id \in Ids, SendDefinition(p, id) \/ SendPaced(p, id)
      PROVE  DeadlineInv'
  <2>1. PublisherOnly /\ \E msgs : Put(p, msgs)
    BY <1>4 DEF SendDefinition, SendPaced
  <2> QED
    BY <1>1, <1>2, <2>1, PublisherAwaited
<1>5. ASSUME NEW p \in Paths, NEW id \in Ids, NEW x \in Instrument \cup {NoOne}, Change(p, id, x)
      PROVE  DeadlineInv'
  <2>1. PublisherOnly /\ \E msgs : Put(p, msgs)
    BY <1>5 DEF Change
  <2> QED
    BY <1>1, <1>2, <2>1, PublisherAwaited
<1>6. ASSUME SendEndOfSession \/ Heartbeat
      PROVE  DeadlineInv'
  <2>1. PublisherOnly /\ \E msgs : Put("mktdata", msgs)
    BY <1>6 DEF SendEndOfSession, Heartbeat
  <2> QED
    BY <1>1, <1>2, <2>1, PublisherAwaited
<1>7. ASSUME Tick \/ \E id \in Ids : FixStrike(id)
      PROVE  DeadlineInv'
  <2>1. PublisherOnly /\ UNCHANGED <<net, sent, feedEra>>
    BY <1>7 DEF Tick, FixStrike
  <2> QED
    BY <1>1, <2>1, PublisherAwaited
<1>13. ASSUME NEW id \in Ids, NEW x \in Instrument \cup {NoOne}, ChangeAhead(id, x)
       PROVE  DeadlineInv'
  <2>1. PublisherOnly /\ UNCHANGED <<net, sent, feedEra>>
    BY <1>13 DEF ChangeAhead
  <2> QED
    BY <1>1, <2>1, PublisherAwaited
<1>8. ASSUME NEW seq \in {1, mseq}, ChannelReset(seq)
      PROVE  DeadlineInv'
  <2>1. PublisherOnly /\ NextEra
    BY <1>8 DEF ChannelReset
  <2> QED
    BY <1>1, <2>1, PublisherAwaited
<1>9. ASSUME NEW n \in DOMAIN net, Deliver(n)
      PROVE  DeadlineInv'
  BY <1>1, <1>9, DeliverWaits
<1>10. ASSUME NEW n \in DOMAIN net, Lose(n)
       PROVE  DeadlineInv'
  BY <1>10, LoseAwaited
<1>11. ASSUME EndRun
       PROVE  DeadlineInv'
  BY <1>1, <1>11, EndRunDecides
<1>12. ASSUME UNCHANGED allVars
       PROVE  DeadlineInv'
  <2>1. UNCHANGED <<plan, pt, ext, v, running, net, sent, feedEra>>
    BY <1>12 DEF allVars, vars, netVars, pubVars, recVars
  <2>2. HeardInv => HeardInv'
    <3>1. \A q, x : Numbered(q, x) => Numbered(q, x)'
      BY <2>1 DEF Numbered
    <3> QED
      BY <2>1, <3>1 DEF HeardInv, Heard, Orderly, IsNew, SeqsOf
  <2> QED
    BY <2>1, <2>2, EngineAwaited DEF DeadlineInv
<1> QED
  BY <1>3, <1>4, <1>5, <1>6, <1>7, <1>8, <1>9, <1>10, <1>11, <1>12, <1>13 DEF RefNext

(* decideNeverReachesReady is never starved: past the deadline of a        *)
(* serving period, on every run, the verdict is either taken or waits for  *)
(* a datagram sent in time that the reorder buffer of a path still holds,  *)
(* and that path has been heard within the last window. It holds however   *)
(* paths stop, frames are lost and the channel resets, because no datagram *)
(* leaves a buffer without being read (HeardInv).                          *)
THEOREM VerdictIsTaken == RefSpec => []VerdictIsNotStarved
<1>1. RefInit => RefInv /\ DeadlineInv
  BY StartsRight, StartsDecided
<1>2. (RefInv /\ DeadlineInv) /\ [RefNext]_allVars => (RefInv /\ DeadlineInv)'
  BY RefNextKeeps, DeadlineStep
<1>3. RefInv /\ DeadlineInv => VerdictIsNotStarved
  BY DEF DeadlineInv, Awaited, Owes, HeldBy, Span, Engine, VerdictIsNotStarved
<1> QED
  BY <1>1, <1>2, <1>3, PTL DEF RefSpec

-----------------------------------------------------------------------------
(* The verdict on the end of a session. What a step of the validator does  *)
(* to it: Calm if nothing is charged, held or settled and an unset channel *)
(* stays unset; Settles if a Valid=1 summary settles what was held.        *)
Accused(x) == "VALID_FLAG_WHILE_SERVING" \in x.findings

Unset(x) == ~x.valid /\ ~x.hadSet

Calm(x, y) ==
  /\ DOMAIN y = Fields
  /\ y.pending = x.pending /\ y.sessionEnd = x.sessionEnd
  /\ Accused(y) => Accused(x)
  /\ Unset(x) => Unset(y)

Settles(x, y) ==
  /\ DOMAIN y = Fields
  /\ y.pending = Nil /\ ~y.sessionEnd
  /\ Accused(y) => Accused(x) \/ (x.pending # Nil /\ ~x.sessionEnd)

LEMMA CalmOn ==
  ASSUME NEW x, NEW y, NEW z, Calm(x, y), Calm(y, z)
  PROVE  Calm(x, z)
BY DEF Calm

LEMMA SettlesOn ==
  ASSUME NEW x, NEW y, NEW z, Settles(x, y), Calm(y, z)
  PROVE  Settles(x, z)
BY DEF Calm, Settles

LEMMA SettlesAfter ==
  ASSUME NEW x, NEW y, NEW z, Calm(x, y), Settles(y, z)
  PROVE  Settles(x, z)
BY DEF Calm, Settles

LEMMA ChargedCalm ==
  ASSUME NEW x, DOMAIN x = Fields, NEW cond, NEW rule, rule # "VALID_FLAG_WHILE_SERVING",
         NEW dirty
  PROVE  Calm(x, ChargeIf(x, cond, rule, dirty))
<1>1. CASE ChargeIf(x, cond, rule, dirty) = x
  BY <1>1 DEF Calm
<1>2. CASE ChargeIf(x, cond, rule, dirty) = Charge(x, rule)
  BY <1>2 DEF Calm, Charge, Fields, Accused, Unset
<1> QED
  BY <1>1, <1>2 DEF ChargeIf

LEMMA JudgedCalm ==
  ASSUME NEW x, DOMAIN x = Fields, NEW m, NEW c
  PROVE  Calm(x, Judged(x, m, c))
<1> DEFINE one == ChargeIf(x, BumpsByMore(x, m), "SEQ_BUMP_NOT_BY_ONE", c.dirty)
           two == ChargeIf(one, CountChanges(x, m), "COUNT_CHANGE_NO_SEQ_BUMP", c.dirty)
           all == ChargeIf(two, OutOfState(x, m), "STATE_MACHINE", c.dirty)
<1>1. Calm(x, one)
  BY ChargedCalm
<1>2. Calm(one, two)
  <2>1. DOMAIN one = Fields
    BY <1>1 DEF Calm
  <2> HIDE DEF one
  <2> QED
    BY <2>1, ChargedCalm
<1>3. Calm(two, all)
  <2>1. DOMAIN two = Fields
    BY <1>2 DEF Calm
  <2> HIDE DEF two
  <2> QED
    BY <2>1, ChargedCalm
<1>4. Judged(x, m, c) = all
  BY DEF Judged
<1> HIDE DEF one, two, all
<1> QED
  BY <1>1, <1>2, <1>3, <1>4, CalmOn

LEMMA DecideCalm ==
  ASSUME NEW x, DOMAIN x = Fields, NEW c, NEW final
  PROVE  Calm(x, Decide(x, c, final))
<1>1. Calm(x, Decided(x))
  BY DEF Decided, Calm, Fields, Accused, Unset
<1>2. \A cond, dirty : Calm(Decided(x), ChargeIf(Decided(x), cond, "NEVER_REACHES_READY", dirty))
  BY <1>1, ChargedCalm DEF Calm
<1>3. \A cond, dirty : Calm(x, ChargeIf(Decided(x), cond, "NEVER_REACHES_READY", dirty))
  BY <1>1, <1>2, CalmOn
<1>4. Calm(x, x)
  BY DEF Calm
<1> QED
  BY <1>1, <1>3, <1>4 DEF Decide

LEMMA CloseCycleCalm ==
  ASSUME NEW x, DOMAIN x = Fields, NEW c
  PROVE  Calm(x, CloseCycle(x, c))
<1> DEFINE one(k)    == ChargeIf(x, k, "DEFINITION_CYCLE_COVERAGE", c.dirty)
           two(k, l) == ChargeIf(one(k), l, "NO_BURST_DEFINITIONS", c.dirty)
<1>1. \A k, l : Calm(x, two(k, l))
  <2>1. \A k : Calm(x, one(k))
    BY ChargedCalm
  <2>2. \A k, l : Calm(one(k), two(k, l))
    BY <2>1, ChargedCalm DEF Calm
  <2> HIDE DEF one, two
  <2> QED
    BY <2>1, <2>2, CalmOn
<1>2. \A y : DOMAIN y = Fields => Calm(y, OpenCycle(y, c))
  BY DEF OpenCycle, Calm, Fields, Accused, Unset
<1>3. \/ CloseCycle(x, c) = x
      \/ \E k, l : CloseCycle(x, c) = OpenCycle(two(k, l), c)
  BY DEF CloseCycle
<1>4. Calm(x, x)
  BY DEF Calm
<1>5. \A k, l : Calm(x, OpenCycle(two(k, l), c))
  <2>1. \A k, l : DOMAIN two(k, l) = Fields
    BY <1>1 DEF Calm
  <2> HIDE DEF two
  <2> QED
    BY <1>1, <1>2, <2>1, CalmOn
<1> HIDE DEF two
<1> QED
  BY <1>3, <1>4, <1>5

LEMMA NewPeriodCalm ==
  ASSUME NEW x, DOMAIN x = Fields, NEW c
  PROVE  Calm(x, NewPeriod(x, c))
<1> DEFINE all == TRUE
<1>1. Calm(x, Decide(x, c, all))
  BY DecideCalm
<1>2. \A y : DOMAIN y = Fields =>
        Calm(y, [y EXCEPT !.ready = NoTS, !.first = NoTS, !.lastServing = NoTS,
                          !.lastRefdata = NoTS, !.decided = FALSE])
  BY DEF Calm, Fields, Accused, Unset
<1>3. Calm(x, x)
  BY DEF Calm
<1>4. NewPeriod(x, c) =
        IF x.valid \/ x.first = NoTS THEN x
        ELSE [Decide(x, c, all) EXCEPT !.ready = NoTS, !.first = NoTS, !.lastServing = NoTS,
                                       !.lastRefdata = NoTS, !.decided = FALSE]
  BY DEF NewPeriod
<1> HIDE DEF all
<1>5. DOMAIN Decide(x, c, all) = Fields
  BY <1>1 DEF Calm
<1> QED
  BY <1>1, <1>2, <1>3, <1>4, <1>5, CalmOn

(* A Valid=1 summary read to its end. *)
LEMMA ServingSettles ==
  ASSUME NEW x, DOMAIN x = Fields, NEW m, NEW c
  PROVE  Settles(x, Serving(x, m, c))
<1> DEFINE r == Resumed(x, c)
           k == ChargeIf(r, CadenceMissed(x, c), "MANIFEST_CADENCE", c.dirty)
           o == CloseCycle(k, c)
           n == NewPeriod(o, c)
<1>1. Settles(x, r)
  <2> DEFINE on   == TRUE
             gone == [x EXCEPT !.pending = Nil]
             charged  == ~Ended(x) /\ (on \/ (c.mktSeen /\ ~c.mktDirty))
             z    == ChargeIf(gone, charged, "VALID_FLAG_WHILE_SERVING", x.pending = "dirty")
  <2>1. r = [(IF x.pending = Nil THEN x ELSE z) EXCEPT !.sessionEnd = FALSE]
    BY DEF Resumed, ResolveValidZero
  <2>2. DOMAIN gone = Fields /\ gone.pending = Nil /\ gone.findings = x.findings
    BY DEF Fields
  <2> HIDE DEF gone, charged
  <2>3. DOMAIN z = Fields /\ z.pending = Nil
    BY <2>2 DEF ChargeIf, Charge, Fields
  <2>4. Accused(z) => Accused(x) \/ charged
    BY <2>2 DEF ChargeIf, Charge, Accused, Fields
  <2>5. charged => ~x.sessionEnd
    BY DEF charged, Ended
  <2> HIDE DEF z
  <2> QED
    BY <2>1, <2>3, <2>4, <2>5 DEF Settles, Accused, Fields
<1>2. Calm(r, k)
  <2>1. DOMAIN r = Fields
    BY <1>1 DEF Settles
  <2> HIDE DEF r
  <2> QED
    BY <2>1, ChargedCalm
<1> HIDE DEF r
<1>3. Calm(k, o)
  <2>1. DOMAIN k = Fields
    BY <1>2 DEF Calm
  <2> HIDE DEF k
  <2> QED
    BY <2>1, CloseCycleCalm
<1> HIDE DEF k
<1>4. Calm(o, n)
  <2>1. DOMAIN o = Fields
    BY <1>3 DEF Calm
  <2> HIDE DEF o
  <2> QED
    BY <2>1, NewPeriodCalm
<1>5. Settles(x, n)
  BY <1>1, <1>2, <1>3, <1>4, SettlesOn
<1>6. Serving(x, m, c) = Applied(n, m, c)
  BY DEF Serving, r, k
<1> HIDE DEF o, n
<1> DEFINE y == Applied(n, m, c)
<1>7. DOMAIN y = Fields /\ y.pending = n.pending /\ y.sessionEnd = n.sessionEnd
      /\ y.findings = n.findings
  <2>1. DOMAIN n = Fields
    BY <1>5 DEF Settles
  <2> DEFINE adv == Advancing(n, m)
             fresh == n.first # NoTS /\ Restarts(n, m)
             stamped == IF n.first = NoTS THEN [n EXCEPT !.first = c.ts]
                        ELSE IF fresh THEN [n EXCEPT !.first = c.ts, !.lastRefdata = NoTS,
                                                     !.ready = NoTS, !.decided = FALSE]
                        ELSE n
             set == [stamped EXCEPT !.valid = TRUE, !.seqEverSet = TRUE,
                                 !.prev = <<m.seq, m.count>>,
                                 !.latest   = IF adv THEN m.seq ELSE @,
                                 !.expected = IF adv THEN m.count ELSE @,
                                 !.defs     = IF adv THEN {} ELSE @,
                                 !.frozen   = IF adv THEN {} ELSE @,
                                 !.lastManifest = c.ts, !.lastServing = c.ts]
  <2>2. y = IF c.cycle > 0 /\ n.cycle = NoTS THEN OpenCycle(set, c) ELSE set
    BY DEF Applied
  <2>3. DOMAIN stamped = Fields /\ stamped.pending = n.pending
        /\ stamped.sessionEnd = n.sessionEnd /\ stamped.findings = n.findings
    BY <2>1 DEF Fields
  <2> HIDE DEF stamped, adv
  <2>4. DOMAIN set = Fields /\ set.pending = n.pending
        /\ set.sessionEnd = n.sessionEnd /\ set.findings = n.findings
    BY <2>3 DEF Fields
  <2> HIDE DEF set, y
  <2> QED
    BY <2>2, <2>4 DEF OpenCycle, Fields
<1> HIDE DEF y
<1> QED
  BY <1>5, <1>6, <1>7 DEF y, Settles, Accused

(* A Valid=1 summary settles what is held, or is discarded. *)
LEMMA SummaryReads ==
  ASSUME NEW x, DOMAIN x = Fields, NEW m, m.valid = 1, NEW c
  PROVE  LET y == OnManifestSummary(x, m, c) IN Calm(x, y) \/ Settles(x, y)
<1>1. Armed(x, m, c) = x
  BY DEF Armed
<1>2. Calm(x, Judged(x, m, c))
  BY JudgedCalm
<1>3. Settles(Judged(x, m, c), Serving(Judged(x, m, c), m, c))
  BY <1>2, ServingSettles DEF Calm
<1>4. Settles(x, Serving(Judged(x, m, c), m, c))
  BY <1>2, <1>3 DEF Calm, Settles
<1> DEFINE yes == TRUE
<1>5. /\ Calm(x, ChargeIf(x, yes, "MANIFEST_SEQ_NONZERO_WHEN_VALID", c.dirty))
      /\ Calm(x, ChargeIf(x, yes, "SEQ_MONOTONIC_NO_REGRESS", c.dirty))
  BY ChargedCalm
<1>6. OnManifestSummary(x, m, c) =
        IF Incoherent(x, m) THEN ChargeIf(x, yes, "MANIFEST_SEQ_NONZERO_WHEN_VALID", c.dirty)
        ELSE IF Regresses(x, m) THEN ChargeIf(x, yes, "SEQ_MONOTONIC_NO_REGRESS", c.dirty)
        ELSE Serving(Judged(x, m, c), m, c)
  BY <1>1 DEF OnManifestSummary
<1> HIDE DEF yes
<1> QED
  BY <1>4, <1>5, <1>6

(* A Valid=0 summary is held against a channel that had a set. *)
LEMMA ZeroReads ==
  ASSUME NEW x, DOMAIN x = Fields, NEW m, m.valid = 0, NEW c
  PROVE  LET y == OnManifestSummary(x, m, c)
         IN  /\ DOMAIN y = Fields /\ Unset(y)
             /\ y.sessionEnd = x.sessionEnd /\ (Accused(y) => Accused(x))
             /\ y.pending = x.pending \/ x.hadSet
<1> DEFINE a == Armed(x, m, c)
           j == Judged(a, m, c)
<1>1. /\ DOMAIN a = Fields /\ a.sessionEnd = x.sessionEnd /\ a.findings = x.findings
      /\ a.pending = x.pending \/ x.hadSet
  BY DEF Armed, Fields
<1>2. OnManifestSummary(x, m, c) = Invalidated(j, c)
  BY DEF OnManifestSummary, Incoherent, Regresses
<1> HIDE DEF a
<1>3. Calm(a, j)
  BY <1>1, JudgedCalm
<1> HIDE DEF j
<1>4. LET y == Invalidated(j, c)
      IN  /\ DOMAIN y = Fields /\ Unset(y)
          /\ y.sessionEnd = j.sessionEnd /\ y.findings = j.findings /\ y.pending = j.pending
  BY <1>3 DEF Invalidated, Calm, Fields, Unset
<1> QED
  BY <1>1, <1>2, <1>3, <1>4 DEF Calm, Accused

LEMMA DefinitionReads ==
  ASSUME NEW x, DOMAIN x = Fields, NEW m, NEW c
  PROVE  Calm(x, OnInstrumentDef(x, m, c))
<1> DEFINE stale  == ChargeIf(x, x.valid /\ m.seq # x.latest, "STALE_SEQ_TAG_AFTER_BUMP", c.dirty)
           odd    == ChargeIf(stale, x.frozen # {} /\ m.id \notin x.frozen,
                              "SET_CHANGE_NO_SEQ_BUMP", c.dirty)
           joined == [odd EXCEPT !.defs = @ \cup {m.id}]
           within == ChargeIf(joined, Cardinality(joined.defs) > x.expected,
                              "COUNT_VS_DISTINCT_DEFS", c.dirty)
           frozen == Freeze(within, c)
           noted  == NoteInCycle(frozen, m, c)
           y      == OnDefinitionStrike(noted, m, c)
<1>1. Calm(x, stale)
  BY ChargedCalm
<1>2. OnInstrumentDef(x, m, c) = IF ~Accepts(x, m) THEN stale ELSE y
  BY DEF OnInstrumentDef
<1> HIDE DEF stale
<1>3. Calm(x, odd)
  <2>1. Calm(stale, odd)
    BY <1>1, ChargedCalm DEF Calm
  <2> QED
    BY <1>1, <2>1, CalmOn
<1> HIDE DEF odd
<1>4. Calm(x, joined)
  BY <1>3 DEF Calm, Fields, Accused, Unset
<1> HIDE DEF joined
<1>5. Calm(x, within)
  <2>1. Calm(joined, within)
    BY <1>4, ChargedCalm DEF Calm
  <2> QED
    BY <1>4, <2>1, CalmOn
<1> HIDE DEF within
<1>6. /\ DOMAIN frozen = Fields /\ frozen.pending = within.pending
      /\ frozen.sessionEnd = within.sessionEnd /\ frozen.findings = within.findings
  BY <1>5 DEF Freeze, Calm, Fields
<1> HIDE DEF frozen
<1>7. /\ DOMAIN noted = Fields /\ noted.pending = frozen.pending
      /\ noted.sessionEnd = frozen.sessionEnd /\ noted.findings = frozen.findings
  BY <1>6 DEF NoteInCycle, Fields
<1> HIDE DEF noted
<1>8. /\ DOMAIN y = Fields /\ y.pending = noted.pending
      /\ y.sessionEnd = noted.sessionEnd /\ (Accused(y) => Accused(noted))
  <2> DEFINE was == noted.strikes[m.id]
             judge == /\ was # NoStrike
                      /\ was.symbol = m.symbol
                      /\ Comparable(noted, was)
                      /\ ~GappedSince(was, c)
             no == FALSE
             shape == ChargeIf(noted, judge /\ (was.strike = "absent") # (m.strike = "absent"),
                               "PRESENCE_STABLE", no)
             kept == ChargeIf(shape, judge /\ was.strike = "fixed" /\ m.strike = "pending",
                              "FIXED_STAYS_FIXED", no)
  <2>1. y = [kept EXCEPT !.strikes[m.id] = [strike |-> m.strike, symbol |-> m.symbol,
                                            seq |-> noted.latest, taints |-> c.taints]]
    BY DEF OnDefinitionStrike
  <2> HIDE DEF judge, was, no
  <2>2. Calm(noted, shape)
    BY <1>7, ChargedCalm
  <2> HIDE DEF shape
  <2>3. Calm(shape, kept)
    BY <2>2, ChargedCalm DEF Calm
  <2>4. Calm(noted, kept)
    BY <2>2, <2>3, CalmOn
  <2> HIDE DEF kept
  <2> QED
    BY <2>1, <2>4 DEF Calm, Fields, Accused
<1> HIDE DEF y
<1>9. x.valid => Calm(x, y)
  BY <1>5, <1>6, <1>7, <1>8 DEF Calm, Unset, Accused
<1> QED
  BY <1>1, <1>2, <1>9 DEF Accepts, stale

-----------------------------------------------------------------------------
(* What the bodies still to be classified say of a held Valid=0. D are     *)
(* those of the refdata paths, E those of mktdata; open is whether the     *)
(* announcement of a session's end is still to be sent, idle whether the   *)
(* path that sends alone is between two sessions.                          *)
Shows(b, flag)  == \E m \in ToSet(b.msgs) : m.type = "summary" /\ m.valid = flag
Announces(b)   == \E m \in ToSet(b.msgs) : m.type = "endOfSession"
ServingOf(D)   == {b \in D : Shows(b, 1)}

(* In the order of the bodies' path. *)
Sooner(q, a, b) ==
  a.at.era < b.at.era \/ (a.at.era = b.at.era /\ a.at.sent[q] < b.at.sent[q])

Ahead(a, b) == \A q \in plan.paths : Sooner(q, a, b)

(* Between the Valid=1 summaries P and Q an announcement is still to come, *)
(* or one was classified, and then P are too.                              *)
Told(x, P, Q, E, open) ==
  \/ \E e \in E : /\ Announces(e)
                  /\ \A y \in P : Before(y.at, e.at)
                  /\ \A y \in Q : Before(e.at, y.at)
  \/ open /\ Q = {}
  \/ x.sessionEnd /\ P = {}

(* A Valid=0 that finds no set is never held. *)
Answered(x, P, Q, E, open) == Told(x, P, Q, E, open) \/ (Unset(x) /\ P = {})

Prior(D, z) == {y \in ServingOf(D) : Ahead(y, z)}

Quiet(x, D, E, open, idle) ==
  /\ ~Accused(x)
  /\ x.pending # Nil => Alone /\ Told(x, {}, ServingOf(D), E, open)
  /\ \A z \in D : Shows(z, 0) =>
       Alone /\ Answered(x, Prior(D, z), ServingOf(D) \ Prior(D, z), E, open)
  /\ idle => Answered(x, ServingOf(D), {}, E, open)

LEMMA ToldLess ==
  ASSUME NEW x, NEW y, (x.sessionEnd => y.sessionEnd),
         NEW P, NEW Q, NEW E, NEW open, NEW P2, P2 \subseteq P, NEW Q2, Q2 \subseteq Q,
         NEW E2, \A e \in E : Announces(e) => e \in E2, NEW open2, open => open2,
         Told(x, P, Q, E, open)
  PROVE  Told(y, P2, Q2, E2, open2)
<1>1. CASE \E e \in E : /\ Announces(e)
                        /\ \A z \in P : Before(z.at, e.at)
                        /\ \A z \in Q : Before(e.at, z.at)
  BY <1>1 DEF Told
<1>2. CASE open /\ Q = {}
  BY <1>2 DEF Told
<1>3. CASE x.sessionEnd /\ P = {}
  BY <1>3 DEF Told
<1> QED
  BY <1>1, <1>2, <1>3 DEF Told

(* Refdata bodies, and announcements still to come with them, may go.      *)
LEMMA QuietShrinks ==
  ASSUME NEW x, NEW D, NEW E, NEW open, NEW idle, Quiet(x, D, E, open, idle),
         NEW D2, D2 \subseteq D, NEW E2, \A e \in E : Announces(e) => e \in E2
  PROVE  Quiet(x, D2, E2, open, idle)
<1>1. ServingOf(D2) \subseteq ServingOf(D)
  BY DEF ServingOf
<1>2. ASSUME x.pending # Nil
      PROVE  Alone /\ Told(x, {}, ServingOf(D2), E2, open)
  BY <1>1, <1>2, ToldLess DEF Quiet
<1>3. ASSUME NEW z \in D2, Shows(z, 0)
      PROVE  Alone /\ Answered(x, Prior(D2, z), ServingOf(D2) \ Prior(D2, z), E2, open)
  <2>1. Prior(D2, z) \subseteq Prior(D, z)
        /\ ServingOf(D2) \ Prior(D2, z) \subseteq ServingOf(D) \ Prior(D, z)
    BY <1>1 DEF Prior
  <2>2. Alone /\ Answered(x, Prior(D, z), ServingOf(D) \ Prior(D, z), E, open)
    BY <1>3 DEF Quiet
  <2>3. CASE Told(x, Prior(D, z), ServingOf(D) \ Prior(D, z), E, open)
    <3>1. Told(x, Prior(D2, z), ServingOf(D2) \ Prior(D2, z), E2, open)
      BY <2>1, <2>3, ToldLess
    <3> QED
      BY <2>2, <3>1 DEF Answered
  <2>4. CASE Unset(x) /\ Prior(D, z) = {}
    BY <2>1, <2>2, <2>4 DEF Answered
  <2> QED
    BY <2>2, <2>3, <2>4 DEF Answered
<1>4. ASSUME idle
      PROVE  Answered(x, ServingOf(D2), {}, E2, open)
  <2>1. Answered(x, ServingOf(D), {}, E, open)
    BY <1>4 DEF Quiet
  <2>2. Told(x, ServingOf(D), {}, E, open) => Told(x, ServingOf(D2), {}, E2, open)
    BY <1>1, ToldLess
  <2> QED
    BY <1>1, <2>1, <2>2 DEF Answered
<1> QED
  BY <1>2, <1>3, <1>4 DEF Quiet

LEMMA QuietCalm ==
  ASSUME NEW x, NEW D, NEW E, NEW open, NEW idle, Quiet(x, D, E, open, idle),
         NEW y, Calm(x, y)
  PROVE  Quiet(y, D, E, open, idle)
<1>1. \A P, Q : Told(x, P, Q, E, open) => Told(y, P, Q, E, open)
  BY DEF Told, Calm
<1>2. \A P, Q : Answered(x, P, Q, E, open) => Answered(y, P, Q, E, open)
  BY <1>1 DEF Answered, Calm
<1> QED
  BY <1>1, <1>2 DEF Quiet, Calm

(* observeSessionEnd: an announcement is classified, and no Valid=1        *)
(* summary from before it waits.                                           *)
LEMMA QuietHeard ==
  ASSUME NEW x, NEW D, NEW E, NEW open, NEW idle, Quiet(x, D, E, open, idle),
         NEW b, NEW y, y.sessionEnd = (x.sessionEnd \/ Announces(b)),
         y.pending = x.pending, y.valid = x.valid, y.hadSet = x.hadSet,
         y.findings = x.findings,
         Announces(b) => \A z \in ServingOf(D) : ~Before(z.at, b.at),
         NEW E2, \A e \in E : Announces(e) /\ e # b => e \in E2
  PROVE  Quiet(y, D, E2, open, idle)
<1>1. ASSUME NEW P, P \subseteq ServingOf(D), NEW Q, Told(x, P, Q, E, open)
      PROVE  Told(y, P, Q, E2, open)
  <2>1. ASSUME NEW e \in E, Announces(e), \A z \in P : Before(z.at, e.at),
               \A z \in Q : Before(e.at, z.at)
        PROVE  Told(y, P, Q, E2, open)
    <3>1. CASE e = b
      <4>1. P = {} /\ y.sessionEnd
        BY <1>1, <2>1, <3>1
      <4> QED
        BY <4>1 DEF Told
    <3>2. CASE e # b
      BY <2>1, <3>2 DEF Told
    <3> QED
      BY <3>1, <3>2
  <2> QED
    BY <1>1, <2>1 DEF Told
<1>2. \A P \in SUBSET ServingOf(D) : \A Q : Answered(x, P, Q, E, open) => Answered(y, P, Q, E2, open)
  BY <1>1 DEF Answered, Unset
<1>3. \A z : Prior(D, z) \in SUBSET ServingOf(D)
  BY DEF Prior
<1>4. {} \in SUBSET ServingOf(D) /\ ServingOf(D) \in SUBSET ServingOf(D)
  OBVIOUS
<1> QED
  BY <1>1, <1>2, <1>3, <1>4 DEF Quiet, Accused

-----------------------------------------------------------------------------
(* The bodies of the refdata paths: one message, or a Valid=1 summary and  *)
(* a definition in either order.                                           *)
Shaped(msgs) ==
  \/ /\ Len(msgs) = 1 /\ DOMAIN msgs = 1 .. 1
     /\ msgs[1].type = "summary" => msgs[1].valid \in {0, 1}
  \/ /\ Len(msgs) = 2 /\ DOMAIN msgs = 1 .. 2
     /\ \/ msgs[1].type = "summary" /\ msgs[1].valid = 1 /\ msgs[2].type # "summary"
        \/ msgs[1].type # "summary" /\ msgs[2].type = "summary" /\ msgs[2].valid = 1

(* What a datagram read does to the verdict. *)
LEMMA BodyReads ==
  ASSUME NEW x, DOMAIN x = Fields, NEW b, Shaped(b.msgs), NEW c
  PROVE  LET y == ReadAll(x, b.msgs, c)
         IN  \/ Calm(x, y)
             \/ Shows(b, 1) /\ Settles(x, y)
             \/ /\ Shows(b, 0) /\ ~Shows(b, 1)
                /\ DOMAIN y = Fields /\ Unset(y)
                /\ y.sessionEnd = x.sessionEnd /\ (Accused(y) => Accused(x))
                /\ y.pending = x.pending \/ x.hadSet
<1> DEFINE k == Len(b.msgs)
           y == ReadAll(x, b.msgs, c)
<1>1. k \in Nat
  BY DEF Shaped
<1>2. PICK f : IsReading(f, k, x, b.msgs, c) /\ y = f[k]
  BY <1>1, ReadAllReads
<1> HIDE DEF y
<1>3. \A n \in 0 .. k : f[n] = IF n = 0 THEN x ELSE OnRefData(f[n - 1], b.msgs[n], c)
  BY <1>1, <1>2 DEF IsReading
<1> DEFINE m == b.msgs[1]
           z == OnRefData(x, m, c)
<1>4. k \in {1, 2} => f[1] = z
  BY <1>3
<1>5. m.type = "summary" => z = OnManifestSummary(x, m, c)
  BY DEF OnRefData
<1>6. m.type # "summary" => z = OnInstrumentDef(x, m, c)
  BY DEF OnRefData
<1> HIDE DEF z
<1>7. CASE k = 1
  <2>1. y = z /\ ToSet(b.msgs) = {m}
    BY <1>2, <1>4, <1>7 DEF Shaped, ToSet
  <2>2. CASE m.type # "summary"
    BY <1>6, <2>1, <2>2, DefinitionReads DEF y
  <2>3. CASE m.type = "summary" /\ m.valid = 1
    <3>1. Shows(b, 1)
      BY <2>1, <2>3 DEF Shows
    <3>2. Calm(x, z) \/ Settles(x, z)
      BY <1>5, <2>3, SummaryReads
    <3> QED
      BY <2>1, <3>1, <3>2 DEF y
  <2>4. CASE m.type = "summary" /\ m.valid = 0
    <3>1. Shows(b, 0) /\ ~Shows(b, 1)
      BY <2>1, <2>4 DEF Shows
    <3> HIDE DEF m
    <3>2. /\ DOMAIN z = Fields /\ Unset(z)
          /\ z.sessionEnd = x.sessionEnd /\ (Accused(z) => Accused(x))
          /\ z.pending = x.pending \/ x.hadSet
      BY <1>5, <2>4, ZeroReads
    <3> QED
      BY <2>1, <3>1, <3>2 DEF y
  <2> QED
    BY <1>7, <2>2, <2>3, <2>4 DEF Shaped
<1>8. CASE k = 2 /\ m.type = "summary"
  <2>1. /\ m.type = "summary" /\ m.valid = 1 /\ m \in ToSet(b.msgs)
        /\ b.msgs[2].type # "summary"
    BY <1>8 DEF Shaped, ToSet
  <2>2. Shows(b, 1)
    BY <2>1 DEF Shows
  <2> HIDE DEF m
  <2>3. Calm(x, z) \/ Settles(x, z)
    BY <1>5, <2>1, SummaryReads
  <2>4. y = OnInstrumentDef(z, b.msgs[2], c)
    <3>1. y = OnRefData(z, b.msgs[2], c)
      BY <1>2, <1>3, <1>4, <1>8
    <3> QED
      BY <2>1, <3>1 DEF OnRefData
  <2>5. Calm(z, y)
    BY <2>3, <2>4, DefinitionReads DEF Calm, Settles
  <2>6. Calm(x, y) \/ Settles(x, y)
    BY <2>3, <2>5, CalmOn, SettlesOn
  <2> QED
    BY <2>2, <2>6 DEF y
<1>9. CASE k = 2 /\ m.type # "summary"
  <2>1. PICK e : e = b.msgs[2]
    OBVIOUS
  <2>2. e.type = "summary" /\ e.valid = 1 /\ e \in ToSet(b.msgs)
    BY <1>9, <2>1 DEF Shaped, ToSet
  <2>3. Shows(b, 1)
    BY <2>2 DEF Shows
  <2> HIDE DEF m
  <2>4. Calm(x, z)
    BY <1>6, <1>9, DefinitionReads
  <2>5. y = OnManifestSummary(z, e, c)
    <3>1. y = OnRefData(z, e, c)
      BY <1>2, <1>3, <1>4, <1>9, <2>1
    <3> QED
      BY <2>2, <3>1 DEF OnRefData
  <2>6. DOMAIN z = Fields
    BY <2>4 DEF Calm
  <2>7. Calm(z, y) \/ Settles(z, y)
    BY <2>2, <2>5, <2>6, SummaryReads
  <2>8. Calm(x, y) \/ Settles(x, y)
    BY <2>4, <2>7, CalmOn, SettlesAfter
  <2> QED
    BY <2>3, <2>8 DEF y
<1> QED
  BY <1>7, <1>8, <1>9 DEF Shaped, k

(* A Valid=1 summary is read: what was held had its answer, for no         *)
(* announcement from before it waits.                                      *)
LEMMA ServingQuiet ==
  ASSUME NEW x, NEW D, NEW E, NEW open, NEW idle, Quiet(x, D, E, open, idle),
         NEW y, Settles(x, y), NEW b \in ServingOf(D),
         \A e \in E : Announces(e) => ~Before(e.at, b.at),
         NEW D2, D2 \subseteq D, Alone => \A z \in D2 : Ahead(b, z)
  PROVE  Quiet(y, D2, E, open, idle)
<1>1. ~Accused(y) /\ y.pending = Nil
  <2>1. ASSUME x.pending # Nil
        PROVE  x.sessionEnd
    <3>1. Told(x, {}, ServingOf(D), E, open)
      BY <2>1 DEF Quiet
    <3> QED
      BY <3>1 DEF Told
  <2> QED
    BY <2>1 DEF Settles, Quiet
<1>2. ASSUME NEW P, b \in P, NEW Q, Answered(x, P, Q, E, open)
      PROVE  Told(y, P, Q, E, open)
  BY <1>2 DEF Answered, Told
<1>3. ServingOf(D2) \subseteq ServingOf(D)
  BY DEF ServingOf
<1>4. ASSUME NEW z \in D2, Shows(z, 0)
      PROVE  Alone /\ Answered(y, Prior(D2, z), ServingOf(D2) \ Prior(D2, z), E, open)
  <2>1. Alone /\ Answered(x, Prior(D, z), ServingOf(D) \ Prior(D, z), E, open)
    BY <1>4 DEF Quiet
  <2>2. b \in Prior(D, z)
    BY <1>4, <2>1 DEF Prior
  <2>3. Told(y, Prior(D, z), ServingOf(D) \ Prior(D, z), E, open)
    BY <1>2, <2>1, <2>2
  <2>4. Prior(D2, z) \subseteq Prior(D, z)
        /\ ServingOf(D2) \ Prior(D2, z) \subseteq ServingOf(D) \ Prior(D, z)
    BY <1>3 DEF Prior
  <2>5. Told(y, Prior(D2, z), ServingOf(D2) \ Prior(D2, z), E, open)
    BY <2>3, <2>4, ToldLess
  <2> QED
    BY <2>1, <2>5 DEF Answered
<1>5. ASSUME idle
      PROVE  Answered(y, ServingOf(D2), {}, E, open)
  <2>1. Answered(x, ServingOf(D), {}, E, open)
    BY <1>5 DEF Quiet
  <2>2. Told(y, ServingOf(D), {}, E, open)
    BY <1>2, <2>1
  <2>3. Told(y, ServingOf(D2), {}, E, open)
    BY <1>3, <2>2, ToldLess
  <2> QED
    BY <2>3 DEF Answered
<1> QED
  BY <1>1, <1>4, <1>5 DEF Quiet

(* A Valid=0 is read: no Valid=1 summary from before it waits.             *)
LEMMA ZeroQuiet ==
  ASSUME NEW x, NEW D, NEW E, NEW open, NEW idle, Quiet(x, D, E, open, idle),
         NEW b \in D, Shows(b, 0),
         NEW y, Unset(y), y.sessionEnd = x.sessionEnd, Accused(y) => Accused(x),
         y.pending = x.pending \/ x.hadSet,
         NEW D2, D2 \subseteq D, \A z \in D2 : ~Ahead(z, b)
  PROVE  Quiet(y, D2, E, open, idle)
<1>1. Alone /\ Answered(x, Prior(D, b), ServingOf(D) \ Prior(D, b), E, open)
  BY DEF Quiet
<1>2. Quiet(x, D2, E, open, idle)
  BY QuietShrinks
<1>3. \A P, Q : Told(x, P, Q, E, open) => Told(y, P, Q, E, open)
  BY DEF Told
<1>4. \A P, Q : Answered(x, P, Q, E, open) => Answered(y, P, Q, E, open)
  BY <1>3 DEF Answered
<1>5. ASSUME y.pending # Nil
      PROVE  Told(y, {}, ServingOf(D2), E, open)
  <2>1. CASE x.pending # Nil
    BY <1>2, <1>3, <2>1 DEF Quiet
  <2>2. CASE x.hadSet
    <3>1. Told(x, Prior(D, b), ServingOf(D) \ Prior(D, b), E, open)
      BY <1>1, <2>2 DEF Answered, Unset
    <3>2. ServingOf(D2) \subseteq ServingOf(D) \ Prior(D, b)
      BY DEF ServingOf, Prior
    <3>3. Told(x, {}, ServingOf(D2), E, open)
      BY <3>1, <3>2, ToldLess
    <3> QED
      BY <1>3, <3>3
  <2> QED
    BY <1>5, <2>1, <2>2
<1> QED
  BY <1>1, <1>2, <1>4, <1>5 DEF Quiet

(* A datagram read on its path, before all that wait behind it. *)
LEMMA BodyQuiet ==
  ASSUME NEW x, DOMAIN x = Fields, NEW b, Shaped(b.msgs), NEW c,
         NEW D, NEW E, NEW open, NEW idle, Quiet(x, D, E, open, idle), b \in D,
         Shows(b, 1) => \A e \in E : Announces(e) => ~Before(e.at, b.at),
         NEW D2, D2 \subseteq D, Alone => \A z \in D2 : Ahead(b, z) /\ ~Ahead(z, b)
  PROVE  LET y == ReadAll(x, b.msgs, c) IN DOMAIN y = Fields /\ Quiet(y, D2, E, open, idle)
<1>1. PICK y : y = ReadAll(x, b.msgs, c)
  OBVIOUS
<1>2. \/ Calm(x, y)
      \/ Shows(b, 1) /\ Settles(x, y)
      \/ /\ Shows(b, 0) /\ ~Shows(b, 1)
         /\ DOMAIN y = Fields /\ Unset(y)
         /\ y.sessionEnd = x.sessionEnd /\ (Accused(y) => Accused(x))
         /\ y.pending = x.pending \/ x.hadSet
  BY <1>1, BodyReads
<1>3. CASE Calm(x, y)
  <2>1. Quiet(y, D, E, open, idle)
    BY <1>3, QuietCalm
  <2>2. Quiet(y, D2, E, open, idle)
    BY <2>1, QuietShrinks
  <2> QED
    BY <1>1, <1>3, <2>2 DEF Calm
<1>4. CASE Shows(b, 1) /\ Settles(x, y)
  <2>1. b \in ServingOf(D)
    BY <1>4 DEF ServingOf
  <2>2. Quiet(y, D2, E, open, idle)
    BY <1>4, <2>1, ServingQuiet
  <2> QED
    BY <1>1, <1>4, <2>2 DEF Settles
<1>5. CASE /\ Shows(b, 0) /\ ~Shows(b, 1)
           /\ DOMAIN y = Fields /\ Unset(y)
           /\ y.sessionEnd = x.sessionEnd /\ (Accused(y) => Accused(x))
           /\ y.pending = x.pending \/ x.hadSet
  <2>1. Alone
    BY <1>5 DEF Quiet
  <2>2. Quiet(y, D2, E, open, idle)
    BY <1>5, <2>1, ZeroQuiet
  <2> QED
    BY <1>1, <1>5, <2>2
<1> QED
  BY <1>2, <1>3, <1>4, <1>5

(* A channel reset keeps what is held, and unsets the channel. *)
LEMMA ResetCalm ==
  ASSUME NEW x, DOMAIN x = Fields
  PROVE  Calm(x, OnResetChannel(x))
BY DEF OnResetChannel, NewRefData, Calm, Fields, Accused, Unset

LEMMA ClockedCalm ==
  ASSUME NEW x, DOMAIN x = Fields, NEW c
  PROVE  Calm(x, Clocked(x, c))
BY DEF Clocked, Calm, Fields, Accused, Unset

(* A path that sends alone is the only one. *)
LEMMA SolePath ==
  ASSUME plan \in Plans, IsFiniteSet(Ports), Alone, NEW p \in plan.paths
  PROVE  plan.paths = {p}
<1>1. plan.paths \subseteq Ports
  BY RefPlansAssumption DEF Paths
<1>2. IsFiniteSet(plan.paths)
  BY <1>1, FS_Subset
<1>3. PICK S : S = plan.paths
  OBVIOUS
<1>4. /\ IsFiniteSet(S \ {p})
      /\ Cardinality(S \ {p}) = Cardinality(S) - 1
  BY <1>2, <1>3, FS_RemoveElement
<1>5. Cardinality(S) = 1
  BY <1>3 DEF Alone
<1>6. S \ {p} = {}
  BY <1>4, <1>5, FS_EmptySet
<1> QED
  BY <1>3, <1>6

LEMMA PortsFinite == IsFiniteSet(Ports)
<1> DEFINE k == Len(FlushOrder)
<1>1. k \in Nat /\ DOMAIN FlushOrder = 1 .. k /\ FlushOrder \in [1 .. k -> Ports]
  BY PlansAssumption
<1>2. \A q \in Ports : \E n \in 1 .. k : FlushOrder[n] = q
  BY <1>1, PlansAssumption DEF ToSet
<1> HIDE DEF k
<1>3. FlushOrder \in Surjection(1 .. k, Ports)
  BY <1>1, <1>2 DEF Surjection
<1>4. IsFiniteSet(1 .. k)
  BY <1>1, FS_Interval
<1> QED
  BY <1>3, <1>4, FS_Surjection

LEMMA SoonerOnce ==
  ASSUME NEW q, NEW a, NEW b, a.at.era \in Int, b.at.era \in Int,
         a.at.sent[q] \in Int, b.at.sent[q] \in Int, Sooner(q, a, b)
  PROVE  ~Sooner(q, b, a)
BY DEF Sooner

-----------------------------------------------------------------------------
(* What waits: the bodies buffered for a port, and those of N, which are   *)
(* under way to it.                                                        *)
Held(s, q)   == {i.body : i \in s.pt[q].buf}
ToRead(s, N) == UNION {Held(s, q) \cup N[q] : q \in plan.paths}
ToHear(s, N) == Held(s, "mktdata") \cup N["mktdata"]

Peace(s, N, open, idle) == Quiet(s.v, ToRead(s, N), ToHear(s, N), open, idle)

(* No announcement overtakes a Valid=1 summary, nor the other way round.   *)
Uncrossed(s, N, p, b) ==
  IF p = "mktdata"
    THEN Announces(b) => \A z \in ServingOf(ToRead(s, N)) : ~Before(z.at, b.at)
    ELSE Shows(b, 1) => \A e \in ToHear(s, N) : Announces(e) => ~Before(e.at, b.at)

Foremost(s, N, p, item) ==
  \A z \in {j.body : j \in s.pt[p].buf \ {item}} \cup N[p] :
    Sooner(p, item.body, z) /\ ~Sooner(p, z, item.body)

(* processRefdataFrame. *)
LEMMA FramePeace ==
  ASSUME NEW s, DOMAIN s = {"pt", "ext", "v"}, DOMAIN s.v = Fields,
         NEW p, NEW item, Shaped(item.body.msgs),
         NEW D, NEW E, NEW open, NEW idle, Quiet(s.v, D, E, open, idle), item.body \in D,
         Shows(item.body, 1) => \A e \in E : Announces(e) => ~Before(e.at, item.body.at),
         NEW D2, D2 \subseteq D,
         Alone => \A z \in D2 : Ahead(item.body, z) /\ ~Ahead(z, item.body)
  PROVE  Quiet(OnRefDataFrame(s, p, item).v, D2, E, open, idle)
<1> DEFINE c     == Context(s, p, SentAt(item))
           fresh == IF s.ext[p].refdataEra \notin {NoEra, item.rc} THEN OnResetChannel(s.v) ELSE s.v
           all   == ReadAll(fresh, item.body.msgs, c)
           w     == Clocked(all, c)
           y     == Decide(w, WithBuffers(c, s, w), FALSE)
           u     == OnRefDataFrame(s, p, item)
<1>1. u = [s EXCEPT !.v = y, !.ext[p].refdataEra = item.rc]
  BY DEF OnRefDataFrame
<1>2. u.v = y
  <2> HIDE DEF y, u
  <2> QED
    BY <1>1
<1>3. DOMAIN fresh = Fields /\ Quiet(fresh, D, E, open, idle)
  <2>1. Calm(s.v, OnResetChannel(s.v))
    BY ResetCalm
  <2>2. DOMAIN OnResetChannel(s.v) = Fields
    BY <2>1 DEF Calm
  <2>3. Quiet(OnResetChannel(s.v), D, E, open, idle)
    BY <2>1, QuietCalm
  <2> QED
    BY <2>2, <2>3
<1> HIDE DEF c, fresh
<1>4. PICK b : b = item.body
  OBVIOUS
<1>5. DOMAIN all = Fields /\ Quiet(all, D2, E, open, idle)
  BY <1>3, <1>4, BodyQuiet
<1> HIDE DEF all
<1>6. DOMAIN w = Fields /\ Quiet(w, D2, E, open, idle)
  <2>1. Calm(all, w)
    BY <1>5, ClockedCalm
  <2> QED
    BY <1>5, <2>1, QuietCalm DEF Calm
<1> HIDE DEF w
<1>7. Calm(w, y)
  BY <1>6, DecideCalm
<1> HIDE DEF y, u
<1>8. Quiet(y, D2, E, open, idle)
  BY <1>6, <1>7, QuietCalm
<1> QED
  BY <1>2, <1>8 DEF u

(* classify of one item: the first of its port, with none crossed.         *)
LEMMA ItemPeace ==
  ASSUME plan \in Plans, NEW pub, NEW s, EraKnown(s, pub), DOMAIN s.pt = Ports,
         NEW p \in Ports, Orderly(s.pt[p]), NEW item \in s.pt[p].buf,
         p # "mktdata" => p \in plan.paths /\ Shaped(item.body.msgs),
         NEW N, NEW open, NEW idle, Peace(s, N, open, idle),
         Uncrossed(s, N, p, item.body), Foremost(s, N, p, item)
  PROVE  Peace(ClassifyItem(p, s, item), N, open, idle)
<1> DEFINE t    == s.pt[p]
           gap  == HasGap(t, FreshOf(t, {item}))
           seen == [s EXCEPT !.pt[p] = [Classify(t, {item}) EXCEPT !.buf = @ \ {item}],
                             !.ext[p] = Tainted(@, gap)]
           u    == ClassifyItem(p, s, item)
<1>1. FreshOf(t, {item}) # {}
  <2>1. IsNew(t, item)
    BY DEF Orderly
  <2> HIDE DEF t
  <2> QED
    BY <2>1 DEF FreshOf, IsNew
<1>2. u = IF p = "mktdata" THEN OnMktdataFrame(seen, item) ELSE OnRefDataFrame(seen, p, item)
  BY <1>1 DEF ClassifyItem
<1>3. /\ DOMAIN seen = {"pt", "ext", "v"} /\ seen.v = s.v
      /\ DOMAIN seen.pt = Ports /\ seen.pt[p] = Popped(t, item)
      /\ \A q \in Ports : q # p => seen.pt[q] = s.pt[q]
  BY DEF EraKnown, Popped
<1>4. Popped(t, item).buf = t.buf \ {item}
  BY PoppedOrderly
<1>5. DOMAIN s.v = Fields
  BY DEF EraKnown, StateTyped
<1> HIDE DEF t, seen
<1>6. /\ \A q \in Ports : q # p => Held(seen, q) = Held(s, q)
      /\ Held(seen, p) = {j.body : j \in s.pt[p].buf \ {item}}
      /\ \A z \in Held(s, p) : z = item.body \/ z \in Held(seen, p)
      /\ Held(seen, p) \subseteq Held(s, p) /\ item.body \in Held(s, p)
  BY <1>3, <1>4 DEF Held, t
<1>7. plan.paths \subseteq Ports /\ "mktdata" \notin plan.paths /\ "mktdata" \in Ports
  BY RefPlansAssumption, PlansAssumption DEF Paths
<1>8. ToRead(seen, N) \subseteq ToRead(s, N)
  <2>1. \A q \in Ports : Held(seen, q) \subseteq Held(s, q)
    BY <1>6
  <2> QED
    BY <1>7, <2>1 DEF ToRead
<1>9. CASE p = "mktdata"
  <2>1. ToRead(seen, N) = ToRead(s, N)
    BY <1>6, <1>7, <1>9 DEF ToRead
  <2>2. \A e \in ToHear(s, N) : Announces(e) /\ e # item.body => e \in ToHear(seen, N)
    BY <1>6, <1>9 DEF ToHear
  <2>3. PICK z : z = OnMktdataFrame(seen, item)
    OBVIOUS
  <2>4. z.pt = seen.pt
    BY <1>3, <2>3 DEF OnMktdataFrame
  <2>5. PICK x : x = s.v
    OBVIOUS
  <2>6. /\ z.v.sessionEnd = (x.sessionEnd \/ Announces(item.body))
        /\ z.v.pending = x.pending /\ z.v.valid = x.valid /\ z.v.hadSet = x.hadSet
        /\ z.v.findings = x.findings
    <3>1. z.v = [x EXCEPT !.sessionEnd = @ \/ Carries(item, "endOfSession")]
      BY <1>3, <2>3, <2>5 DEF OnMktdataFrame
    <3>2. Carries(item, "endOfSession") <=> Announces(item.body)
      BY DEF Carries, Announces
    <3> QED
      BY <1>5, <2>5, <3>1, <3>2 DEF Fields
  <2>7. PICK b : b = item.body
    OBVIOUS
  <2>8. Announces(b) => \A y \in ServingOf(ToRead(s, N)) : ~Before(y.at, b.at)
    BY <1>9, <2>7 DEF Uncrossed
  <2>9. Quiet(x, ToRead(s, N), ToHear(s, N), open, idle)
    BY <2>5 DEF Peace
  <2>10. Quiet(z.v, ToRead(s, N), ToHear(seen, N), open, idle)
    BY <2>2, <2>6, <2>7, <2>8, <2>9, QuietHeard
  <2>11. Held(z, "mktdata") = Held(seen, "mktdata") /\ \A q : Held(z, q) = Held(seen, q)
    BY <2>4 DEF Held
  <2>12. ToRead(z, N) = ToRead(seen, N) /\ ToHear(z, N) = ToHear(seen, N)
    BY <2>11 DEF ToRead, ToHear
  <2> QED
    BY <1>2, <1>9, <2>1, <2>3, <2>10, <2>12 DEF Peace
<1>10. CASE p # "mktdata"
  <2>1. PICK z : z = OnRefDataFrame(seen, p, item)
    OBVIOUS
  <2>2. z.pt = seen.pt
    BY <1>3, <2>1 DEF OnRefDataFrame
  <2>3. ToHear(seen, N) = ToHear(s, N)
    BY <1>6, <1>7, <1>10 DEF ToHear
  <2>4. item.body \in ToRead(s, N)
    BY <1>6, <1>10 DEF ToRead
  <2>5. ASSUME Alone
        PROVE  \A z2 \in ToRead(seen, N) : Ahead(item.body, z2) /\ ~Ahead(z2, item.body)
    <3>1. plan.paths = {p}
      BY <1>10, <2>5, SolePath, PortsFinite
    <3>2. ToRead(seen, N) = Held(seen, p) \cup N[p]
      BY <3>1 DEF ToRead
    <3>3. \A z2 \in ToRead(seen, N) : Sooner(p, item.body, z2) /\ ~Sooner(p, z2, item.body)
      BY <1>6, <3>2 DEF Foremost
    <3> QED
      BY <3>1, <3>3 DEF Ahead
  <2>6. Shows(item.body, 1) =>
          \A e \in ToHear(s, N) : Announces(e) => ~Before(e.at, item.body.at)
    BY <1>10 DEF Uncrossed
  <2>7. Quiet(seen.v, ToRead(s, N), ToHear(s, N), open, idle)
    BY <1>3 DEF Peace
  <2>8. Quiet(z.v, ToRead(seen, N), ToHear(s, N), open, idle)
    BY <1>3, <1>5, <1>8, <1>10, <2>1, <2>4, <2>5, <2>6, <2>7, FramePeace
  <2>9. \A q : Held(z, q) = Held(seen, q)
    BY <2>2 DEF Held
  <2>10. ToRead(z, N) = ToRead(seen, N) /\ ToHear(z, N) = ToHear(seen, N)
    BY <2>9 DEF ToRead, ToHear
  <2> QED
    BY <1>2, <1>10, <2>1, <2>3, <2>8, <2>10 DEF Peace
<1> QED
  BY <1>9, <1>10

Apart(q, a, b) == Sooner(q, a, b) /\ ~Sooner(q, b, a)

LEMMA PlacesRise ==
  ASSUME NEW i, NEW j, i.seq \in Seqs, i.copy = 0, j.seq \in Seqs, j.copy = 0,
         Place(i) < Place(j)
  PROVE  i.seq < j.seq
<1> DEFINE k == W + 1
<1>1. W \in Nat /\ i.seq \in Nat /\ j.seq \in Nat
  BY SeqAssumption, WindowAssumption DEF Seqs
<1>2. /\ Place(i) = i.seq * k /\ Place(j) = j.seq * k
      /\ i.seq * k \in Nat /\ j.seq * k \in Nat
  <2>1. i.seq * (W + 1) \in Nat /\ j.seq * (W + 1) \in Nat
    BY <1>1, PlaceOrder
  <2> QED
    BY <2>1 DEF Place
<1>3. i.seq * k <= j.seq * k => i.seq <= j.seq
  BY <1>1, PlaceOrder
<1>4. i.seq # j.seq
  BY <1>2
<1> HIDE DEF k
<1> QED
  BY <1>1, <1>2, <1>3, <1>4

(* The items of a drained buffer, in the order they were sent. *)
LEMMA WalkPeace ==
  ASSUME SoleReader(plan), plan \in Plans, NEW pub, Catalogue(pub),
         NEW s, EraKnown(s, pub), DOMAIN s.pt = Ports,
         NEW p \in Ports, Orderly(s.pt[p]),
         p # "mktdata" => \A i \in s.pt[p].buf : Readable(p, i, pub) /\ Shaped(i.body.msgs),
         NEW N, NEW open, NEW idle, Peace(s, N, open, idle),
         \A i \in s.pt[p].buf : Uncrossed(s, N, p, i.body),
         \A i \in s.pt[p].buf : \A z \in N[p] : Apart(p, i.body, z),
         \A i, j \in s.pt[p].buf : i.seq < j.seq => Apart(p, i.body, j.body)
  PROVE  LET w == Walk(p, s, s.pt[p].buf)
         IN  /\ Peace(w, N, open, idle) /\ w.pt[p].buf = {}
             /\ DOMAIN w.pt = Ports /\ \A q \in Ports : q # p => w.pt[q] = s.pt[q]
<1> DEFINE S == s.pt[p].buf
<1>1. PICK f : IsWalk(f, LastPlace, p, s, S) /\ Walk(p, s, S) = f[LastPlace]
  BY WalkWalks
<1>2. \A n \in -1 .. LastPlace : f[n] = IF n = -1 THEN s ELSE WalkStep(p, f[n - 1], S, n)
  BY <1>1, LastPlaceNat DEF IsWalk
<1>3. /\ \A i \in S : i.seq \in Seqs /\ i.copy = 0
      /\ \A i, j \in S : i.seq = j.seq => i = j
  BY DEF Orderly, IsNew
<1>4. /\ \A i \in S : Place(i) \in 0 .. LastPlace
      /\ \A i, j \in S : Place(i) = Place(j) => i = j
  <2> HIDE DEF S
  <2> QED
    BY <1>3, PlacesApart
<1>5. p # "mktdata" => \A i \in S : Readable(p, i, pub) /\ Shaped(i.body.msgs)
  OBVIOUS
<1>6. /\ \A i \in S : Uncrossed(s, N, p, i.body)
      /\ \A i \in S : \A z \in N[p] : Apart(p, i.body, z)
      /\ \A i, j \in S : Place(i) < Place(j) => Apart(p, i.body, j.body)
  BY <1>3, PlacesRise
<1> DEFINE Others(u) == DOMAIN u.pt = Ports /\ \A q \in Ports : q # p => u.pt[q] = s.pt[q]
           Good(u, n) == /\ EraKnown(u, pub) /\ Peace(u, N, open, idle) /\ Others(u)
                         /\ Orderly(u.pt[p])
                         /\ u.pt[p].buf = {i \in S : Place(i) > n}
<1>7. Good(f[-1], -1)
  <2>1. S = {i \in S : Place(i) > -1}
    BY <1>4
  <2>2. f[-1] = s
    BY <1>2, LastPlaceNat
  <2> QED
    BY <2>1, <2>2
<1> HIDE DEF S
<1>8. ASSUME NEW n \in 0 .. LastPlace, NEW u, u = f[n - 1], Good(u, n - 1)
      PROVE  Good(f[n], n)
  <2>1. f[n] = WalkStep(p, u, S, n)
    BY <1>2, <1>8, LastPlaceNat
  <2>2. \A i \in S : Place(i) > n - 1 <=> Place(i) > n \/ Place(i) = n
    BY <1>4
  <2>3. CASE At(S, n) = {}
    <3>1. f[n] = u
      BY <2>1, <2>3 DEF WalkStep
    <3>2. {i \in S : Place(i) > n - 1} = {i \in S : Place(i) > n}
      BY <2>2, <2>3 DEF At
    <3> QED
      BY <1>8, <3>1, <3>2
  <2>4. CASE At(S, n) # {}
    <3>1. PICK item : item = CHOOSE i \in At(S, n) : TRUE
      OBVIOUS
    <3>2. item \in S /\ Place(item) = n
      BY <2>4, <3>1 DEF At
    <3>3. f[n] = ClassifyItem(p, u, item)
      BY <2>1, <2>4, <3>1 DEF WalkStep
    <3>4. item \in u.pt[p].buf
      BY <1>8, <2>2, <3>2
    <3>5. /\ EraKnown(u, pub) /\ Peace(u, N, open, idle) /\ Others(u)
          /\ Orderly(u.pt[p]) /\ u.pt[p].buf = {i \in S : Place(i) > n - 1}
      BY <1>8
    <3>6. p # "mktdata" => Readable(p, item, pub) /\ Shaped(item.body.msgs)
      BY <1>5, <3>2
    <3>7. \A i \in S : i = item <=> Place(i) = n
      BY <1>4, <3>2
    <3>8. u.pt[p].buf \ {item} = {i \in S : Place(i) > n}
      <4>1. \A i \in S : Place(i) > n - 1 /\ i # item <=> Place(i) > n
        <5>1. \A i \in S : Place(i) > n => Place(i) # n
          BY <1>4
        <5> QED
          BY <2>2, <3>7, <5>1
      <4> QED
        BY <3>5, <4>1
    <3>9. Uncrossed(u, N, p, item.body)
      <4>1. Uncrossed(s, N, p, item.body)
        BY <1>6, <3>2
      <4>2. plan.paths \subseteq Ports \ {"mktdata"} /\ "mktdata" \in Ports
        BY RefPlansAssumption, PlansAssumption DEF Paths
      <4>3. \A q \in Ports : q # p => Held(u, q) = Held(s, q)
        BY <3>5 DEF Held
      <4>4. CASE p = "mktdata"
        <5>1. ToRead(u, N) = ToRead(s, N)
          BY <4>2, <4>3, <4>4 DEF ToRead
        <5> QED
          BY <4>1, <4>4, <5>1 DEF Uncrossed
      <4>5. CASE p # "mktdata"
        <5>1. ToHear(u, N) = ToHear(s, N)
          BY <4>2, <4>3, <4>5 DEF ToHear
        <5> QED
          BY <4>1, <4>5, <5>1 DEF Uncrossed
      <4> QED
        BY <4>4, <4>5
    <3>10. Foremost(u, N, p, item)
      <4>1. \A z \in N[p] : Apart(p, item.body, z)
        BY <1>6, <3>2
      <4>2. \A j \in u.pt[p].buf \ {item} : j \in S /\ Place(item) < Place(j)
        BY <1>4, <3>2, <3>8
      <4>3. \A j \in u.pt[p].buf \ {item} : Apart(p, item.body, j.body)
        BY <1>6, <3>2, <4>2
      <4> QED
        BY <4>1, <4>3 DEF Foremost, Apart
    <3> DEFINE w == ClassifyItem(p, u, item)
    <3>11. Peace(w, N, open, idle)
      BY <3>4, <3>5, <3>6, <3>9, <3>10, ItemPeace DEF Readable
    <3>12. EraKnown(w, pub) /\ OnlyPort(u, w, p) /\ w.pt[p] = Popped(u.pt[p], item)
      BY <3>5, <3>6, ItemKeeps
    <3> HIDE DEF w
    <3>13. Orderly(w.pt[p]) /\ w.pt[p].buf = u.pt[p].buf \ {item}
      BY <3>4, <3>5, <3>12, PoppedOrderly
    <3>14. Others(w)
      BY <3>5, <3>12 DEF OnlyPort
    <3> QED
      BY <3>3, <3>8, <3>11, <3>12, <3>13, <3>14 DEF w
  <2> QED
    BY <2>3, <2>4
<1> DEFINE Bad == {n \in 0 .. LastPlace : ~Good(f[n], n)}
<1> HIDE DEF Good
<1>9. Bad = {}
  <2> SUFFICES ASSUME Bad # {} PROVE FALSE
    OBVIOUS
  <2>1. PICK n \in Bad : \A k \in Bad : n <= k
    <3>1. Bad \in SUBSET Nat
      OBVIOUS
    <3> HIDE DEF Bad
    <3> QED
      BY <3>1, LeastOf
  <2>2. Good(f[n - 1], n - 1)
    <3>1. CASE n = 0
      BY <1>7, <3>1
    <3>2. CASE n # 0
      <4>1. n - 1 \in 0 .. LastPlace /\ n - 1 \notin Bad
        BY <2>1, <3>2, LastPlaceNat
      <4> QED
        BY <4>1
    <3> QED
      BY <3>1, <3>2
  <2> QED
    BY <1>8, <2>1, <2>2
<1>10. Good(f[LastPlace], LastPlace)
  BY <1>9, LastPlaceNat
<1>11. {i \in S : Place(i) > LastPlace} = {}
  BY <1>4, LastPlaceNat
<1> QED
  BY <1>1, <1>10, <1>11 DEF Good, S

-----------------------------------------------------------------------------
(* A frame tells when it was sent: of each port, in its order, and those   *)
(* buffered before those under way.                                        *)
SignedBy(e, s, q, x) ==
  /\ x.body.at.era \in 0 .. e /\ x.rc = ResetCountOf(x.body.at.era)
  /\ x.seq \in Nat /\ x.body.at.sent[q] = x.seq
  /\ x.body.at.era = e =>
       /\ x.seq < s[q]
       /\ \A r \in Ports : x.body.at.sent[r] \in Nat /\ x.body.at.sent[r] <= s[r]
  /\ q # "mktdata" => Shaped(x.body.msgs)

SignedInv ==
  /\ \A n \in DOMAIN net : SignedBy(feedEra, sent, net[n].port, net[n])
  /\ \A m, n \in DOMAIN net :
       m < n /\ net[m].port = net[n].port => Sooner(net[n].port, net[m].body, net[n].body)
  /\ \A q \in Ports : \A i \in pt[q].buf :
       /\ SignedBy(feedEra, sent, q, i)
       /\ \A n \in DOMAIN net : net[n].port = q => Sooner(q, i.body, net[n].body)

LEMMA SignedStays ==
  ASSUME feedEra \in Nat, sent \in [Ports -> Nat], NEW q \in Ports,
         \/ feedEra' = feedEra /\ \A r \in Ports : sent'[r] \in Nat /\ sent[r] <= sent'[r]
         \/ feedEra' = feedEra + 1,
         NEW x, SignedBy(feedEra, sent, q, x)
  PROVE  SignedBy(feedEra', sent', q, x)
<1>1. CASE feedEra' = feedEra /\ \A r \in Ports : sent'[r] \in Nat /\ sent[r] <= sent'[r]
  <2>1. ASSUME x.body.at.era = feedEra'
        PROVE  /\ x.seq < sent'[q]
               /\ \A r \in Ports : x.body.at.sent[r] \in Nat /\ x.body.at.sent[r] <= sent'[r]
    <3>1. /\ x.seq \in Nat /\ x.seq < sent[q]
          /\ \A r \in Ports : x.body.at.sent[r] \in Nat /\ x.body.at.sent[r] <= sent[r]
      BY <1>1, <2>1 DEF SignedBy
    <3>2. \A r \in Ports : sent[r] \in Nat /\ sent'[r] \in Nat /\ sent[r] <= sent'[r]
      BY <1>1
    <3> QED
      BY <3>1, <3>2
  <2> QED
    BY <1>1, <2>1 DEF SignedBy
<1>2. CASE feedEra' = feedEra + 1
  <2>1. x.body.at.era \in 0 .. feedEra' /\ x.body.at.era # feedEra'
    BY <1>2 DEF SignedBy
  <2> QED
    BY <2>1 DEF SignedBy
<1> QED
  BY <1>1, <1>2

LEMMA SignedShared ==
  ASSUME NEW q, NEW x, NEW y, y.rc = x.rc, y.seq = x.seq, y.body = x.body, SignedBy(feedEra, sent, q, x)
  PROVE  SignedBy(feedEra, sent, q, y)
BY DEF SignedBy

(* One frame more under way. *)
LEMMA NetGrows ==
  ASSUME NetInv, NEW p \in Ports, NEW msgs, Put(p, msgs)
  PROVE  LET f == [port |-> p, rc |-> ResetCountOf(feedEra), seq |-> sent[p],
                   body |-> [msgs |-> msgs, at |-> Now]]
         IN  /\ Len(net) \in Nat /\ DOMAIN net = 1 .. Len(net)
             /\ DOMAIN net' = 1 .. Len(net) + 1 /\ net'[Len(net) + 1] = f
             /\ \A n \in DOMAIN net : net'[n] = net[n]
<1>1. PICK f : f = [port |-> p, rc |-> ResetCountOf(feedEra), seq |-> sent[p],
                    body |-> [msgs |-> msgs, at |-> Now]]
  OBVIOUS
<1> DEFINE S == {net[n] : n \in DOMAIN net} \cup {f}
<1>2. net' = Append(net, f)
  BY <1>1 DEF Put
<1>3. net \in Seq({net[n] : n \in DOMAIN net})
  BY DEF NetInv
<1>4. Len(net) \in Nat /\ DOMAIN net = 1 .. Len(net)
  BY <1>3, LenProperties
<1>5. net \in Seq(S) /\ f \in S
  BY <1>3, <1>4, SeqDef
<1> HIDE DEF S
<1>6. /\ net' \in Seq(S) /\ Len(net') = Len(net) + 1 /\ net'[Len(net) + 1] = f
      /\ \A n \in 1 .. Len(net) : net'[n] = net[n]
  BY <1>2, <1>5, AppendProperties
<1>7. DOMAIN net' = 1 .. Len(net) + 1
  BY <1>6, LenProperties
<1> QED
  BY <1>1, <1>4, <1>6, <1>7

(* A frame of the port sent before is sooner than one sent now. *)
LEMMA SoonerThanNow ==
  ASSUME feedEra \in Nat, sent \in [Ports -> Nat], NEW q \in Ports, NEW x, SignedBy(feedEra, sent, q, x),
         NEW b, b.at = Now
  PROVE  Sooner(q, x.body, b) /\ ~Sooner(q, b, x.body) /\ Before(x.body.at, b.at)
<1>1. b.at.era = feedEra /\ b.at.sent = sent
  BY DEF Now
<1>2. x.body.at.era \in 0 .. feedEra /\ x.seq \in Nat /\ x.body.at.sent[q] = x.seq
  BY DEF SignedBy
<1>3. CASE x.body.at.era # feedEra
  BY <1>1, <1>2, <1>3 DEF Sooner, Before
<1>4. CASE x.body.at.era = feedEra
  <2>1. /\ x.seq < sent[q] /\ sent[q] \in Nat
        /\ \A r \in Ports : x.body.at.sent[r] <= sent[r]
    BY <1>4 DEF SignedBy
  <2>2. x.body.at.sent # sent
    BY <1>2, <2>1
  <2> QED
    BY <1>1, <1>2, <1>4, <2>1, <2>2 DEF Sooner, Before
<1> QED
  BY <1>3, <1>4

(* The publisher goes on. *)
LEMMA PublisherSigned ==
  ASSUME RefInv, SignedInv, running, UNCHANGED <<pt, plan>>,
         \/ \E p \in Ports : \E msgs : Put(p, msgs) /\ (p # "mktdata" => Shaped(msgs))
         \/ UNCHANGED <<net, sent, feedEra>>
         \/ NextEra
  PROVE  SignedInv'
<1>1. /\ NetInv /\ feedEra \in Nat /\ sent \in [Ports -> Nat]
      /\ \A n \in DOMAIN net : net[n].port \in Ports
  BY PlansAssumption DEF RefInv, PubInv, FlowInv, NetInv
<1>2. ASSUME \A q \in Ports : \A x : SignedBy(feedEra, sent, q, x) => SignedBy(feedEra', sent', q, x), net' = net
      PROVE  SignedInv'
  <2>1. \A n \in DOMAIN net : SignedBy(feedEra', sent', net[n].port, net[n])
    BY <1>1, <1>2 DEF SignedInv
  <2>2. \A q \in Ports : \A i \in pt[q].buf : SignedBy(feedEra', sent', q, i)
    BY <1>2 DEF SignedInv
  <2> QED
    BY <1>2, <2>1, <2>2 DEF SignedInv, SignedBy, Sooner
<1>3. CASE UNCHANGED <<net, sent, feedEra>>
  BY <1>1, <1>2, <1>3, SignedStays
<1>4. CASE NextEra
  <2>1. \A q \in Ports : \A x : SignedBy(feedEra, sent, q, x) => SignedBy(feedEra', sent', q, x)
    BY <1>1, <1>4, SignedStays DEF NextEra
  <2> QED
    BY <1>2, <1>4, <2>1 DEF NextEra
<1>5. ASSUME NEW p \in Ports, NEW msgs, Put(p, msgs), p # "mktdata" => Shaped(msgs)
      PROVE  SignedInv'
  <2>1. PICK f : f = [port |-> p, rc |-> ResetCountOf(feedEra), seq |-> sent[p],
                      body |-> [msgs |-> msgs, at |-> Now]]
    OBVIOUS
  <2>2. /\ Len(net) \in Nat /\ DOMAIN net = 1 .. Len(net)
        /\ DOMAIN net' = 1 .. Len(net) + 1 /\ net'[Len(net) + 1] = f
        /\ \A n \in DOMAIN net : net'[n] = net[n]
    BY <1>1, <1>5, <2>1, NetGrows
  <2>3. sent' = [sent EXCEPT ![p] = @ + 1] /\ feedEra' = feedEra
    BY <1>5 DEF Put
  <2>4. \A r \in Ports : sent'[r] \in Nat /\ sent[r] <= sent'[r]
    BY <1>1, <2>3
  <2>5. \A q \in Ports : \A x : SignedBy(feedEra, sent, q, x) => SignedBy(feedEra', sent', q, x)
    BY <1>1, <2>3, <2>4, SignedStays
  <2>6. f.port = p /\ f.rc = ResetCountOf(feedEra) /\ f.seq = sent[p]
        /\ f.body.msgs = msgs /\ f.body.at = Now
        /\ f.body.at.era = feedEra /\ f.body.at.sent = sent
    BY <2>1 DEF Now
  <2>7. SignedBy(feedEra', sent', p, f)
    <3>1. f.seq \in Nat /\ f.seq < sent'[p] /\ f.body.at.era \in 0 .. feedEra'
      BY <1>1, <2>3, <2>6
    <3>2. f.rc = ResetCountOf(f.body.at.era)
      BY <2>6
    <3>3. \A r \in Ports : f.body.at.sent[r] \in Nat /\ f.body.at.sent[r] <= sent'[r]
      BY <1>1, <2>4, <2>6
    <3> QED
      BY <1>5, <2>6, <3>1, <3>2, <3>3 DEF SignedBy
  <2>8. \A x : SignedBy(feedEra, sent, p, x) => Sooner(p, x.body, f.body)
    BY <1>1, <2>6, SoonerThanNow
  <2>9. \A n \in DOMAIN net' : \/ net'[n] = f /\ n = Len(net) + 1
                               \/ n \in DOMAIN net /\ net'[n] = net[n]
    <3>1. \A n \in 1 .. Len(net) + 1 : n = Len(net) + 1 \/ n \in 1 .. Len(net)
      BY <2>2
    <3> QED
      BY <2>2, <3>1
  <2>10. \A n \in DOMAIN net' : SignedBy(feedEra', sent', net'[n].port, net'[n])
    <3>1. \A n \in DOMAIN net : SignedBy(feedEra', sent', net[n].port, net[n])
      BY <1>1, <2>5 DEF SignedInv
    <3> QED
      BY <2>6, <2>7, <2>9, <3>1
  <2>11. \A m, n \in DOMAIN net' : m < n /\ net'[m].port = net'[n].port
                                     => Sooner(net'[n].port, net'[m].body, net'[n].body)
    <3> SUFFICES ASSUME NEW m \in DOMAIN net', NEW n \in DOMAIN net', m < n,
                        net'[m].port = net'[n].port
                 PROVE  Sooner(net'[n].port, net'[m].body, net'[n].body)
      OBVIOUS
    <3>1. m \in DOMAIN net /\ net'[m] = net[m]
      BY <2>2
    <3>2. CASE n \in DOMAIN net
      BY <2>2, <3>1, <3>2 DEF SignedInv
    <3>3. CASE n = Len(net) + 1
      <4>1. SignedBy(feedEra, sent, p, net[m])
        BY <2>2, <2>6, <3>1, <3>3 DEF SignedInv
      <4> QED
        BY <2>2, <2>6, <2>8, <3>1, <3>3, <4>1
    <3> QED
      BY <2>2, <3>2, <3>3
  <2>12. ASSUME NEW q \in Ports, NEW i \in pt[q].buf
         PROVE  /\ SignedBy(feedEra', sent', q, i)
                /\ \A n \in DOMAIN net' : net'[n].port = q => Sooner(q, i.body, net'[n].body)
    <3>1. SignedBy(feedEra, sent, q, i) /\ \A n \in DOMAIN net : net[n].port = q => Sooner(q, i.body, net[n].body)
      BY DEF SignedInv
    <3>2. SignedBy(feedEra', sent', q, i)
      BY <2>5, <3>1
    <3> QED
      BY <2>6, <2>8, <2>9, <3>1, <3>2
  <2> QED
    BY <2>10, <2>11, <2>12 DEF SignedInv, SignedBy, Sooner
<1> QED
  BY <1>3, <1>4, <1>5

(* One frame less under way; the others keep their order. *)
LEMMA NetWithout ==
  ASSUME NetInv, NEW n \in DOMAIN net, net' = RemoveAt(net, n)
  PROVE  /\ \A i \in DOMAIN net' : \E j \in DOMAIN net : j # n /\ net'[i] = net[j]
         /\ \A j \in DOMAIN net : j # n => \E i \in DOMAIN net' : net'[i] = net[j]
         /\ \A i, k \in DOMAIN net' : i < k =>
              \E a, b \in DOMAIN net : a < b /\ net'[i] = net[a] /\ net'[k] = net[b]
<1> DEFINE S == {net[m] : m \in DOMAIN net}
           at(i) == IF i < n THEN i ELSE i + 1
<1>1. net \in Seq(S) /\ Len(net) \in Nat /\ DOMAIN net = 1 .. Len(net)
  <2>1. net \in Seq(S)
    BY DEF NetInv
  <2> HIDE DEF S
  <2> QED
    BY <2>1, LenProperties
<1> HIDE DEF S
<1>2. /\ DOMAIN net' = 1 .. Len(net) - 1
      /\ \A i \in DOMAIN net' : net'[i] = net[at(i)]
  BY <1>1, OneRemoved
<1>3. \A i \in DOMAIN net' : at(i) \in DOMAIN net /\ at(i) # n
  BY <1>1, <1>2
<1>4. \A i, k \in DOMAIN net' : i < k => at(i) < at(k)
  BY <1>1, <1>2
<1>5. \A j \in DOMAIN net : j # n => \E i \in DOMAIN net' : at(i) = j
  <2> SUFFICES ASSUME NEW j \in DOMAIN net, j # n
               PROVE  \E i \in DOMAIN net' : at(i) = j
    OBVIOUS
  <2>1. CASE j < n
    BY <1>1, <1>2, <2>1
  <2>2. CASE j > n
    <3>1. j - 1 \in DOMAIN net' /\ at(j - 1) = j
      BY <1>1, <1>2, <2>2
    <3> QED
      BY <3>1
  <2> QED
    BY <1>1, <2>1, <2>2
<1> HIDE DEF at
<1> QED
  BY <1>2, <1>3, <1>4, <1>5

LEMMA LoseSigned ==
  ASSUME NetInv, SignedInv, NEW n \in DOMAIN net, net' = RemoveAt(net, n),
         UNCHANGED <<feedEra, sent>>, \A q \in Ports : pt'[q].buf = pt[q].buf
  PROVE  SignedInv'
<1>1. /\ \A i \in DOMAIN net' : \E j \in DOMAIN net : j # n /\ net'[i] = net[j]
      /\ \A i, k \in DOMAIN net' : i < k =>
           \E a, b \in DOMAIN net : a < b /\ net'[i] = net[a] /\ net'[k] = net[b]
  BY NetWithout
<1>2. \A q, x : SignedBy(feedEra, sent, q, x) => SignedBy(feedEra', sent', q, x)
  BY DEF SignedBy
<1>3. \A i \in DOMAIN net' : SignedBy(feedEra', sent', net'[i].port, net'[i])
  BY <1>1, <1>2 DEF SignedInv
<1>4. \A i, k \in DOMAIN net' :
        i < k /\ net'[i].port = net'[k].port => Sooner(net'[k].port, net'[i].body, net'[k].body)
  BY <1>1 DEF SignedInv
<1>5. \A q \in Ports : \A i \in pt'[q].buf :
        /\ SignedBy(feedEra', sent', q, i)
        /\ \A m \in DOMAIN net' : net'[m].port = q => Sooner(q, i.body, net'[m].body)
  BY <1>1, <1>2 DEF SignedInv
<1> QED
  BY <1>3, <1>4, <1>5 DEF SignedInv, SignedBy, Sooner

(* The first frame under way to its port is handed over: it may be         *)
(* buffered behind the others.                                             *)
LEMMA DeliverSigned ==
  ASSUME NetInv, SignedInv, plan \in Plans, NEW n \in DOMAIN net, Arriving(n), net' = RemoveAt(net, n),
         UNCHANGED <<feedEra, sent>>, NEW p, p = net[n].port, p \in Ports,
         \A q \in Ports : q # p => pt'[q] = pt[q],
         \A i \in pt'[p].buf :
           i \in pt[p].buf \/ (i.rc = net[n].rc /\ i.seq = net[n].seq /\ i.body = net[n].body)
  PROVE  SignedInv'
<1>1. /\ \A i \in DOMAIN net' : \E j \in DOMAIN net : j # n /\ net'[i] = net[j]
      /\ \A i, k \in DOMAIN net' : i < k =>
           \E a, b \in DOMAIN net : a < b /\ net'[i] = net[a] /\ net'[k] = net[b]
  BY NetWithout
<1>2. \A q, x : SignedBy(feedEra, sent, q, x) => SignedBy(feedEra', sent', q, x)
  BY DEF SignedBy
<1>3. \A i \in DOMAIN net' : SignedBy(feedEra', sent', net'[i].port, net'[i])
  BY <1>1, <1>2 DEF SignedInv
<1>4. \A i, k \in DOMAIN net' :
        i < k /\ net'[i].port = net'[k].port => Sooner(net'[k].port, net'[i].body, net'[k].body)
  BY <1>1 DEF SignedInv
<1>5. \A j \in DOMAIN net : j # n /\ net[j].port = p => n < j
  <2>1. net \in Seq({net[m] : m \in DOMAIN net})
    BY DEF NetInv
  <2>2. Len(net) \in Nat /\ DOMAIN net = 1 .. Len(net)
    BY <2>1, LenProperties
  <2> QED
    BY <2>2, PlansAssumption DEF Arriving
<1>6. \A j \in DOMAIN net : j # n /\ net[j].port = p => Sooner(p, net[n].body, net[j].body)
  BY <1>5 DEF SignedInv
<1>7. ASSUME NEW q \in Ports, NEW i \in pt'[q].buf
      PROVE  /\ SignedBy(feedEra', sent', q, i)
             /\ \A m \in DOMAIN net' : net'[m].port = q => Sooner(q, i.body, net'[m].body)
  <2>1. CASE i \in pt[q].buf
    BY <1>1, <1>2, <2>1 DEF SignedInv
  <2>2. CASE i \notin pt[q].buf
    <3>1. q = p /\ i.rc = net[n].rc /\ i.seq = net[n].seq /\ i.body = net[n].body
      BY <1>7, <2>2
    <3>2. SignedBy(feedEra, sent, q, net[n])
      BY <3>1 DEF SignedInv
    <3>3. SignedBy(feedEra', sent', q, i)
      BY <1>2, <3>1, <3>2, SignedShared
    <3> QED
      BY <1>1, <1>6, <3>1, <3>3
  <2> QED
    BY <2>1, <2>2
<1> QED
  BY <1>3, <1>4, <1>7 DEF SignedInv, SignedBy, Sooner

LEMMA SoonerApart ==
  ASSUME feedEra \in Nat, NEW q, NEW a, NEW b, SignedBy(feedEra, sent, q, a),
         SignedBy(feedEra, sent, q, b), Sooner(q, a.body, b.body)
  PROVE  Apart(q, a.body, b.body)
<1>1. /\ a.body.at.era \in Int /\ b.body.at.era \in Int
      /\ a.body.at.sent[q] \in Int /\ b.body.at.sent[q] \in Int
  BY DEF SignedBy
<1> QED
  BY <1>1, SoonerOnce DEF Apart

(* Frames of one Reset Count are in the order of their numbers. *)
LEMMA InSeries ==
  ASSUME PubInv, FewChanges(plan), NEW q, NEW a, NEW b, SignedBy(feedEra, sent, q, a),
         SignedBy(feedEra, sent, q, b), a.rc = b.rc, a.seq < b.seq
  PROVE  Apart(q, a.body, b.body)
<1>1. feedEra \in 0 .. plan.resets /\ plan.resets \in Nat
  BY PlansAssumption DEF PubInv
<1>2. a.body.at.era \in 0 .. plan.resets /\ b.body.at.era \in 0 .. plan.resets
  BY <1>1 DEF SignedBy
<1>3. ResetCountOf(a.body.at.era) = ResetCountOf(b.body.at.era)
  BY DEF SignedBy
<1>4. a.body.at.era = b.body.at.era
  BY <1>2, <1>3 DEF FewChanges
<1>5. a.body.at.sent[q] = a.seq /\ b.body.at.sent[q] = b.seq /\ a.seq \in Nat /\ b.seq \in Nat
  BY DEF SignedBy
<1> QED
  BY <1>2, <1>4, <1>5 DEF Apart, Sooner

(* Peace between states that hold the same, or less. *)
LEMMA PeaceMoves ==
  ASSUME NEW s, NEW N, NEW open, NEW idle, Peace(s, N, open, idle),
         NEW u, u.v = s.v, NEW N2,
         \A q \in plan.paths : Held(u, q) \cup N2[q] \subseteq Held(s, q) \cup N[q],
         \A e \in ToHear(s, N) : Announces(e) => e \in ToHear(u, N2)
  PROVE  Peace(u, N2, open, idle)
<1>1. ToRead(u, N2) \subseteq ToRead(s, N)
  BY DEF ToRead
<1>2. Quiet(u.v, ToRead(s, N), ToHear(s, N), open, idle)
  BY DEF Peace
<1>3. Quiet(u.v, ToRead(u, N2), ToHear(u, N2), open, idle)
  BY <1>1, <1>2, QuietShrinks
<1> QED
  BY <1>3 DEF Peace

(* The bodies under way to each port. *)
UnderWay == [q \in Ports |-> {net[m].body : m \in {k \in DOMAIN net : net[k].port = q}}]

FrameOf(x) == [rc |-> x.rc, seq |-> x.seq, body |-> x.body]

(* What is classified overtakes nothing that waits on another port.        *)
LEMMA NothingCrossed ==
  ASSUME NEW C, NEW A, CrossedShutdown(Overtakes(C, A)) = {}, NEW c \in C, NEW w \in A,
         Before(w.body.at, c.body.at)
  PROVE  ~(Announces(c.body) /\ Shows(w.body, 1)) /\ ~(Announces(w.body) /\ Shows(c.body, 1))
<1> DEFINE pairs == Overtakes(C, A)
           x == <<c, w>>
<1>1. x \in pairs /\ x[1] = c /\ x[2] = w
  BY DEF Overtakes
<1> HIDE DEF pairs, x
<1>2. \A f : Carries(f, "endOfSession") <=> Announces(f.body)
  BY DEF Carries, Announces
<1>3. \A f : (\E m \in ToSet(f.body.msgs) : m.type = "summary" /\ m.valid = 1) <=> Shows(f.body, 1)
  BY DEF Shows
<1>4. CrossedShutdown(pairs) = {}
  BY DEF pairs
<1> QED
  BY <1>1, <1>2, <1>3, <1>4 DEF CrossedShutdown

LEMMA DeliveryUncrossed ==
  ASSUME plan \in Plans, NEW p \in Ports, NEW d, CrossedShutdown(PairsOnDelivery(p, d)) = {},
         NEW c \in (Frames(pt[p].buf) \cup {d}) \ Frames(pt'[p].buf),
         NEW s, \A q \in Ports : q # p => s.pt[q] = pt[q],
         NEW N, \A q \in Ports : q # p => N[q] = UnderWay[q]
  PROVE  Uncrossed(s, N, p, c.body)
<1> DEFINE C == (Frames(pt[p].buf) \cup {d}) \ Frames(pt'[p].buf)
           A == UNION {WaitingOn(q) : q \in Ports \ {p}}
<1>1. CrossedShutdown(Overtakes(C, A)) = {} /\ c \in C
  BY DEF PairsOnDelivery
<1>2. ASSUME NEW q \in Ports, q # p, NEW z \in Held(s, q) \cup N[q]
      PROVE  \E w \in A : w.body = z
  <2>1. CASE z \in Held(s, q)
    <3>1. PICK i \in pt[q].buf : z = i.body
      BY <1>2, <2>1 DEF Held
    <3>2. FrameOf(i) \in Frames(pt[q].buf) /\ FrameOf(i).body = z
      BY <3>1 DEF Frames, FrameOf
    <3> QED
      BY <1>2, <3>2 DEF WaitingOn
  <2>2. CASE z \in N[q]
    <3>1. PICK m \in DOMAIN net : net[m].port = q /\ z = net[m].body
      BY <1>2, <2>2 DEF UnderWay
    <3>2. net[m] \in ToSet(net)
      BY <3>1 DEF ToSet
    <3> DEFINE Y == {x \in ToSet(net) : x.port = q}
    <3>3. net[m] \in Y
      BY <3>1, <3>2
    <3>6. WaitingOn(q) = Frames(pt[q].buf) \cup Frames(Y)
      BY DEF WaitingOn
    <3>7. WaitingOn(q) \subseteq A
      BY <1>2
    <3>4. Frames(Y) \subseteq A
      BY <3>6, <3>7
    <3> HIDE DEF Y, A
    <3>5. FrameOf(net[m]) \in Frames(Y) /\ FrameOf(net[m]).body = z
      BY <3>1, <3>3 DEF Frames, FrameOf
    <3> QED
      BY <3>4, <3>5
  <2> QED
    BY <1>2, <2>1, <2>2
<1> HIDE DEF C, A
<1>3. \A w \in A : Before(w.body.at, c.body.at) =>
        ~(Announces(c.body) /\ Shows(w.body, 1)) /\ ~(Announces(w.body) /\ Shows(c.body, 1))
  BY <1>1, NothingCrossed
<1>4. plan.paths \subseteq Ports /\ "mktdata" \notin plan.paths /\ "mktdata" \in Ports
  BY RefPlansAssumption, PlansAssumption DEF Paths
<1>5. CASE p = "mktdata"
  <2>1. \A z \in ToRead(s, N) : \E w \in A : w.body = z
    BY <1>2, <1>4, <1>5 DEF ToRead
  <2> QED
    BY <1>3, <1>5, <2>1 DEF Uncrossed, ServingOf
<1>6. CASE p # "mktdata"
  <2>1. \A z \in ToHear(s, N) : \E w \in A : w.body = z
    BY <1>2, <1>4, <1>6 DEF ToHear
  <2> QED
    BY <1>3, <1>6, <2>1 DEF Uncrossed
<1> QED
  BY <1>5, <1>6

UnderWayBut(n) ==
  [q \in Ports |-> {net[m].body : m \in {k \in DOMAIN net : k # n /\ net[k].port = q}}]

(* The order of the frames of a port, when the first under way to it is    *)
(* handed over.                                                            *)
LEMMA DeliveryOrder ==
  ASSUME PubInv, NetInv, SignedInv, FewChanges(plan), NEW n \in DOMAIN net, Arriving(n),
         NEW p \in Ports, p = net[n].port
  PROVE  /\ \A i \in pt[p].buf : \A z \in UnderWay[p] : Apart(p, i.body, z)
         /\ \A z \in UnderWayBut(n)[p] : Apart(p, net[n].body, z)
         /\ \A i, j \in pt[p].buf : i.rc = j.rc /\ i.seq < j.seq => Apart(p, i.body, j.body)
<1>1. feedEra \in Nat /\ plan \in Plans
  BY PlansAssumption DEF PubInv
<1>2. \A m \in DOMAIN net : net[m].port = p => SignedBy(feedEra, sent, p, net[m])
  BY DEF SignedInv
<1>3. \A i \in pt[p].buf : SignedBy(feedEra, sent, p, i)
  BY DEF SignedInv
<1>4. ASSUME NEW i \in pt[p].buf, NEW z \in UnderWay[p]
      PROVE  Apart(p, i.body, z)
  <2>1. PICK m \in DOMAIN net : net[m].port = p /\ z = net[m].body
    BY <1>4 DEF UnderWay
  <2>2. Sooner(p, i.body, net[m].body)
    BY <1>4, <2>1 DEF SignedInv
  <2> QED
    BY <1>1, <1>2, <1>3, <2>1, <2>2, SoonerApart
<1>5. \A m \in DOMAIN net : m # n /\ net[m].port = p => n < m
  <2>1. net \in Seq({net[m] : m \in DOMAIN net})
    BY DEF NetInv
  <2>2. Len(net) \in Nat /\ DOMAIN net = 1 .. Len(net)
    BY <2>1, LenProperties
  <2> QED
    BY <1>1, <2>2, PlansAssumption DEF Arriving
<1>6. ASSUME NEW z \in UnderWayBut(n)[p]
      PROVE  Apart(p, net[n].body, z)
  <2>1. PICK m \in DOMAIN net : m # n /\ net[m].port = p /\ z = net[m].body
    BY <1>6 DEF UnderWayBut
  <2>2. Sooner(p, net[n].body, net[m].body)
    BY <1>5, <2>1 DEF SignedInv
  <2> QED
    BY <1>1, <1>2, <2>1, <2>2, SoonerApart
<1>7. ASSUME NEW i \in pt[p].buf, NEW j \in pt[p].buf, i.rc = j.rc, i.seq < j.seq
      PROVE  Apart(p, i.body, j.body)
  BY <1>3, <1>7, InSeries
<1> QED
  BY <1>4, <1>6, <1>7

(* Engine.Process of a frame under way. *)
LEMMA ProcessedPeace ==
  ASSUME RefInv, running, HeardInv, SignedInv, SoleReader(plan), FewChanges(plan),
         NEW n \in DOMAIN net, Arriving(n), NEW p \in Ports, p = net[n].port,
         NEW d, d = [rc |-> net[n].rc, seq |-> net[n].seq, body |-> net[n].body],
         FrameFrom(p, d), d.rc \in ResetCounts, d.seq \in Seqs,
         \A i \in pt[p].buf : i.rc = d.rc => i.seq # d.seq,
         \A a \in pt[p].accepted : pt[p].era = d.rc => a.seq # d.seq,
         ~Quarantines(p, d), pt' = Processed(p, d).pt,
         CrossedShutdown(PairsOnDelivery(p, d)) = {},
         NEW open, NEW idle, Peace(Engine, UnderWay, open, idle)
  PROVE  Peace(Processed(p, d), UnderWayBut(n), open, idle)
<1> DEFINE o       == Opened(p, d)
           item    == [rc |-> d.rc, seq |-> d.seq, body |-> d.body, copy |-> 0]
           drained == IF Advances(p, d) THEN pt[p].buf ELSE {}
           start   == [pt |-> pt, ext |-> Arrived(p, d), v |-> v]
           old     == Walk(p, start, drained)
           pushed  == Push(o, d)
           late    == Advances(p, d) /\ Late(pt[p], d)
           new     == [old EXCEPT !.pt[p] = pushed, !.ext[p] = Tainted(@, late)]
           s       == Processed(p, d)
<1>1. /\ PubInv /\ FlowInv /\ EraKnown(Engine, published) /\ Catalogue(published)
      /\ plan \in Plans /\ DOMAIN pt = Ports /\ NetInv
  BY PublishedIsCatalogue DEF RefInv, FlowInv, IntakeInv, PubInv
<1>2. /\ DOMAIN o = TrackerFields /\ o.era = d.rc
      /\ o.buf \subseteq pt[p].buf /\ \A i \in o.buf : i.rc = d.rc
  BY <1>1, OpenedOf DEF FlowInv, IntakeInv, BufferInv
<1>3. /\ Advances(p, d) => o.buf = {}
      /\ ~Advances(p, d) => o.buf = pt[p].buf
      /\ o.accepted = {} \/ (o.accepted = pt[p].accepted /\ d.rc = pt[p].era)
  BY OpenedKeeps DEF HeardInv, Heard, Orderly
<1>4. Orderly(pt[p]) /\ (p # "mktdata" => \A i \in pt[p].buf : Readable(p, i, published))
  BY <1>1 DEF HeardInv, Heard, FlowInv, BufferInv, FrameFrom
<1>5. /\ EraKnown(start, published) /\ start.pt = pt /\ start.v = v
  BY <1>1, ArrivedKnown
<1>6. /\ d.rc = net[n].rc /\ d.seq = net[n].seq /\ d.body = net[n].body
      /\ item.rc = d.rc /\ item.seq = d.seq /\ item.body = d.body /\ item.copy = 0
      /\ FrameOf(item) = d
  BY DEF FrameOf
<1>7. /\ \A i \in pt[p].buf : SignedBy(feedEra, sent, p, i)
      /\ SignedBy(feedEra, sent, p, net[n])
  BY DEF SignedInv
<1>8. /\ \A i \in pt[p].buf : \A z \in UnderWay[p] : Apart(p, i.body, z)
      /\ \A z \in UnderWayBut(n)[p] : Apart(p, d.body, z)
      /\ \A i, j \in pt[p].buf : i.rc = j.rc /\ i.seq < j.seq => Apart(p, i.body, j.body)
  BY <1>1, <1>6, DeliveryOrder
<1>9. pushed = [o EXCEPT !.buf = o.buf \cup {item}]
  <2>1. \A i \in o.buf : i.seq # d.seq
    BY <1>2
  <2>2. "buf" \in DOMAIN o
    BY <1>2 DEF TrackerFields
  <2> HIDE DEF o
  <2> QED
    BY <2>1, <2>2, PushedNew
<1> HIDE DEF o, item
<1>10. /\ DOMAIN pushed = TrackerFields /\ pushed.buf = o.buf \cup {item}
       /\ pushed.accepted = o.accepted
  <2> HIDE DEF pushed
  <2> QED
    BY <1>2, <1>9 DEF TrackerFields
<1> HIDE DEF pushed
<1>11. EraKnown(old, published) /\ OnlyPort(start, old, p)
  <2>1. p # "mktdata" => \A i \in drained : Readable(p, i, published)
    BY <1>4
  <2> HIDE DEF start, drained
  <2> QED
    BY <1>1, <1>5, <2>1, WalkKeeps
<1> HIDE DEF old
<1>12. DOMAIN old.pt = Ports /\ \A q \in Ports : q # p => old.pt[q] = pt[q]
  BY <1>1, <1>5, <1>11 DEF OnlyPort
<1> HIDE DEF start, late
<1>13. Orderly(pushed)
  <2>1. \A i \in o.buf : i \in pt[p].buf /\ i.rc = d.rc
    BY <1>2
  <2>2. \A i \in o.buf : i.seq \in Seqs /\ i.copy = 0 /\ i.seq # d.seq
                         /\ i.seq \notin SeqsOf(pt[p].accepted)
    BY <1>4, <2>1 DEF Orderly, IsNew
  <2>3. d.seq \notin SeqsOf(o.accepted)
    BY <1>3 DEF SeqsOf
  <2>4. \A i \in o.buf : i.seq \notin SeqsOf(o.accepted)
    BY <1>3, <2>2 DEF SeqsOf
  <2>5. \A i \in pushed.buf : i.seq \in Seqs /\ IsNew(pushed, i)
    BY <1>6, <1>10, <2>2, <2>3, <2>4 DEF IsNew
  <2>6. \A i, j \in pushed.buf : i.seq = j.seq => i = j
    BY <1>4, <1>6, <1>10, <2>1, <2>2 DEF Orderly
  <2> QED
    BY <1>10, <2>5, <2>6 DEF Orderly
<1>14. /\ EraKnown(new, published) /\ DOMAIN new.pt = Ports /\ new.pt[p] = pushed
       /\ new.v = old.v /\ \A q \in Ports : q # p => new.pt[q] = pt[q]
  <2>1. /\ DOMAIN old = {"pt", "ext", "v"} /\ DOMAIN old.ext = Ports
        /\ \A q \in Ports : "refdataEra" \in DOMAIN old.ext[q]
    BY <1>11 DEF EraKnown
  <2>2. /\ DOMAIN new = {"pt", "ext", "v"} /\ new.v = old.v
        /\ DOMAIN new.pt = Ports /\ new.pt[p] = pushed
        /\ \A q \in Ports : q # p => new.pt[q] = old.pt[q]
        /\ DOMAIN new.ext = Ports /\ new.ext[p] = Tainted(old.ext[p], late)
        /\ \A q \in Ports : q # p => new.ext[q] = old.ext[q]
    BY <1>12, <2>1
  <2>3. LET e == Tainted(old.ext[p], late)
        IN  "refdataEra" \in DOMAIN e /\ e.refdataEra = old.ext[p].refdataEra
    BY <2>1 DEF Tainted
  <2> HIDE DEF new
  <2>4. \A q \in Ports : /\ "refdataEra" \in DOMAIN new.ext[q]
                         /\ new.ext[q].refdataEra = old.ext[q].refdataEra
    BY <2>1, <2>2, <2>3
  <2>5. EraKnown(new, published)
    BY <1>11, <2>2, <2>4, SameEraKnown
  <2> QED
    BY <1>12, <2>2, <2>5
<1>15. s = IF Overflows(pushed) THEN ClassifyItem(p, new, HeadOf(pushed)) ELSE new
  BY DEF Processed, pushed, old, start, late, o
<1> HIDE DEF new, s
<1>16. PICK h : h = HeadOf(pushed)
  OBVIOUS
<1>17. h \in pushed.buf /\ \A j \in pushed.buf : h.seq <= j.seq
  <2>1. pushed.buf # {} /\ \A i \in pushed.buf : i.seq \in Nat /\ i.copy = 0
    BY <1>10, <1>13, SeqAssumption DEF Orderly, IsNew, Seqs
  <2> QED
    BY <1>16, <2>1, HeadIn DEF IsHead
<1>18. p # "mktdata" => Readable(p, h, published)
  <2>1. p # "mktdata" => Readable(p, d, published)
    BY DEF FrameFrom
  <2>2. p # "mktdata" => Readable(p, item, published)
    BY <1>6, <2>1, ReadableGrows
  <2> QED
    BY <1>2, <1>4, <1>10, <1>17, <2>2
<1>19. s.pt[p].buf = IF Overflows(pushed) THEN pushed.buf \ {h} ELSE pushed.buf
  <2>1. CASE Overflows(pushed)
    <3>1. s = ClassifyItem(p, new, h)
      BY <1>15, <1>16, <2>1
    <3>2. s.pt[p] = Popped(pushed, h)
      BY <1>1, <1>14, <1>18, <3>1, ItemKeeps
    <3> QED
      BY <1>13, <1>17, <2>1, <3>2, PoppedOrderly
  <2> QED
    BY <1>14, <1>15, <2>1
<1>20. pt'[p].buf = s.pt[p].buf
  BY DEF s
<1>21. /\ Peace(old, UnderWay, open, idle)
       /\ ~Advances(p, d) => old.pt[p].buf = pt[p].buf
       /\ Advances(p, d) => old.pt[p].buf = {}
  <2>1. Peace(start, UnderWay, open, idle)
    <3>1. Engine.v = v /\ Engine.pt = pt
      BY DEF Engine
    <3>2. \A q : Held(start, q) = Held(Engine, q)
      BY <1>5, <3>1 DEF Held
    <3>3. \A e \in ToHear(Engine, UnderWay) : e \in ToHear(start, UnderWay)
      BY <3>2 DEF ToHear
    <3> QED
      BY <1>5, <3>1, <3>2, <3>3, PeaceMoves
  <2>2. CASE Advances(p, d)
    <3>1. old = Walk(p, start, start.pt[p].buf)
      BY <1>5, <2>2 DEF old
    <3>2. \A i \in pt[p].buf : FrameOf(i) \notin Frames(pt'[p].buf)
      <4>1. \A j \in pt'[p].buf : j.rc = d.rc /\ j.seq = d.seq
        BY <1>3, <1>6, <1>10, <1>19, <1>20, <2>2
      <4>2. \A f \in Frames(pt'[p].buf) : f.rc = d.rc /\ f.seq = d.seq
        BY <4>1 DEF Frames
      <4>3. \A i : FrameOf(i).rc = i.rc /\ FrameOf(i).seq = i.seq
        BY DEF FrameOf
      <4> QED
        BY <4>2, <4>3
    <3>3. ASSUME NEW i \in pt[p].buf
          PROVE  Uncrossed(start, UnderWay, p, i.body)
      <4>1. PICK c : c = FrameOf(i)
        OBVIOUS
      <4>2. c \in Frames(pt[p].buf) /\ c.body = i.body
        BY <4>1 DEF Frames, FrameOf
      <4>3. c \in (Frames(pt[p].buf) \cup {d}) \ Frames(pt'[p].buf)
        BY <3>2, <4>1, <4>2
      <4>4. Uncrossed(start, UnderWay, p, c.body)
        BY <1>1, <1>5, <4>3, DeliveryUncrossed
      <4> QED
        BY <4>2, <4>4
    <3>4. p # "mktdata" => \A i \in pt[p].buf : Readable(p, i, published) /\ Shaped(i.body.msgs)
      BY <1>4, <1>7 DEF SignedBy
    <3>5. \A i, j \in pt[p].buf : i.seq < j.seq => Apart(p, i.body, j.body)
      <4>1. \A i \in pt[p].buf : i.rc = pt[p].era
        BY <1>1 DEF FlowInv, BufferInv
      <4> QED
        BY <1>8, <4>1
    <3>6. Peace(old, UnderWay, open, idle) /\ old.pt[p].buf = {}
      BY <1>1, <1>4, <1>5, <1>8, <2>1, <3>1, <3>3, <3>4, <3>5, WalkPeace
    <3> QED
      BY <2>2, <3>6
  <2>3. CASE ~Advances(p, d)
    <3>1. drained = {}
      BY <2>3
    <3>2. old = start
      BY <3>1, WalkNothing DEF old
    <3> QED
      BY <1>5, <2>1, <2>3, <3>2
  <2> QED
    BY <2>2, <2>3
<1> HIDE DEF drained
<1>22. Peace(new, UnderWayBut(n), open, idle)
  <2>1. d.body \in UnderWay[p] /\ \A q \in Ports : UnderWayBut(n)[q] \subseteq UnderWay[q]
    BY <1>6 DEF UnderWay, UnderWayBut
  <2>2. pushed.buf = old.pt[p].buf \cup {item}
    BY <1>3, <1>10, <1>21
  <2>3. \A q \in Ports : q # p => Held(new, q) = Held(old, q)
    BY <1>12, <1>14 DEF Held
  <2>4. Held(new, p) = Held(old, p) \cup {d.body}
    BY <1>6, <1>14, <2>2 DEF Held
  <2>5. \A q \in Ports : UnderWay[q] \subseteq UnderWayBut(n)[q] \cup IF q = p THEN {d.body} ELSE {}
    BY <1>6 DEF UnderWay, UnderWayBut
  <2>6. plan.paths \subseteq Ports /\ "mktdata" \in Ports
    BY <1>1, RefPlansAssumption, PlansAssumption DEF Paths
  <2>7. \A q \in Ports : Held(new, q) \cup UnderWayBut(n)[q] \subseteq Held(old, q) \cup UnderWay[q]
    BY <2>1, <2>3, <2>4
  <2>8. \A q \in Ports : Held(old, q) \cup UnderWay[q] \subseteq Held(new, q) \cup UnderWayBut(n)[q]
    BY <2>3, <2>4, <2>5
  <2>9. \A e \in ToHear(old, UnderWay) : e \in ToHear(new, UnderWayBut(n))
    BY <2>6, <2>8 DEF ToHear
  <2> QED
    BY <1>14, <1>21, <2>6, <2>7, <2>9, PeaceMoves
<1>23. CASE Overflows(pushed)
  <2>1. s = ClassifyItem(p, new, h)
    BY <1>15, <1>16, <1>23
  <2>2. h = item \/ h \in pt[p].buf
    BY <1>2, <1>10, <1>17
  <2>3. h.rc = d.rc /\ FrameOf(h).body = h.body
    BY <1>2, <1>6, <1>10, <1>17 DEF FrameOf
  <2>4. FrameOf(h) \in Frames(pt[p].buf) \cup {d}
    BY <1>6, <2>2 DEF Frames, FrameOf
  <2>5. FrameOf(h) \notin Frames(pt'[p].buf)
    <3>1. \A j \in pt'[p].buf : j.seq # h.seq
      BY <1>13, <1>17, <1>19, <1>20, <1>23 DEF Orderly
    <3>2. \A f \in Frames(pt'[p].buf) : f.seq # h.seq
      BY <3>1 DEF Frames
    <3> QED
      BY <3>2 DEF FrameOf
  <2>6. \A q \in Ports : q # p => UnderWayBut(n)[q] = UnderWay[q]
    BY DEF UnderWay, UnderWayBut
  <2>7. Uncrossed(new, UnderWayBut(n), p, h.body)
    <3>1. PICK c : c = FrameOf(h)
      OBVIOUS
    <3>2. c \in (Frames(pt[p].buf) \cup {d}) \ Frames(pt'[p].buf)
      BY <2>4, <2>5, <3>1
    <3>3. Uncrossed(new, UnderWayBut(n), p, c.body)
      BY <1>1, <1>14, <2>6, <3>2, DeliveryUncrossed
    <3> QED
      BY <2>3, <3>1, <3>3
  <2>8. \A j \in pushed.buf : SignedBy(feedEra, sent, p, j) /\ j.rc = d.rc
    <3>1. SignedBy(feedEra, sent, p, item)
      BY <1>6, <1>7, SignedShared
    <3> QED
      BY <1>2, <1>6, <1>7, <1>10, <3>1
  <2>9. ASSUME NEW j \in pushed.buf \ {h}
        PROVE  Apart(p, h.body, j.body)
    <3>1. h.seq < j.seq
      <4>1. h.seq # j.seq /\ h.seq <= j.seq /\ h.seq \in Nat /\ j.seq \in Nat
        BY <1>13, <1>17, <2>8 DEF Orderly, SignedBy
      <4> QED
        BY <4>1
    <3> QED
      BY <1>1, <1>17, <2>8, <3>1, InSeries
  <2>10. \A z \in UnderWayBut(n)[p] : Apart(p, h.body, z)
    <3>1. UnderWayBut(n)[p] \subseteq UnderWay[p]
      BY DEF UnderWay, UnderWayBut
    <3> QED
      BY <1>6, <1>8, <2>2, <3>1
  <2>11. Foremost(new, UnderWayBut(n), p, h)
    BY <1>14, <2>9, <2>10 DEF Foremost, Apart
  <2>12. p # "mktdata" => p \in plan.paths /\ Shaped(h.body.msgs)
    BY <1>17, <1>18, <2>8 DEF SignedBy, Readable
  <2> QED
    BY <1>1, <1>13, <1>14, <1>17, <1>22, <2>1, <2>7, <2>11, <2>12, ItemPeace DEF s
<1> QED
  BY <1>15, <1>22, <1>23 DEF s

-----------------------------------------------------------------------------
(* Nothing crossed, and no announcement was lost: what waits is at peace   *)
(* with what is held. A session's end is over before the next begins.      *)
Undisturbed == plan.announces # {} /\ "mktdata" \notin plan.lossy /\ crossed = {}

AtPeace == Peace(Engine, UnderWay, "endOfSession" \in ending, Alone /\ ~serving)

EndInv ==
  /\ serving => ending = {}
  /\ running => SignedInv
  /\ Undisturbed => ~Accused(v) /\ (running => AtPeace)

LEMMA QuietStays ==
  ASSUME UNCHANGED plan, NEW x, NEW D, NEW E, NEW open, NEW idle, Quiet(x, D, E, open, idle)
  PROVE  Quiet(x, D, E, open, idle)'
<1>1. \A a, b : Ahead(a, b)' <=> Ahead(a, b)
  BY DEF Ahead
<1>2. Alone' <=> Alone
  BY DEF Alone
<1>3. \A z : Prior(D, z)' = Prior(D, z)
  BY <1>1 DEF Prior
<1> QED
  BY <1>2, <1>3 DEF Quiet

LEMMA PeaceNow ==
  ASSUME UNCHANGED plan, NEW s, NEW N, NEW open, NEW idle, Peace(s, N, open, idle),
         \A q \in Ports : pt'[q].buf = s.pt[q].buf, v' = s.v, UnderWay' = N,
         plan \in Plans,
         open = ("endOfSession" \in ending'), idle = (Alone /\ ~serving')
  PROVE  AtPeace' /\ ~Accused(v)'
<1>1. PICK x : x = v'
  OBVIOUS
<1>2. PICK D : D = ToRead(Engine, UnderWay)'
  OBVIOUS
<1>3. PICK E : E = ToHear(Engine, UnderWay)'
  OBVIOUS
<1>4. plan.paths \subseteq Ports /\ "mktdata" \in Ports
  BY RefPlansAssumption, PlansAssumption DEF Paths
<1>5. (Engine')["pt"] = pt' /\ (Engine')["v"] = v'
  BY DEF Engine
<1>6. \A q \in Ports : Held(Engine, q)' = Held(s, q)
  BY <1>5 DEF Held
<1>7. D = ToRead(s, N) /\ E = ToHear(s, N)
  BY <1>2, <1>3, <1>4, <1>6 DEF ToRead, ToHear
<1>8. Quiet(x, D, E, open, idle)
  BY <1>1, <1>7 DEF Peace
<1>9. Quiet(x, D, E, open, idle)'
  BY <1>8, QuietStays
<1>10. Alone' <=> Alone
  BY DEF Alone
<1>11. AtPeace'
  BY <1>1, <1>2, <1>3, <1>5, <1>9, <1>10 DEF AtPeace, Peace
<1>12. ~Accused(x)
  BY <1>8 DEF Quiet
<1> QED
  BY <1>1, <1>11, <1>12 DEF Accused

LEMMA UnderWayLess ==
  ASSUME NetInv, NEW n \in DOMAIN net, net' = RemoveAt(net, n)
  PROVE  UnderWay' = UnderWayBut(n)
<1>1. /\ \A i \in DOMAIN net' : \E j \in DOMAIN net : j # n /\ net'[i] = net[j]
      /\ \A j \in DOMAIN net : j # n => \E i \in DOMAIN net' : net'[i] = net[j]
  BY NetWithout
<1>2. ASSUME NEW q \in Ports
      PROVE  {net'[m].body : m \in {k \in DOMAIN net' : net'[k].port = q}}
               = {net[m].body : m \in {k \in DOMAIN net : k # n /\ net[k].port = q}}
  BY <1>1
<1> QED
  BY <1>2 DEF UnderWay, UnderWayBut

LEMMA LosePeace ==
  ASSUME RefInv, EndInv, NEW n \in DOMAIN net, Lose(n)
  PROVE  EndInv'
<1>1. /\ running /\ net' = RemoveAt(net, n) /\ net[n].port \in plan.lossy
      /\ UNCHANGED <<plan, feedEra, sent, pt, ext, v, crossed, running, serving, ending>>
  BY DEF Lose, Dropping, vars, pubVars, recVars
<1>2. NetInv /\ plan \in Plans /\ SignedInv
  BY <1>1 DEF RefInv, FlowInv, PubInv, EndInv
<1>3. SignedInv'
  BY <1>1, <1>2, LoseSigned
<1>4. ASSUME Undisturbed'
      PROVE  AtPeace' /\ ~Accused(v)'
  <2>1. Undisturbed /\ net[n].port # "mktdata"
    BY <1>1, <1>4 DEF Undisturbed
  <2>2. PICK open : open = ("endOfSession" \in ending)
    OBVIOUS
  <2>3. PICK idle : idle = (Alone /\ ~serving)
    OBVIOUS
  <2>4. Peace(Engine, UnderWay, open, idle)
    BY <1>1, <2>1, <2>2, <2>3 DEF EndInv, AtPeace
  <2>5. Peace(Engine, UnderWayBut(n), open, idle)
    <3>1. plan.paths \subseteq Ports /\ "mktdata" \in Ports
      BY <1>2, RefPlansAssumption, PlansAssumption DEF Paths
    <3>2. /\ \A q \in Ports : UnderWayBut(n)[q] \subseteq UnderWay[q]
          /\ UnderWayBut(n)["mktdata"] = UnderWay["mktdata"]
      BY <2>1, <3>1 DEF UnderWay, UnderWayBut
    <3>3. \A q \in plan.paths : Held(Engine, q) \cup UnderWayBut(n)[q]
                                  \subseteq Held(Engine, q) \cup UnderWay[q]
      BY <3>1, <3>2
    <3>4. ToHear(Engine, UnderWayBut(n)) = ToHear(Engine, UnderWay)
      BY <3>2 DEF ToHear
    <3> QED
      BY <2>4, <3>3, <3>4, PeaceMoves
  <2>6. UnderWay' = UnderWayBut(n)
    BY <1>1, <1>2, UnderWayLess
  <2>7. Engine.pt = pt /\ Engine.v = v
    BY DEF Engine
  <2> QED
    BY <1>1, <1>2, <2>2, <2>3, <2>5, <2>6, <2>7, PeaceNow
<1> QED
  BY <1>1, <1>3, <1>4 DEF EndInv

(* What a frame under way is to the port it arrives on. *)
LEMMA ArrivingFrame ==
  ASSUME RefInv, running, HeardInv, NEW n \in DOMAIN net, NEW p, p = net[n].port,
         NEW d, d = [rc |-> net[n].rc, seq |-> net[n].seq, body |-> net[n].body]
  PROVE  /\ p \in Ports /\ FrameFrom(p, d) /\ d.rc \in ResetCounts /\ d.seq \in Seqs
         /\ \A i \in pt[p].buf : i.rc = d.rc => i.seq # d.seq
         /\ \A a \in pt[p].accepted : pt[p].era = d.rc => a.seq # d.seq
<1>1. PubInv /\ FlowInv /\ d.rc = net[n].rc /\ d.seq = net[n].seq /\ d.body = net[n].body
  BY DEF RefInv
<1>2. p \in Ports /\ FrameFrom(p, d)
  <2>1. p \in Ports /\ FrameFrom(p, net[n])
    BY <1>1 DEF FlowInv, NetInv
  <2>2. Readable(p, net[n], published) => Readable(p, d, published)
    BY <1>1, ReadableGrows
  <2> QED
    BY <1>1, <2>1, <2>2 DEF FrameFrom, Numbered
<1>3. d.rc \in ResetCounts /\ d.seq \in Seqs
  <2>1. \E e \in 0 .. feedEra : d.rc = ResetCountOf(e)
    BY <1>2 DEF FrameFrom, Numbered
  <2>2. plan \in Plans /\ feedEra \in 0 .. plan.resets /\ plan.resets \in Nat
    BY <1>1, PlansAssumption DEF PubInv
  <2> QED
    BY <1>1, <2>1, <2>2, CountsAssumption DEF HeardInv
<1>4. \A i \in pt[p].buf : i.rc = d.rc => i.seq # d.seq
  BY <1>1, <1>2 DEF FlowInv, BufferInv
<1>5. \A a \in pt[p].accepted : pt[p].era = d.rc => a.seq # d.seq
  <2> SUFFICES ASSUME NEW a \in pt[p].accepted, pt[p].era = d.rc
               PROVE  a.seq # d.seq
    OBVIOUS
  <2>1. Heard(p, pt[p])
    BY <1>2 DEF HeardInv
  <2>2. net[n].port = p /\ net[n].rc = pt[p].era
    BY <1>1
  <2>3. net[n].seq # a.seq
    BY <2>1, <2>2 DEF Heard
  <2> QED
    BY <1>1, <2>3
<1> QED
  BY <1>2, <1>3, <1>4, <1>5

LEMMA DeliverPeace ==
  ASSUME RefInv, DeadlineInv, EndInv, SoleReader(plan), FewChanges(plan),
         NEW n \in DOMAIN net, Deliver(n), NEW p, p = net[n].port,
         NEW d, d = [rc |-> net[n].rc, seq |-> net[n].seq, body |-> net[n].body]
  PROVE  EndInv'
<1>1. /\ running /\ Arriving(n) /\ net' = RemoveAt(net, n)
      /\ Receives(p, d) \/ Drops(p, d)
      /\ crossed' = crossed \cup CrossedShutdown(PairsOnDelivery(p, d)) \cup Straggled(p, d)
      /\ UNCHANGED <<plan, feedEra, sent, published, running, serving, ending>>
  BY DEF Deliver, pubVars
<1>2. /\ PubInv /\ FlowInv /\ NetInv /\ EraKnown(Engine, published) /\ plan \in Plans
      /\ HeardInv /\ SignedInv
      /\ DOMAIN pt = Ports /\ \A q \in Ports : DOMAIN pt[q] = TrackerFields
  BY <1>1 DEF RefInv, PubInv, DeadlineInv, EndInv, FlowInv, IntakeInv
<1>3. d.rc = net[n].rc /\ d.seq = net[n].seq /\ d.body = net[n].body
  OBVIOUS
<1>4. /\ p \in Ports /\ FrameFrom(p, d) /\ d.rc \in ResetCounts /\ d.seq \in Seqs
      /\ \A i \in pt[p].buf : i.rc = d.rc => i.seq # d.seq
      /\ \A a \in pt[p].accepted : pt[p].era = d.rc => a.seq # d.seq
  BY <1>1, <1>2, ArrivingFrame
<1>5. UnderWay' = UnderWayBut(n)
  BY <1>1, <1>2, UnderWayLess
<1>6. ASSUME Undisturbed'
      PROVE  /\ Undisturbed /\ CrossedShutdown(PairsOnDelivery(p, d)) = {}
             /\ Straggled(p, d) = {}
  BY <1>1, <1>6 DEF Undisturbed
<1>7. PICK open : open = ("endOfSession" \in ending)
  OBVIOUS
<1>8. PICK idle : idle = (Alone /\ ~serving)
  OBVIOUS
<1>9. Undisturbed => Peace(Engine, UnderWay, open, idle)
  BY <1>1, <1>7, <1>8 DEF EndInv, AtPeace
<1>10. CASE Receives(p, d)
  <2>1. PICK s : s = Processed(p, d)
    OBVIOUS
  <2>2. ~Quarantines(p, d) /\ pt' = s.pt /\ v' = s.v
    BY <1>10, <2>1 DEF Receives
  <2>3. PICK item : item = [rc |-> d.rc, seq |-> d.seq, body |-> d.body, copy |-> 0]
    OBVIOUS
  <2>4. /\ \A q \in Ports : q # p => s.pt[q] = pt[q]
        /\ \A i \in s.pt[p].buf : i \in pt[p].buf \/ i = item
    BY <1>2, <1>4, <2>1, <2>2, <2>3, ProcessedKeeps
  <2>5. SignedInv'
    <3>1. item.rc = net[n].rc /\ item.seq = net[n].seq /\ item.body = net[n].body
      BY <1>3, <2>3
    <3> QED
      BY <1>1, <1>2, <1>4, <2>2, <2>4, <3>1, DeliverSigned
  <2>6. ASSUME Undisturbed'
        PROVE  AtPeace' /\ ~Accused(v)'
    <3>1. Peace(s, UnderWayBut(n), open, idle)
      BY <1>1, <1>2, <1>4, <1>6, <1>9, <2>1, <2>2, <2>6, ProcessedPeace
    <3> QED
      BY <1>1, <1>2, <1>5, <1>7, <1>8, <2>2, <3>1, PeaceNow
  <2> QED
    BY <1>1, <2>5, <2>6 DEF EndInv
<1>11. CASE Drops(p, d)
  <2>1. pt' = [pt EXCEPT ![p].stragglers = @ + 1] /\ v' = v /\ Quarantines(p, d)
    BY <1>11 DEF Drops, Quarantine
  <2>2. \A q \in Ports : pt'[q].buf = pt[q].buf /\ (q # p => pt'[q] = pt[q])
    BY <1>2, <1>4, <2>1 DEF TrackerFields
  <2>3. SignedInv'
    BY <1>1, <1>2, <2>2, LoseSigned
  <2>4. ASSUME Undisturbed'
        PROVE  AtPeace' /\ ~Accused(v)'
    <3>1. ~Announces(net[n].body)
      BY <1>3, <1>6, <2>1, <2>4 DEF Straggled, Carries, Announces
    <3>2. Peace(Engine, UnderWayBut(n), open, idle)
      <4>1. plan.paths \subseteq Ports /\ "mktdata" \in Ports
        BY <1>2, RefPlansAssumption, PlansAssumption DEF Paths
      <4>2. /\ \A q \in Ports : UnderWayBut(n)[q] \subseteq UnderWay[q]
            /\ \A q \in Ports : \A z \in UnderWay[q] : z \in UnderWayBut(n)[q] \/ z = net[n].body
        BY DEF UnderWay, UnderWayBut
      <4>3. \A q \in plan.paths : Held(Engine, q) \cup UnderWayBut(n)[q]
                                    \subseteq Held(Engine, q) \cup UnderWay[q]
        BY <4>1, <4>2
      <4>4. \A e \in ToHear(Engine, UnderWay) : Announces(e) => e \in ToHear(Engine, UnderWayBut(n))
        BY <3>1, <4>1, <4>2 DEF ToHear
      <4> QED
        BY <1>6, <1>9, <2>4, <4>3, <4>4, PeaceMoves
    <3>3. Engine.pt = pt /\ Engine.v = v
      BY DEF Engine
    <3> QED
      BY <1>1, <1>2, <1>5, <1>7, <1>8, <2>1, <2>2, <3>2, <3>3, PeaceNow
  <2> QED
    BY <1>1, <2>3, <2>4 DEF EndInv
<1> QED
  BY <1>1, <1>10, <1>11

LEMMA DeliverEnds ==
  ASSUME RefInv, DeadlineInv, EndInv, SoleReader(plan), FewChanges(plan),
         NEW n \in DOMAIN net, Deliver(n)
  PROVE  EndInv'
BY DeliverPeace

(* A definition is sent. *)
LEMMA OtherSent ==
  ASSUME NEW x, NEW D, NEW E, NEW open, NEW idle, Quiet(x, D, E, open, idle),
         NEW b, ~Shows(b, 1), ~Shows(b, 0), NEW D2, D2 = D \cup {b}
  PROVE  Quiet(x, D2, E, open, idle)
<1>1. ServingOf(D2) = ServingOf(D)
  BY DEF ServingOf
<1>2. \A z : Prior(D2, z) = Prior(D, z)
  BY <1>1 DEF Prior
<1>3. \A z \in D2 : Shows(z, 0) => z \in D
  OBVIOUS
<1> QED
  BY <1>1, <1>2, <1>3 DEF Quiet

(* A Valid=1 summary is sent: nothing of the last session's end is left to *)
(* be.                                                                     *)
LEMMA ServingSent ==
  ASSUME NEW x, NEW D, NEW E, NEW open, NEW idle, Quiet(x, D, E, open, idle), ~open,
         NEW b, ~Shows(b, 0), NEW D2, D2 = D \cup {b},
         \A e \in E : Before(e.at, b.at),
         Alone => \A z \in D : ~Ahead(b, z),
         NEW idle2, ~idle2
  PROVE  Quiet(x, D2, E, open, idle2)
<1>1. ServingOf(D2) \subseteq ServingOf(D) \cup {b}
  BY DEF ServingOf
<1>2. ASSUME NEW P, NEW Q, Told(x, P, Q, E, open), NEW Q2, Q2 \subseteq Q \cup {b}
      PROVE  Told(x, P, Q2, E, open)
  BY <1>2 DEF Told
<1>3. ASSUME x.pending # Nil
      PROVE  Alone /\ Told(x, {}, ServingOf(D2), E, open)
  <2>1. Alone /\ Told(x, {}, ServingOf(D), E, open)
    BY <1>3 DEF Quiet
  <2> QED
    BY <1>1, <1>2, <2>1
<1>4. ASSUME NEW z \in D2, Shows(z, 0)
      PROVE  Alone /\ Answered(x, Prior(D2, z), ServingOf(D2) \ Prior(D2, z), E, open)
  <2>1. z \in D
    BY <1>4
  <2>2. Alone /\ Answered(x, Prior(D, z), ServingOf(D) \ Prior(D, z), E, open)
    BY <1>4, <2>1 DEF Quiet
  <2>3. Prior(D2, z) = Prior(D, z)
    BY <2>1, <2>2 DEF Prior, ServingOf
  <2>4. ServingOf(D2) \ Prior(D2, z) \subseteq (ServingOf(D) \ Prior(D, z)) \cup {b}
    BY <1>1, <2>3
  <2>5. PICK P : P = Prior(D, z)
    OBVIOUS
  <2>6. PICK Q : Q = ServingOf(D) \ Prior(D, z)
    OBVIOUS
  <2>7. PICK Q2 : Q2 = ServingOf(D2) \ Prior(D2, z)
    OBVIOUS
  <2>8. Answered(x, P, Q, E, open) /\ Q2 \subseteq Q \cup {b}
    BY <2>2, <2>4, <2>5, <2>6, <2>7
  <2>9. Answered(x, P, Q2, E, open)
    BY <1>2, <2>8 DEF Answered
  <2> QED
    BY <2>2, <2>3, <2>5, <2>7, <2>9
<1>5. ~Accused(x)
  BY DEF Quiet
<1> QED
  BY <1>3, <1>4, <1>5 DEF Quiet

(* A Valid=0 summary is sent: the announcement of the session's end was    *)
(* sent, or is still to be.                                                *)
LEMMA ZeroSent ==
  ASSUME NEW x, NEW D, NEW E, NEW open, NEW idle, Quiet(x, D, E, open, idle),
         NEW open2, open => open2, Answered(x, ServingOf(D), {}, E, open2),
         NEW b, ~Shows(b, 1), NEW D2, D2 = D \cup {b}, Alone,
         \A z \in D : Ahead(z, b),
         NEW idle2
  PROVE  Quiet(x, D2, E, open2, idle2)
<1>1. ServingOf(D2) = ServingOf(D)
  BY DEF ServingOf
<1>2. \A z : Prior(D2, z) = Prior(D, z)
  BY <1>1 DEF Prior
<1>3. \A P, Q : Answered(x, P, Q, E, open) => Answered(x, P, Q, E, open2)
  BY DEF Answered, Told
<1>4. \A P, Q : Told(x, P, Q, E, open) => Told(x, P, Q, E, open2)
  BY DEF Told
<1>5. ASSUME NEW z \in D2, Shows(z, 0)
      PROVE  Answered(x, Prior(D2, z), ServingOf(D2) \ Prior(D2, z), E, open2)
  <2>1. CASE z \in D
    <3>1. Answered(x, Prior(D, z), ServingOf(D) \ Prior(D, z), E, open)
      BY <1>5, <2>1 DEF Quiet
    <3> QED
      BY <1>1, <1>2, <1>3, <3>1
  <2>2. CASE z = b
    <3>1. Prior(D, b) = ServingOf(D)
      BY DEF Prior, ServingOf
    <3>2. ServingOf(D) \ ServingOf(D) = {}
      OBVIOUS
    <3> QED
      BY <1>1, <1>2, <2>2, <3>1, <3>2
  <2> QED
    BY <2>1, <2>2
<1>6. x.pending # Nil => Told(x, {}, ServingOf(D2), E, open2)
  BY <1>1, <1>4 DEF Quiet
<1>7. ~Accused(x) /\ Answered(x, ServingOf(D2), {}, E, open2)
  BY <1>1 DEF Quiet
<1> QED
  BY <1>5, <1>6, <1>7 DEF Quiet

(* The announcement of a session's end is sent. *)
LEMMA AnnouncementSent ==
  ASSUME NEW x, NEW D, NEW E, NEW open, NEW idle, Quiet(x, D, E, open, idle),
         NEW b, Announces(b), NEW E2, E2 = E \cup {b}, \A z \in D : Before(z.at, b.at),
         NEW open2, NEW idle2
  PROVE  Quiet(x, D, E2, open2, idle2)
<1>1. ASSUME NEW P, P \subseteq D, NEW Q, Told(x, P, Q, E, open)
      PROVE  Told(x, P, Q, E2, open2)
  BY <1>1 DEF Told
<1>2. ServingOf(D) \subseteq D /\ \A z : Prior(D, z) \subseteq D
  BY DEF ServingOf, Prior
<1>3. x.pending # Nil => Alone /\ Told(x, {}, ServingOf(D), E2, open2)
  BY <1>1 DEF Quiet
<1>4. ASSUME NEW z \in D, Shows(z, 0)
      PROVE  Alone /\ Answered(x, Prior(D, z), ServingOf(D) \ Prior(D, z), E2, open2)
  BY <1>1, <1>2, <1>4 DEF Quiet, Answered
<1>5. Told(x, ServingOf(D), {}, E2, open2)
  BY <1>2 DEF Told
<1>6. ~Accused(x)
  BY DEF Quiet
<1> QED
  BY <1>3, <1>4, <1>5, <1>6 DEF Quiet, Answered

(* What a frame sent now adds to what waits. *)
UnderWayWith(p, b) == [q \in Ports |-> IF q = p THEN UnderWay[q] \cup {b} ELSE UnderWay[q]]

LEMMA PutAdds ==
  ASSUME RefInv, SignedInv, running, NEW p \in Ports, NEW msgs, Put(p, msgs),
         NEW b, b = [msgs |-> msgs, at |-> Now],
         NEW D, D = ToRead(Engine, UnderWay), NEW E, E = ToHear(Engine, UnderWay)
  PROVE  /\ UnderWay' = UnderWayWith(p, b)
         /\ ToRead(Engine, UnderWayWith(p, b)) = IF p \in plan.paths THEN D \cup {b} ELSE D
         /\ ToHear(Engine, UnderWayWith(p, b)) = IF p = "mktdata" THEN E \cup {b} ELSE E
         /\ \A z \in D \cup E : Before(z.at, b.at)
         /\ Alone /\ p \in plan.paths => \A z \in D : Ahead(z, b) /\ ~Ahead(b, z)
<1>1. /\ NetInv /\ feedEra \in Nat /\ sent \in [Ports -> Nat] /\ plan \in Plans
      /\ b.at = Now
  BY PlansAssumption DEF RefInv, PubInv, FlowInv, NetInv
<1>2. plan.paths \subseteq Ports /\ "mktdata" \in Ports
  BY <1>1, RefPlansAssumption, PlansAssumption DEF Paths
<1>3. PICK f : f = [port |-> p, rc |-> ResetCountOf(feedEra), seq |-> sent[p],
                    body |-> [msgs |-> msgs, at |-> Now]]
  OBVIOUS
<1>4. /\ Len(net) \in Nat /\ DOMAIN net = 1 .. Len(net)
      /\ DOMAIN net' = 1 .. Len(net) + 1 /\ net'[Len(net) + 1] = f
      /\ \A n \in DOMAIN net : net'[n] = net[n]
  BY <1>1, <1>3, NetGrows
<1>5. f.port = p /\ f.body = b
  BY <1>3
<1>6. UnderWay' = UnderWayWith(p, b)
  <2>1. ASSUME NEW q \in Ports
        PROVE  {net'[m].body : m \in {k \in DOMAIN net' : net'[k].port = q}}
                 = IF q = p THEN UnderWay[q] \cup {b} ELSE UnderWay[q]
    <3>1. DOMAIN net' = DOMAIN net \cup {Len(net) + 1} /\ Len(net) + 1 \notin DOMAIN net
      BY <1>4
    <3>2. /\ net'[Len(net) + 1].port = p /\ net'[Len(net) + 1].body = b
          /\ \A k \in DOMAIN net : net'[k].port = net[k].port /\ net'[k].body = net[k].body
      BY <1>4, <1>5
    <3>3. UnderWay[q] = {net[m].body : m \in {k \in DOMAIN net : net[k].port = q}}
      BY DEF UnderWay
    <3>4. CASE q = p
      BY <3>1, <3>2, <3>3, <3>4
    <3>5. CASE q # p
      BY <3>1, <3>2, <3>3, <3>5
    <3> QED
      BY <3>4, <3>5
  <2> QED
    BY <2>1 DEF UnderWay, UnderWayWith
<1>7. ASSUME NEW q \in Ports, NEW z \in Held(Engine, q) \cup UnderWay[q]
      PROVE  Sooner(q, z, b) /\ ~Sooner(q, b, z) /\ Before(z.at, b.at)
  <2>1. CASE z \in Held(Engine, q)
    <3>1. PICK i \in pt[q].buf : z = i.body
      BY <2>1 DEF Held, Engine
    <3>2. SignedBy(feedEra, sent, q, i)
      BY <3>1 DEF SignedInv
    <3> QED
      BY <1>1, <3>1, <3>2, SoonerThanNow
  <2>2. CASE z \in UnderWay[q]
    <3>1. PICK m \in DOMAIN net : net[m].port = q /\ z = net[m].body
      BY <2>2 DEF UnderWay
    <3>2. SignedBy(feedEra, sent, q, net[m])
      BY <3>1 DEF SignedInv
    <3> QED
      BY <1>1, <3>1, <3>2, SoonerThanNow
  <2> QED
    BY <1>7, <2>1, <2>2
<1>8. \A z \in D \cup E : Before(z.at, b.at)
  BY <1>2, <1>7 DEF ToRead, ToHear
<1>9. ASSUME Alone, p \in plan.paths, NEW z \in D
      PROVE  Ahead(z, b) /\ ~Ahead(b, z)
  <2>1. plan.paths = {p}
    BY <1>1, <1>9, SolePath, PortsFinite
  <2>2. z \in Held(Engine, p) \cup UnderWay[p]
    BY <1>9, <2>1 DEF ToRead
  <2> QED
    BY <1>7, <2>1, <2>2 DEF Ahead
<1>10. ToRead(Engine, UnderWayWith(p, b)) = IF p \in plan.paths THEN D \cup {b} ELSE D
  <2> DEFINE N == UnderWayWith(p, b)
  <2>1. CASE p \in plan.paths
    <3>1. \A q \in plan.paths : N[q] = IF q = p THEN UnderWay[q] \cup {b} ELSE UnderWay[q]
      BY <1>2 DEF UnderWayWith
    <3> HIDE DEF N
    <3>2. \A z : z \in ToRead(Engine, N) <=> \E q \in plan.paths : z \in Held(Engine, q) \/ z \in N[q]
      BY DEF ToRead
    <3>3. \A z : z \in D <=> \E q \in plan.paths : z \in Held(Engine, q) \/ z \in UnderWay[q]
      BY DEF ToRead
    <3>4. \A z : z \in ToRead(Engine, N) <=> z \in D \/ z = b
      BY <2>1, <3>1, <3>2, <3>3
    <3>5. ToRead(Engine, N) = D \cup {b}
      BY <3>4
    <3> QED
      BY <2>1, <3>5 DEF N
  <2>2. CASE p \notin plan.paths
    BY <1>2, <2>2 DEF ToRead, UnderWayWith
  <2> QED
    BY <2>1, <2>2
<1>11. ToHear(Engine, UnderWayWith(p, b)) = IF p = "mktdata" THEN E \cup {b} ELSE E
  BY <1>2 DEF ToHear, UnderWayWith
<1> QED
  BY <1>6, <1>8, <1>9, <1>10, <1>11

LEMMA OneShows ==
  ASSUME NEW m, NEW b, b.msgs = <<m>>
  PROVE  /\ \A flag : Shows(b, flag) <=> m.type = "summary" /\ m.valid = flag
         /\ Announces(b) <=> m.type = "endOfSession"
         /\ (m.type = "summary" => m.valid \in {0, 1}) => Shaped(b.msgs)
<1>1. ToSet(<<m>>) = {m}
  BY DEF ToSet
<1>2. Len(<<m>>) = 1 /\ DOMAIN <<m>> = 1 .. 1 /\ <<m>>[1] = m
  OBVIOUS
<1> QED
  BY <1>1, <1>2 DEF Shows, Announces, Shaped

LEMMA TwoShow ==
  ASSUME NEW m, NEW d, m.type = "summary", m.valid = 1, d.type = "def",
         NEW b, b.msgs \in {<<m, d>>, <<d, m>>}
  PROVE  ~Shows(b, 0) /\ Shaped(b.msgs)
<1>1. ToSet(<<m, d>>) = {m, d} /\ ToSet(<<d, m>>) = {m, d}
  BY DEF ToSet
<1>2. /\ Len(<<m, d>>) = 2 /\ DOMAIN <<m, d>> = 1 .. 2 /\ <<m, d>>[1] = m /\ <<m, d>>[2] = d
      /\ Len(<<d, m>>) = 2 /\ DOMAIN <<d, m>> = 1 .. 2 /\ <<d, m>>[1] = d /\ <<d, m>>[2] = m
  OBVIOUS
<1> QED
  BY <1>1, <1>2 DEF Shows, Shaped

LEMMA PutEnds ==
  ASSUME RefInv, EndInv, PublisherOnly, NEW p \in Ports, NEW msgs, Put(p, msgs),
         p # "mktdata" => Shaped(msgs), serving' => ending' = {},
         NEW b, b = [msgs |-> msgs, at |-> Now],
         NEW open2, open2 = ("endOfSession" \in ending'),
         NEW idle2, idle2 = (Alone /\ ~serving'),
         Undisturbed => Peace(Engine, UnderWayWith(p, b), open2, idle2)
  PROVE  EndInv'
<1>1. running /\ UNCHANGED <<pt, ext, v, plan, crossed, running>>
  BY DEF PublisherOnly, vars, recVars
<1>2. SignedInv /\ plan \in Plans
  BY <1>1 DEF EndInv, RefInv, PubInv
<1>3. SignedInv'
  BY <1>1, <1>2, PublisherSigned
<1>4. UnderWay' = UnderWayWith(p, b)
  BY <1>1, <1>2, PutAdds
<1>5. ASSUME Undisturbed'
      PROVE  AtPeace' /\ ~Accused(v)'
  <2>1. Peace(Engine, UnderWayWith(p, b), open2, idle2)
    BY <1>1, <1>5 DEF Undisturbed
  <2>2. Engine.pt = pt /\ Engine.v = v
    BY DEF Engine
  <2> QED
    BY <1>1, <1>2, <1>4, <2>1, <2>2, PeaceNow
<1> QED
  BY <1>1, <1>3, <1>5 DEF EndInv

(* The publisher sends a Valid=1 summary, a Valid=0 summary, a definition. *)
LEMMA ServingPut ==
  ASSUME RefInv, EndInv, PublisherOnly, NEW p \in Ports \ {"mktdata"}, p \in plan.paths,
         NEW msgs, Put(p, msgs), Shaped(msgs), NEW b, b = [msgs |-> msgs, at |-> Now],
         ~Shows(b, 0), ending = {}, ending' = ending, serving'
  PROVE  EndInv'
<1>1. running /\ SignedInv
  BY DEF PublisherOnly, EndInv
<1>2. PICK D : D = ToRead(Engine, UnderWay)
  OBVIOUS
<1>3. PICK E : E = ToHear(Engine, UnderWay)
  OBVIOUS
<1>4. /\ ToRead(Engine, UnderWayWith(p, b)) = D \cup {b}
      /\ ToHear(Engine, UnderWayWith(p, b)) = E
      /\ \A z \in D \cup E : Before(z.at, b.at)
      /\ Alone => \A z \in D : ~Ahead(b, z)
  BY <1>1, <1>2, <1>3, PutAdds
<1>5. PICK open : open = ("endOfSession" \in ending)
  OBVIOUS
<1>6. PICK idle : idle = (Alone /\ ~serving)
  OBVIOUS
<1>7. PICK idle2 : idle2 = (Alone /\ ~serving')
  OBVIOUS
<1>8. ASSUME Undisturbed
      PROVE  Peace(Engine, UnderWayWith(p, b), open, idle2)
  <2>1. PICK x : x = Engine.v
    OBVIOUS
  <2>2. Quiet(x, D, E, open, idle)
    BY <1>1, <1>2, <1>3, <1>5, <1>6, <1>8, <2>1 DEF EndInv, AtPeace, Peace
  <2>3. Quiet(x, D \cup {b}, E, open, idle2)
    BY <1>4, <1>5, <1>7, <2>2, ServingSent
  <2> QED
    BY <1>4, <2>1, <2>3 DEF Peace
<1>9. open = ("endOfSession" \in ending')
  BY <1>5
<1> QED
  BY <1>7, <1>8, <1>9, PutEnds

LEMMA DefinitionPut ==
  ASSUME RefInv, EndInv, PublisherOnly, NEW p \in Ports \ {"mktdata"}, p \in plan.paths,
         NEW msgs, Put(p, msgs), Shaped(msgs), NEW b, b = [msgs |-> msgs, at |-> Now],
         ~Shows(b, 0), ~Shows(b, 1), UNCHANGED <<ending, serving>>
  PROVE  EndInv'
<1>1. running /\ SignedInv
  BY DEF PublisherOnly, EndInv
<1>2. PICK D : D = ToRead(Engine, UnderWay)
  OBVIOUS
<1>3. PICK E : E = ToHear(Engine, UnderWay)
  OBVIOUS
<1>4. /\ ToRead(Engine, UnderWayWith(p, b)) = D \cup {b}
      /\ ToHear(Engine, UnderWayWith(p, b)) = E
  BY <1>1, <1>2, <1>3, PutAdds
<1>5. PICK open : open = ("endOfSession" \in ending)
  OBVIOUS
<1>6. PICK idle : idle = (Alone /\ ~serving)
  OBVIOUS
<1>8. ASSUME Undisturbed
      PROVE  Peace(Engine, UnderWayWith(p, b), open, idle)
  <2>1. PICK x : x = Engine.v
    OBVIOUS
  <2>2. Quiet(x, D, E, open, idle)
    BY <1>1, <1>2, <1>3, <1>5, <1>6, <1>8, <2>1 DEF EndInv, AtPeace, Peace
  <2>3. Quiet(x, D \cup {b}, E, open, idle)
    BY <2>2, OtherSent
  <2> QED
    BY <1>4, <2>1, <2>3 DEF Peace
<1>9. open = ("endOfSession" \in ending') /\ idle = (Alone /\ ~serving')
  BY <1>5, <1>6
<1>10. serving' => ending' = {}
  BY DEF EndInv
<1> QED
  BY <1>8, <1>9, <1>10, PutEnds

LEMMA ZeroPut ==
  ASSUME RefInv, EndInv, PublisherOnly, NEW p \in Ports \ {"mktdata"}, p \in plan.paths,
         NEW msgs, Put(p, msgs), Shaped(msgs), NEW b, b = [msgs |-> msgs, at |-> Now],
         ~Shows(b, 1), Alone, ~serving',
         \/ serving /\ (Undisturbed => "endOfSession" \in ending')
         \/ ~serving /\ ("endOfSession" \in ending' <=> "endOfSession" \in ending)
  PROVE  EndInv'
<1>1. running /\ SignedInv
  BY DEF PublisherOnly, EndInv
<1>2. PICK D : D = ToRead(Engine, UnderWay)
  OBVIOUS
<1>3. PICK E : E = ToHear(Engine, UnderWay)
  OBVIOUS
<1>4. /\ ToRead(Engine, UnderWayWith(p, b)) = D \cup {b}
      /\ ToHear(Engine, UnderWayWith(p, b)) = E
      /\ \A z \in D : Ahead(z, b)
  BY <1>1, <1>2, <1>3, PutAdds
<1>5. PICK open : open = ("endOfSession" \in ending)
  OBVIOUS
<1>6. PICK idle : idle = (Alone /\ ~serving)
  OBVIOUS
<1>7. PICK idle2 : idle2 = (Alone /\ ~serving')
  OBVIOUS
<1>8. PICK open2 : open2 = ("endOfSession" \in ending')
  OBVIOUS
<1>9. ASSUME Undisturbed
      PROVE  Peace(Engine, UnderWayWith(p, b), open2, idle2)
  <2>1. PICK x : x = Engine.v
    OBVIOUS
  <2>2. Quiet(x, D, E, open, idle)
    BY <1>1, <1>2, <1>3, <1>5, <1>6, <1>9, <2>1 DEF EndInv, AtPeace, Peace
  <2>3. (open => open2) /\ Answered(x, ServingOf(D), {}, E, open2)
    <3>1. CASE serving
      <4>1. "endOfSession" \in ending'
        BY <1>9, <3>1
      <4>2. open2
        BY <1>8, <4>1
      <4>3. Told(x, ServingOf(D), {}, E, open2)
        BY <4>2 DEF Told
      <4> QED
        BY <4>2, <4>3 DEF Answered
    <3>2. CASE ~serving
      <4>1. "endOfSession" \in ending' <=> "endOfSession" \in ending
        BY <3>2
      <4>2. open2 = open
        BY <1>5, <1>8, <4>1
      <4>3. idle
        BY <1>6, <3>2
      <4> QED
        BY <2>2, <4>2, <4>3 DEF Quiet
    <3> QED
      BY <3>1, <3>2
  <2>4. Quiet(x, D \cup {b}, E, open2, idle2)
    BY <1>4, <2>2, <2>3, ZeroSent
  <2> QED
    BY <1>4, <2>1, <2>4 DEF Peace
<1> QED
  BY <1>7, <1>8, <1>9, PutEnds

(* The publisher sends a frame of mktdata. *)
LEMMA AnnouncementPut ==
  ASSUME RefInv, EndInv, PublisherOnly, NEW msgs, Put("mktdata", msgs),
         NEW b, b = [msgs |-> msgs, at |-> Now],
         serving' => ending' = {},
         Announces(b) \/ UNCHANGED <<ending, serving>>
  PROVE  EndInv'
<1>1. running /\ SignedInv /\ "mktdata" \in Ports /\ plan \in Plans
  BY PlansAssumption DEF PublisherOnly, EndInv, RefInv, PubInv
<1>2. PICK D : D = ToRead(Engine, UnderWay)
  OBVIOUS
<1>3. PICK E : E = ToHear(Engine, UnderWay)
  OBVIOUS
<1>4. /\ ToRead(Engine, UnderWayWith("mktdata", b)) = D
      /\ ToHear(Engine, UnderWayWith("mktdata", b)) = E \cup {b}
      /\ \A z \in D : Before(z.at, b.at)
  <2>1. "mktdata" \notin plan.paths
    BY <1>1, RefPlansAssumption DEF Paths
  <2> QED
    BY <1>1, <1>2, <1>3, <2>1, PutAdds
<1>5. PICK open : open = ("endOfSession" \in ending)
  OBVIOUS
<1>6. PICK idle : idle = (Alone /\ ~serving)
  OBVIOUS
<1>7. PICK idle2 : idle2 = (Alone /\ ~serving')
  OBVIOUS
<1>8. PICK open2 : open2 = ("endOfSession" \in ending')
  OBVIOUS
<1>9. ASSUME Undisturbed
      PROVE  Peace(Engine, UnderWayWith("mktdata", b), open2, idle2)
  <2>1. PICK x : x = Engine.v
    OBVIOUS
  <2>2. Quiet(x, D, E, open, idle)
    BY <1>1, <1>2, <1>3, <1>5, <1>6, <1>9, <2>1 DEF EndInv, AtPeace, Peace
  <2>3. CASE Announces(b)
    <3>1. PICK E2 : E2 = E \cup {b}
      OBVIOUS
    <3>2. Quiet(x, D, E2, open2, idle2)
      BY <1>4, <2>2, <2>3, <3>1, AnnouncementSent
    <3> QED
      BY <1>4, <2>1, <3>1, <3>2 DEF Peace
  <2>4. CASE UNCHANGED <<ending, serving>>
    <3>1. open2 = open /\ idle2 = idle
      BY <1>5, <1>6, <1>7, <1>8, <2>4
    <3>2. Quiet(x, D, E \cup {b}, open, idle)
      BY <2>2, QuietShrinks
    <3> QED
      BY <1>4, <2>1, <3>1, <3>2 DEF Peace
  <2> QED
    BY <2>3, <2>4
<1> QED
  BY <1>1, <1>7, <1>8, <1>9, PutEnds

LEMMA SummaryPeace ==
  ASSUME RefInv, EndInv, NEW p \in Paths, SendSummary(p)
  PROVE  EndInv'
<1>1. PICK m : m = Summary(IF serving THEN 1 ELSE 0, mseq, instruments)
  OBVIOUS
<1>2. PICK b : b = [msgs |-> <<m>>, at |-> Now]
  OBVIOUS
<1>3. b.msgs = <<m>> /\ m.type = "summary" /\ m.valid = IF serving THEN 1 ELSE 0
  BY <1>1, <1>2 DEF Summary
<1>4. /\ PublisherOnly /\ Put(p, <<m>>) /\ p \in plan.paths /\ p \in Ports \ {"mktdata"}
      /\ ending = {} /\ (serving \/ Alone) /\ UNCHANGED <<ending, serving>>
  BY <1>1 DEF SendSummary, Room, Paths
<1>5. Shaped(<<m>>) /\ \A flag : Shows(b, flag) <=> m.valid = flag
  <2>1. m.valid \in {0, 1}
    BY <1>3
  <2> QED
    BY <1>3, <2>1, OneShows
<1>6. CASE serving
  <2>1. ~Shows(b, 0)
    BY <1>3, <1>5, <1>6
  <2> QED
    BY <1>2, <1>4, <1>5, <1>6, <2>1, ServingPut
<1>7. CASE ~serving
  <2>1. ~Shows(b, 1)
    BY <1>3, <1>5, <1>7
  <2> QED
    BY <1>2, <1>4, <1>5, <1>7, <2>1, ZeroPut
<1> QED
  BY <1>6, <1>7

LEMMA StartPeace ==
  ASSUME RefInv, EndInv, NEW p \in Paths, Start(p)
  PROVE  EndInv'
<1>1. PICK m : m = Summary(1, mseq, instruments)
  OBVIOUS
<1>2. PICK b : b = [msgs |-> <<m>>, at |-> Now]
  OBVIOUS
<1>3. b.msgs = <<m>> /\ m.type = "summary" /\ m.valid = 1
  BY <1>1, <1>2 DEF Summary
<1>4. /\ PublisherOnly /\ Put(p, <<m>>) /\ p \in plan.paths /\ p \in Ports \ {"mktdata"}
      /\ ending = {} /\ ending' = ending /\ serving'
  BY <1>1 DEF Start, Room, Paths
<1>5. Shaped(<<m>>) /\ ~Shows(b, 0)
  BY <1>3, OneShows
<1> QED
  BY <1>2, <1>4, <1>5, ServingPut

LEMMA ZeroPeace ==
  ASSUME RefInv, EndInv, NEW p \in Paths, SendZero(p)
  PROVE  EndInv'
<1>1. PICK m : m = Summary(0, mseq, instruments)
  OBVIOUS
<1>2. PICK b : b = [msgs |-> <<m>>, at |-> Now]
  OBVIOUS
<1>3. b.msgs = <<m>> /\ m.type = "summary" /\ m.valid = 0
  BY <1>1, <1>2 DEF Summary
<1>4. /\ PublisherOnly /\ Put(p, <<m>>) /\ p \in plan.paths /\ p \in Ports \ {"mktdata"}
      /\ Alone /\ ~serving' /\ Ends("zero")
  BY <1>1 DEF SendZero, Room, Paths, Ends
<1>5. Shaped(<<m>>) /\ ~Shows(b, 1)
  BY <1>3, OneShows
<1>6. \/ serving /\ (Undisturbed => "endOfSession" \in ending')
      \/ ~serving /\ ("endOfSession" \in ending' <=> "endOfSession" \in ending)
  <2>1. CASE serving
    <3>1. ending' = ({"zero"} \cup plan.announces) \ {"zero"}
      BY <1>4, <2>1 DEF Ends
    <3>2. plan.announces \subseteq {"endOfSession"}
      BY RefPlansAssumption DEF RefInv, PubInv
    <3> QED
      BY <2>1, <3>1, <3>2 DEF Undisturbed
  <2>2. CASE ~serving
    <3>1. ending' = ending \ {"zero"}
      BY <1>4, <2>2 DEF Ends
    <3> QED
      BY <2>2, <3>1
  <2> QED
    BY <2>1, <2>2
<1> QED
  BY <1>2, <1>4, <1>5, <1>6, ZeroPut

LEMMA DefinitionPeace ==
  ASSUME RefInv, EndInv, NEW p \in Paths, NEW id \in Ids, SendDefinition(p, id)
  PROVE  EndInv'
<1>1. PICK m : m = Definition(id)
  OBVIOUS
<1>2. PICK b : b = [msgs |-> <<m>>, at |-> Now]
  OBVIOUS
<1>3. b.msgs = <<m>> /\ m.type = "def"
  BY <1>1, <1>2 DEF Definition
<1>4. /\ PublisherOnly /\ Put(p, <<m>>) /\ p \in plan.paths /\ p \in Ports \ {"mktdata"}
      /\ UNCHANGED <<ending, serving>>
  BY <1>1 DEF SendDefinition, Room, Paths
<1>5. Shaped(<<m>>) /\ ~Shows(b, 0) /\ ~Shows(b, 1)
  BY <1>3, OneShows
<1> QED
  BY <1>2, <1>4, <1>5, DefinitionPut

LEMMA PacedPeace ==
  ASSUME RefInv, EndInv, NEW p \in Paths, NEW id \in Ids, SendPaced(p, id)
  PROVE  EndInv'
<1>1. PICK m : m = Summary(1, mseq, instruments)
  OBVIOUS
<1>2. PICK d : d = Definition(id)
  OBVIOUS
<1>3. PICK msgs \in {<<m, d>>, <<d, m>>} : Put(p, msgs)
  BY <1>1, <1>2 DEF SendPaced
<1>4. PICK b : b = [msgs |-> msgs, at |-> Now]
  OBVIOUS
<1>5. b.msgs = msgs /\ m.type = "summary" /\ m.valid = 1 /\ d.type = "def"
  BY <1>1, <1>2, <1>4 DEF Summary, Definition
<1>6. /\ PublisherOnly /\ p \in plan.paths /\ p \in Ports \ {"mktdata"}
      /\ serving /\ UNCHANGED <<ending, serving>>
  BY DEF SendPaced, Room, Paths
<1>7. ending = {}
  BY <1>6 DEF EndInv
<1>8. Shaped(msgs) /\ ~Shows(b, 0)
  BY <1>3, <1>5, TwoShow
<1> QED
  BY <1>3, <1>4, <1>6, <1>7, <1>8, ServingPut

LEMMA ChangePeace ==
  ASSUME RefInv, EndInv, NEW p \in Paths, NEW id \in Ids, NEW x, Change(p, id, x)
  PROVE  EndInv'
<1>1. PICK set : set = NewSet(id, x)
  OBVIOUS
<1>2. PICK m : m = Summary(1, NewSeq, set)
  OBVIOUS
<1>3. PICK b : b = [msgs |-> <<m>>, at |-> Now]
  OBVIOUS
<1>4. b.msgs = <<m>> /\ m.type = "summary" /\ m.valid = 1
  BY <1>2, <1>3 DEF Summary
<1>5. /\ PublisherOnly /\ Put(p, <<m>>) /\ p \in plan.paths /\ p \in Ports \ {"mktdata"}
      /\ serving /\ UNCHANGED <<ending, serving>>
  BY <1>1, <1>2 DEF Change, SetChanges, Room, Paths
<1>6. ending = {}
  BY <1>5 DEF EndInv
<1>7. Shaped(<<m>>) /\ ~Shows(b, 0)
  BY <1>4, OneShows
<1> QED
  BY <1>3, <1>5, <1>6, <1>7, ServingPut

LEMMA AnnouncementPeace ==
  ASSUME RefInv, EndInv, SendEndOfSession
  PROVE  EndInv'
<1>1. PICK m : m = [type |-> "endOfSession"]
  OBVIOUS
<1>2. PICK b : b = [msgs |-> <<m>>, at |-> Now]
  OBVIOUS
<1>3. b.msgs = <<m>> /\ m.type = "endOfSession"
  BY <1>1, <1>2
<1>4. PublisherOnly /\ Put("mktdata", <<m>>) /\ ~serving'
  BY <1>1 DEF SendEndOfSession, Ends
<1>5. Announces(b)
  BY <1>3, OneShows
<1> QED
  BY <1>2, <1>4, <1>5, AnnouncementPut

LEMMA HeartbeatPeace ==
  ASSUME RefInv, EndInv, Heartbeat
  PROVE  EndInv'
<1>1. PublisherOnly /\ Put("mktdata", << >>) /\ UNCHANGED <<ending, serving>>
  BY DEF Heartbeat, pubVars
<1>2. PICK msgs : msgs = << >>
  OBVIOUS
<1>3. PICK b : b = [msgs |-> msgs, at |-> Now]
  OBVIOUS
<1>4. serving' => ending' = {}
  BY <1>1 DEF EndInv
<1> QED
  BY <1>1, <1>2, <1>3, <1>4, AnnouncementPut

(* The publisher sends nothing. *)
LEMMA SilentPeace ==
  ASSUME RefInv, EndInv, UNCHANGED <<pt, v, plan, crossed, running, ending, serving, net>>,
         UNCHANGED <<sent, feedEra>> \/ (running /\ NextEra)
  PROVE  EndInv'
<1>1. plan \in Plans
  BY DEF RefInv, PubInv
<1>2. running => SignedInv'
  <2>1. CASE UNCHANGED <<sent, feedEra>>
    BY <2>1, PublisherSigned DEF EndInv
  <2>2. CASE running /\ NextEra
    BY <2>2, PublisherSigned DEF EndInv
  <2> QED
    BY <2>1, <2>2
<1>3. ASSUME Undisturbed', running
      PROVE  AtPeace'
  <2>1. PICK open : open = ("endOfSession" \in ending)
    OBVIOUS
  <2>2. PICK idle : idle = (Alone /\ ~serving)
    OBVIOUS
  <2>3. Peace(Engine, UnderWay, open, idle)
    BY <1>3, <2>1, <2>2 DEF EndInv, AtPeace, Undisturbed
  <2>4. Engine.pt = pt /\ Engine.v = v
    BY DEF Engine
  <2>5. UnderWay' = UnderWay
    BY DEF UnderWay
  <2>6. open = ("endOfSession" \in ending') /\ idle = (Alone /\ ~serving')
    BY <2>1, <2>2
  <2>7. PICK N : N = UnderWay
    OBVIOUS
  <2>8. Peace(Engine, N, open, idle) /\ UnderWay' = N
    BY <2>3, <2>5, <2>7
  <2> QED
    BY <1>1, <2>4, <2>6, <2>8, PeaceNow
<1>4. Undisturbed' => ~Accused(v)'
  BY DEF EndInv, Undisturbed, Accused
<1> QED
  BY <1>2, <1>3, <1>4 DEF EndInv

LEMMA CrossedLess ==
  ASSUME NEW S, NEW T, S \subseteq T, CrossedShutdown(T) = {}
  PROVE  CrossedShutdown(S) = {}
BY DEF CrossedShutdown

NoneUnderWay == [q \in Ports |-> {}]

(* Of an item that Flush has come to, when the ports before were drained.  *)
LEMMA FlushUncrossed ==
  ASSUME plan \in Plans, CrossedShutdown(PairsOnFlush) = {},
         NEW n \in 1 .. Len(FlushOrder), NEW p, p = FlushOrder[n], NEW i \in pt[p].buf,
         NEW s, \A q \in Ports : s.pt[q].buf = {} \/
                  (s.pt[q].buf = pt[q].buf /\ \A m \in 1 .. n - 1 : FlushOrder[m] # q)
  PROVE  Uncrossed(s, NoneUnderWay, p, i.body)
<1> DEFINE B(k) == Frames(pt[FlushOrder[k]].buf)
           A == UNION {B(m) : m \in n + 1 .. Len(FlushOrder)}
           C == B(n)
<1>1. /\ Len(FlushOrder) \in Nat /\ DOMAIN FlushOrder = 1 .. Len(FlushOrder)
      /\ \A m \in 1 .. Len(FlushOrder) : FlushOrder[m] \in Ports
      /\ \A q \in Ports : \E m \in 1 .. Len(FlushOrder) : FlushOrder[m] = q
  BY PlansAssumption DEF ToSet
<1>2. CrossedShutdown(Overtakes(C, A)) = {}
  <2>1. Overtakes(C, A) \subseteq PairsOnFlush
    BY <1>1 DEF PairsOnFlush
  <2> HIDE DEF A, C
  <2> QED
    BY <2>1, CrossedLess
<1>3. FrameOf(i) \in C /\ FrameOf(i).body = i.body
  BY DEF Frames, FrameOf
<1>4. ASSUME NEW q \in Ports, q # p, NEW z \in Held(s, q) \cup NoneUnderWay[q]
      PROVE  \E w \in A : w.body = z
  <2>1. PICK j \in s.pt[q].buf : z = j.body
    BY <1>4 DEF Held, NoneUnderWay
  <2>2. j \in pt[q].buf /\ \A m \in 1 .. n - 1 : FlushOrder[m] # q
    BY <2>1
  <2>3. PICK m \in 1 .. Len(FlushOrder) : FlushOrder[m] = q
    BY <1>1
  <2>4. m \in n + 1 .. Len(FlushOrder)
    <3>1. m \notin 1 .. n - 1 /\ m # n
      BY <1>4, <2>2, <2>3
    <3> QED
      BY <1>1, <3>1
  <2>5. FrameOf(j) \in B(m) /\ FrameOf(j).body = z
    BY <2>1, <2>2, <2>3 DEF Frames, FrameOf
  <2> QED
    BY <2>4, <2>5
<1> HIDE DEF A, B, C
<1>5. \A w \in A : Before(w.body.at, i.body.at) =>
        ~(Announces(i.body) /\ Shows(w.body, 1)) /\ ~(Announces(w.body) /\ Shows(i.body, 1))
  <2>1. PICK c : c = FrameOf(i)
    OBVIOUS
  <2>2. c \in C /\ c.body = i.body
    BY <1>3, <2>1
  <2> QED
    BY <1>2, <2>2, NothingCrossed
<1>6. plan.paths \subseteq Ports /\ "mktdata" \notin plan.paths /\ "mktdata" \in Ports
  BY RefPlansAssumption, PlansAssumption DEF Paths
<1>7. CASE p = "mktdata"
  <2>1. \A z \in ToRead(s, NoneUnderWay) : \E w \in A : w.body = z
    BY <1>4, <1>6, <1>7 DEF ToRead
  <2> QED
    BY <1>5, <1>7, <2>1 DEF Uncrossed, ServingOf
<1>8. CASE p # "mktdata"
  <2>1. \A z \in ToHear(s, NoneUnderWay) : \E w \in A : w.body = z
    BY <1>4, <1>6, <1>8 DEF ToHear
  <2> QED
    BY <1>5, <1>8, <2>1 DEF Uncrossed
<1> QED
  BY <1>7, <1>8

(* Flush: every buffer is read, in peace. *)
LEMMA FlushPeace ==
  ASSUME RefInv, running, HeardInv, SignedInv, SoleReader(plan), FewChanges(plan),
         CrossedShutdown(PairsOnFlush) = {},
         NEW open, NEW idle, Peace(Engine, NoneUnderWay, open, idle)
  PROVE  /\ Peace(Flushed, NoneUnderWay, open, idle) /\ EraKnown(Flushed, published)
         /\ \A q \in Ports : Flushed.pt[q].buf = {}
<1>1. PICK f : IsFlush(f, Len(FlushOrder)) /\ Flushed = f[Len(FlushOrder)]
  BY FlushFlushes
<1>2. \A n \in 0 .. Len(FlushOrder) : f[n] = IF n = 0 THEN Engine ELSE FlushStep(f[n - 1], n)
  BY <1>1, OrderLen DEF IsFlush
<1>3. /\ PubInv /\ FlowInv /\ EraKnown(Engine, published) /\ Catalogue(published)
      /\ plan \in Plans /\ DOMAIN pt = Ports
  BY PublishedIsCatalogue DEF RefInv, FlowInv, IntakeInv, PubInv
<1> DEFINE Drains(u, n) == \A q \in Ports :
             IF \E m \in 1 .. n : FlushOrder[m] = q THEN u.pt[q].buf = {} ELSE u.pt[q] = pt[q]
           Good(u, n) == /\ EraKnown(u, published) /\ Peace(u, NoneUnderWay, open, idle)
                         /\ DOMAIN u.pt = Ports /\ Drains(u, n)
           Bad == {n \in 0 .. Len(FlushOrder) : ~Good(f[n], n)}
<1>4. Good(f[0], 0)
  <2>1. f[0] = Engine /\ Engine.pt = pt
    BY <1>2, OrderLen DEF Engine
  <2>2. Drains(Engine, 0)
    BY <2>1
  <2> HIDE DEF Drains
  <2> QED
    BY <1>3, <2>1, <2>2
<1>5. ASSUME NEW n \in 1 .. Len(FlushOrder), NEW u, u = f[n - 1], Good(u, n - 1)
      PROVE  Good(f[n], n)
  <2>1. PICK p : p = FlushOrder[n]
    OBVIOUS
  <2>2. p \in Ports
    BY <2>1, OrderLen
  <2>3. f[n] = Walk(p, u, u.pt[p].buf)
    BY <1>2, <1>5, <2>1, OrderLen DEF FlushStep
  <2>4. /\ EraKnown(u, published) /\ Peace(u, NoneUnderWay, open, idle)
        /\ DOMAIN u.pt = Ports /\ Drains(u, n - 1)
    BY <1>5
  <2>5. \A q : (\E m \in 1 .. n : FlushOrder[m] = q)
                 <=> q = p \/ \E m \in 1 .. n - 1 : FlushOrder[m] = q
    <3>1. 1 .. n = (1 .. n - 1) \cup {n}
      OBVIOUS
    <3> QED
      BY <2>1, <3>1
  <2>6. CASE \E m \in 1 .. n - 1 : FlushOrder[m] = p
    <3>1. u.pt[p].buf = {}
      BY <2>2, <2>4, <2>6
    <3>2. f[n] = u
      BY <2>3, <3>1, WalkNothing
    <3>3. Drains(u, n)
      BY <2>4, <2>5, <2>6
    <3> HIDE DEF Drains
    <3> QED
      BY <2>4, <3>2, <3>3
  <2>7. CASE ~\E m \in 1 .. n - 1 : FlushOrder[m] = p
    <3>1. u.pt[p] = pt[p]
      BY <2>2, <2>4, <2>7
    <3>2. Orderly(pt[p])
      BY <2>2 DEF HeardInv, Heard
    <3>3. \A i \in pt[p].buf : SignedBy(feedEra, sent, p, i) /\ i.rc = pt[p].era
      BY <1>3, <2>2 DEF SignedInv, FlowInv, BufferInv
    <3>4. p # "mktdata" => \A i \in pt[p].buf : Readable(p, i, published) /\ Shaped(i.body.msgs)
      BY <1>3, <2>2, <3>3 DEF FlowInv, BufferInv, FrameFrom, SignedBy
    <3>5. \A i, j \in pt[p].buf : i.seq < j.seq => Apart(p, i.body, j.body)
      BY <1>3, <3>3, InSeries
    <3>6. \A i \in pt[p].buf : \A z \in NoneUnderWay[p] : Apart(p, i.body, z)
      BY <2>2 DEF NoneUnderWay
    <3>7. \A q \in Ports : u.pt[q].buf = {} \/
            (u.pt[q].buf = pt[q].buf /\ \A m \in 1 .. n - 1 : FlushOrder[m] # q)
      BY <2>4
    <3> HIDE DEF Drains
    <3>8. \A i \in pt[p].buf : Uncrossed(u, NoneUnderWay, p, i.body)
      BY <1>3, <2>1, <3>7, FlushUncrossed
    <3>9. PICK w : w = Walk(p, u, u.pt[p].buf)
      OBVIOUS
    <3>10. /\ Peace(w, NoneUnderWay, open, idle) /\ w.pt[p].buf = {}
           /\ DOMAIN w.pt = Ports /\ \A q \in Ports : q # p => w.pt[q] = u.pt[q]
      <4>1. Orderly(u.pt[p]) /\ u.pt[p].buf = pt[p].buf
        BY <3>1, <3>2
      <4>2. p # "mktdata" => \A i \in u.pt[p].buf : Readable(p, i, published) /\ Shaped(i.body.msgs)
        BY <3>4, <4>1
      <4>3. \A i, j \in u.pt[p].buf : i.seq < j.seq => Apart(p, i.body, j.body)
        BY <3>5, <4>1
      <4>4. /\ \A i \in u.pt[p].buf : \A z \in NoneUnderWay[p] : Apart(p, i.body, z)
            /\ \A i \in u.pt[p].buf : Uncrossed(u, NoneUnderWay, p, i.body)
        BY <3>6, <3>8, <4>1
      <4>5. /\ plan \in Plans /\ Catalogue(published) /\ EraKnown(u, published)
            /\ DOMAIN u.pt = Ports /\ Peace(u, NoneUnderWay, open, idle)
        BY <1>3, <2>4
      <4> HIDE DEF Good, Bad
      <4>6. LET x == Walk(p, u, u.pt[p].buf)
            IN  /\ Peace(x, NoneUnderWay, open, idle) /\ x.pt[p].buf = {}
                /\ DOMAIN x.pt = Ports /\ \A q \in Ports : q # p => x.pt[q] = u.pt[q]
        BY <2>2, <4>1, <4>2, <4>3, <4>4, <4>5, WalkPeace
      <4> QED
        BY <3>9, <4>6
    <3>11. EraKnown(w, published)
      BY <1>3, <2>2, <2>4, <3>1, <3>4, <3>9, WalkKeeps
    <3>12. Drains(w, n)
      BY <2>4, <2>5, <3>10 DEF Drains
    <3> QED
      BY <2>3, <3>9, <3>10, <3>11, <3>12
  <2> QED
    BY <2>6, <2>7
<1> HIDE DEF Good
<1>6. Bad = {}
  <2> SUFFICES ASSUME Bad # {} PROVE FALSE
    OBVIOUS
  <2>1. PICK n \in Bad : \A k \in Bad : n <= k
    <3>1. Bad \in SUBSET Nat
      OBVIOUS
    <3> HIDE DEF Bad
    <3> QED
      BY <3>1, LeastOf
  <2>2. n # 0
    BY <1>4, <2>1
  <2>3. n \in 1 .. Len(FlushOrder) /\ n - 1 \in 0 .. Len(FlushOrder) /\ n - 1 \notin Bad
    BY <2>1, <2>2, OrderLen
  <2> QED
    BY <1>5, <2>1, <2>3
<1>7. PICK u : u = Flushed
  OBVIOUS
<1>8. Good(u, Len(FlushOrder))
  BY <1>1, <1>6, <1>7, OrderLen
<1>9. \A q \in Ports : \E m \in 1 .. Len(FlushOrder) : FlushOrder[m] = q
  BY PlansAssumption DEF ToSet
<1> QED
  BY <1>7, <1>8, <1>9 DEF Good

(* EndRun: an announced end is not charged, for the announcement has been  *)
(* read.                                                                   *)
LEMMA EndRunPeace ==
  ASSUME RefInv, DeadlineInv, EndInv, SoleReader(plan), FewChanges(plan), EndRun
  PROVE  EndInv'
<1>1. /\ running /\ ~running' /\ v' = AtEnd(Flushed.v, Context(Flushed, "mktdata", NoTS))
      /\ crossed' = crossed \cup CrossedShutdown(PairsOnFlush) \cup CutShort
      /\ UNCHANGED <<plan, serving, ending>>
  BY DEF EndRun, pubVars
<1>2. HeardInv /\ SignedInv /\ plan \in Plans /\ NetInv
  BY <1>1 DEF DeadlineInv, EndInv, RefInv, PubInv, FlowInv
<1>3. ASSUME Undisturbed'
      PROVE  ~Accused(v)'
  <2>1. Undisturbed /\ CrossedShutdown(PairsOnFlush) = {} /\ CutShort = {}
    BY <1>1, <1>3 DEF Undisturbed
  <2>2. PICK open : open = ("endOfSession" \in ending)
    OBVIOUS
  <2>3. PICK idle : idle = (Alone /\ ~serving)
    OBVIOUS
  <2>4. Peace(Engine, UnderWay, open, idle)
    BY <1>1, <2>1, <2>2, <2>3 DEF EndInv, AtPeace
  <2>5. ~open /\ \A m \in DOMAIN net : ~Announces(net[m].body)
    <3>1. "endOfSession" \notin ending /\ \A d \in ToSet(net) : ~Carries(d, "endOfSession")
      BY <2>1 DEF CutShort
    <3>2. \A m \in DOMAIN net : ~Carries(net[m], "endOfSession")
      BY <3>1 DEF ToSet
    <3> QED
      BY <2>2, <3>1, <3>2 DEF Carries, Announces
  <2>6. Peace(Engine, NoneUnderWay, open, idle)
    <3>1. plan.paths \subseteq Ports /\ "mktdata" \in Ports
      BY <1>2, RefPlansAssumption, PlansAssumption DEF Paths
    <3>2. \A q \in plan.paths : Held(Engine, q) \cup NoneUnderWay[q]
                                  \subseteq Held(Engine, q) \cup UnderWay[q]
      BY <3>1 DEF NoneUnderWay
    <3>3. \A e \in ToHear(Engine, UnderWay) : Announces(e) => e \in ToHear(Engine, NoneUnderWay)
      BY <2>5, <3>1 DEF ToHear, UnderWay
    <3> QED
      BY <2>4, <3>2, <3>3, PeaceMoves
  <2>7. /\ Peace(Flushed, NoneUnderWay, open, idle) /\ EraKnown(Flushed, published)
        /\ \A q \in Ports : Flushed.pt[q].buf = {}
    BY <1>1, <1>2, <2>1, <2>6, FlushPeace
  <2>8. PICK x : x = Flushed.v
    OBVIOUS
  <2>9. ToHear(Flushed, NoneUnderWay) = {} /\ ToRead(Flushed, NoneUnderWay) = {}
    <3>1. plan.paths \subseteq Ports /\ "mktdata" \in Ports
      BY <1>2, RefPlansAssumption, PlansAssumption DEF Paths
    <3> QED
      BY <2>7, <3>1 DEF ToHear, ToRead, Held, NoneUnderWay
  <2>10. DOMAIN x = Fields /\ ~Accused(x) /\ (x.pending # Nil => x.sessionEnd)
    <3>1. Quiet(x, {}, {}, open, idle)
      BY <2>7, <2>8, <2>9 DEF Peace
    <3>2. x.pending # Nil => Told(x, {}, ServingOf({}), {}, open)
      BY <3>1 DEF Quiet
    <3> QED
      BY <2>5, <2>7, <2>8, <3>1, <3>2 DEF Told, Quiet, EraKnown, StateTyped
  <2> DEFINE no    == FALSE
             final == TRUE
             c     == Context(Flushed, "mktdata", NoTS)
             gone  == [x EXCEPT !.pending = Nil]
             on    == ~Ended(x) /\ (no \/ (c.mktSeen /\ ~c.mktDirty))
             z     == ResolveValidZero(x, no, c)
  <2>11. z = IF x.pending = Nil THEN x
             ELSE ChargeIf(gone, on, "VALID_FLAG_WHILE_SERVING", x.pending = "dirty")
    BY DEF ResolveValidZero
  <2>12. DOMAIN gone = Fields /\ gone.findings = x.findings
    BY <2>10 DEF Fields
  <2>13. x.pending # Nil => ~on
    BY <2>10 DEF Ended
  <2>14. v' = Decide(z, c, final)
    BY <1>1, <2>8 DEF AtEnd
  <2> HIDE DEF gone, on, z, c, no, final
  <2>15. DOMAIN z = Fields /\ ~Accused(z)
    BY <2>10, <2>11, <2>12, <2>13 DEF ChargeIf, Accused
  <2>16. Calm(z, Decide(z, c, final))
    BY <2>15, DecideCalm
  <2>17. PICK y : y = Decide(z, c, final)
    OBVIOUS
  <2>18. ~Accused(y)
    BY <2>15, <2>16, <2>17 DEF Calm
  <2> QED
    BY <2>14, <2>17, <2>18 DEF Accused
<1> QED
  BY <1>1, <1>3 DEF EndInv

(* Nothing has been sent: nothing shows a Valid=0, and nothing waits.      *)
LEMMA StartsPeaceful ==
  ASSUME RefInit, RefInv
  PROVE  EndInv
<1>1. /\ net = << >> /\ v = NewRefData /\ pt = [p \in Ports |-> NewTracker]
      /\ ~serving /\ ending = {} /\ plan \in Plans
  BY DEF RefInit, NetInit, Init
<1>2. \A q \in Ports : pt[q].buf = {}
  BY <1>1 DEF NewTracker
<1>3. SignedInv
  BY <1>1, <1>2 DEF SignedInv
<1>4. plan.paths \subseteq Ports /\ "mktdata" \in Ports
  BY <1>1, RefPlansAssumption, PlansAssumption DEF Paths
<1>5. \A q \in Ports : Held(Engine, q) = {} /\ UnderWay[q] = {}
  BY <1>1, <1>2 DEF Held, UnderWay, Engine
<1>6. ToRead(Engine, UnderWay) = {} /\ ToHear(Engine, UnderWay) = {}
  BY <1>4, <1>5 DEF ToRead, ToHear
<1>7. PICK open : open = ("endOfSession" \in ending)
  OBVIOUS
<1>8. PICK idle : idle = (Alone /\ ~serving)
  OBVIOUS
<1>9. ServingOf({}) = {}
  BY DEF ServingOf
<1>10. PICK x : x = Engine.v
  OBVIOUS
<1>11. ~Accused(x) /\ x.pending = Nil /\ Unset(x)
  BY <1>1, <1>10 DEF Engine, NewRefData, Accused, Unset
<1>12. Quiet(x, {}, {}, open, idle)
  BY <1>9, <1>11 DEF Quiet, Answered
<1>13. AtPeace
  BY <1>6, <1>7, <1>8, <1>10, <1>12 DEF AtPeace, Peace
<1>14. ~Accused(v)
  BY <1>10, <1>11 DEF Engine
<1> QED
  BY <1>1, <1>3, <1>13, <1>14 DEF EndInv

LEMMA EndStep ==
  ASSUME RefInv, DeadlineInv, EndInv, [RefNext]_allVars
  PROVE  EndInv'
<1>1. SoleReader(plan) /\ FewChanges(plan)
  BY ApartAssumption DEF RefInv, PubInv
<1>2. ASSUME NEW p \in Paths, SendSummary(p) \/ Start(p) \/ SendZero(p)
      PROVE  EndInv'
  BY <1>2, SummaryPeace, StartPeace, ZeroPeace
<1>3. ASSUME NEW p \in Paths, NEW id \in Ids, SendDefinition(p, id) \/ SendPaced(p, id)
      PROVE  EndInv'
  BY <1>3, DefinitionPeace, PacedPeace
<1>4. ASSUME NEW p \in Paths, NEW id \in Ids, NEW x \in Instrument \cup {NoOne}, Change(p, id, x)
      PROVE  EndInv'
  BY <1>4, ChangePeace
<1>5. ASSUME SendEndOfSession \/ Heartbeat
      PROVE  EndInv'
  BY <1>5, AnnouncementPeace, HeartbeatPeace
<1>6. ASSUME Tick \/ \E id \in Ids : FixStrike(id)
      PROVE  EndInv'
  <2>1. /\ UNCHANGED <<pt, v, plan, crossed, running, ending, serving, net>>
        /\ UNCHANGED <<sent, feedEra>>
    BY <1>6 DEF Tick, FixStrike, PublisherOnly, vars, recVars
  <2> QED
    BY <2>1, SilentPeace
<1>12. ASSUME NEW id \in Ids, NEW x \in Instrument \cup {NoOne}, ChangeAhead(id, x)
       PROVE  EndInv'
  <2>1. /\ UNCHANGED <<pt, v, plan, crossed, running, ending, serving, net>>
        /\ UNCHANGED <<sent, feedEra>>
    BY <1>12 DEF ChangeAhead, PublisherOnly, vars, recVars
  <2> QED
    BY <2>1, SilentPeace
<1>7. ASSUME NEW seq \in {1, mseq}, ChannelReset(seq)
      PROVE  EndInv'
  <2>1. /\ UNCHANGED <<pt, v, plan, crossed, running, ending, serving, net>>
        /\ running /\ NextEra
    BY <1>7 DEF ChannelReset, PublisherOnly, NextEra, vars, recVars
  <2> QED
    BY <2>1, SilentPeace
<1>8. ASSUME NEW n \in DOMAIN net, Deliver(n)
      PROVE  EndInv'
  BY <1>1, <1>8, DeliverEnds
<1>9. ASSUME NEW n \in DOMAIN net, Lose(n)
      PROVE  EndInv'
  BY <1>9, LosePeace
<1>10. ASSUME EndRun
       PROVE  EndInv'
  BY <1>1, <1>10, EndRunPeace
<1>11. ASSUME UNCHANGED allVars
       PROVE  EndInv'
  <2>1. /\ UNCHANGED <<pt, v, plan, crossed, running, ending, serving, net>>
        /\ UNCHANGED <<sent, feedEra>>
    BY <1>11 DEF allVars, vars, netVars, pubVars, recVars
  <2> QED
    BY <2>1, SilentPeace
<1> QED
  BY <1>2, <1>3, <1>4, <1>5, <1>6, <1>7, <1>8, <1>9, <1>10, <1>11, <1>12 DEF RefNext

(* VALID_FLAG_WHILE_SERVING never charges a publisher that announces its   *)
(* sessions' ends: when no datagram of mktdata is lost, the finding needs  *)
(* an EndOfSession that was cut short, was dropped as a straggler of an    *)
(* earlier era, or was overtaken by a Valid=1 summary or overtook one. It  *)
(* holds with loss and resets on the reference-data paths, because a       *)
(* Valid=0 waits for the announcement (EndInv).                            *)
THEOREM ShutdownIsJudgedRight == RefSpec => []ShutdownVerdictIsTrue
<1>1. RefInit => RefInv /\ DeadlineInv /\ EndInv
  BY StartsRight, StartsDecided, StartsPeaceful
<1>2. (RefInv /\ DeadlineInv /\ EndInv) /\ [RefNext]_allVars => (RefInv /\ DeadlineInv /\ EndInv)'
  BY RefNextKeeps, DeadlineStep, EndStep
<1>3. EndInv => ShutdownVerdictIsTrue
  BY DEF EndInv, Undisturbed, Accused, ShutdownVerdictIsTrue
<1> QED
  BY <1>1, <1>2, <1>3, PTL DEF RefSpec
=============================================================================

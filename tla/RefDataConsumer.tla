--------------------------- MODULE RefDataConsumer ---------------------------
(***************************************************************************)
(* The reference-data validator of one channel (engine/refdata.go): the    *)
(* subscriber's set state machine, the rules on the manifest and on the    *)
(* definitions, strike continuity, the timing rules, and the verdict on a  *)
(* Valid=0 held until the end of the session is known.                     *)
(*                                                                         *)
(* An operator takes the validator's state v, a message m and the context  *)
(* c it is judged in: ts, the datagram's Send Timestamp; dirty, whether    *)
(* its path is gapped; taints, how often that path was; cadence and cycle, *)
(* the --expect flags, 0 when not given; and what the engine answers:      *)
(* anyDirty, mktSeen, mktDirty, unread and stranded.                       *)
(*                                                                         *)
(* Abstractions. A finding is the rule's name; only violations are kept.   *)
(* Manifest sequences count modulo M, 2^16 in the code. A StrikeInterval   *)
(* that a structural rule rejects, and a datagram of an unknown schema,    *)
(* are left out.                                                           *)
(***************************************************************************)
EXTENDS Integers, FiniteSets

CONSTANTS
  M,      \* the modulus of Manifest Seq
  Ids     \* Instrument IDs

ASSUME ModulusAssumption == M \in Nat /\ M > 2 /\ M % 2 = 0
ASSUME IdsAssumption     == IsFiniteSet(Ids)

Nil      == "nil"
NoTS     == -1
NoStrike == [strike |-> "none", symbol |-> 0, seq |-> 0, taints |-> 0]

-----------------------------------------------------------------------------
IsLaterByValue(b, a) == b > a        \* variant: the wrap is forgotten

IsLater(b, a) == LET d == (b - a) % M IN d # 0 /\ d < M \div 2

NewRefData ==
  [ valid |-> FALSE, latest |-> 0, expected |-> 0, defs |-> {},
    strikes |-> [id \in Ids |-> NoStrike],
    seqEverSet |-> FALSE, prev |-> << >>, frozen |-> {}, hadSet |-> FALSE,
    pending |-> Nil, sessionEnd |-> FALSE,
    lastManifest |-> NoTS, first |-> NoTS, lastServing |-> NoTS, lastRefdata |-> NoTS,
    ready |-> NoTS, decided |-> FALSE,
    cycle |-> NoTS, seen |-> {}, defFrames |-> 0, prevDefFrame |-> NoTS,
    findings |-> {} ]

Ready(v) == v.valid /\ Cardinality(v.defs) = v.expected

Charge(v, rule) == [v EXCEPT !.findings = @ \cup {rule}]

(* A violation, or unverifiable on a gapped path.                          *)
ChargeIf(v, cond, rule, dirty) == IF cond /\ ~dirty THEN Charge(v, rule) ELSE v

(* A Reset Count change: the channel's state is discarded, all but a held  *)
(* verdict and the mark that a session ended.                              *)
OnResetChannel(v) ==
  [NewRefData EXCEPT !.pending = v.pending, !.sessionEnd = v.sessionEnd,
                     !.findings = v.findings]

-----------------------------------------------------------------------------
(* NEVER_REACHES_READY.                                                    *)
Window(c) == c.cadence + c.cycle

Decided(v) == [v EXCEPT !.decided = TRUE]

Later(a, b) == IF a > b THEN a ELSE b

ClosedBy(v) == Later(v.lastServing, v.lastRefdata)

Overdue(v, c) ==
  IF v.ready # NoTS THEN v.ready - v.first > Window(c) ELSE ClosedBy(v) - v.first > Window(c)

(* Neither the deadline nor a ready channel settles it yet.                *)
Open(v, c) ==
  \/ v.first = NoTS
  \/ v.ready = NoTS /\ (v.lastServing < v.first \/ ClosedBy(v) - v.first <= Window(c))

UnreadIgnored(c) == FALSE          \* variant: the verdict does not wait for the buffers

Unread(c) == c.unread

Decide(v, c, final) ==
  LET waits == ~final /\ Unread(c)
      gapped == c.anyDirty \/ (~final /\ c.stranded)
  IN  IF v.decided THEN v
      ELSE IF c.cadence = 0 \/ c.cycle = 0 \/ Open(v, c)
        THEN IF final THEN Decided(v) ELSE v
      ELSE IF v.ready # NoTS /\ v.ready >= v.first /\ ~Overdue(v, c) THEN Decided(v)
      ELSE IF waits THEN v
      ELSE ChargeIf(Decided(v), Overdue(v, c), "NEVER_REACHES_READY", gapped)

-----------------------------------------------------------------------------
(* resolveValidZero: the verdict on a held Valid=0.                        *)
Ended(v) == v.sessionEnd

ResolveValidZero(v, resumed, c) ==
  IF v.pending = Nil THEN v
  ELSE ChargeIf([v EXCEPT !.pending = Nil],
                ~Ended(v) /\ (resumed \/ (c.mktSeen /\ ~c.mktDirty)),
                "VALID_FLAG_WHILE_SERVING", v.pending = "dirty")

-----------------------------------------------------------------------------
(* onManifestSummary: a summary is first judged, then applied.             *)
Advancing(v, m) == ~v.valid \/ IsLater(m.seq, v.latest)

Incoherent(v, m) ==
  /\ m.valid = 1
  /\ \/ m.seq = 0 /\ ~(v.seqEverSet /\ v.latest = M - 1)
     \/ m.count = 0 /\ Advancing(v, m)

Regresses(v, m) == v.seqEverSet /\ m.valid = 1 /\ IsLater(v.latest, m.seq)

BumpsByMore(v, m) ==
  /\ v.seqEverSet /\ m.valid = 1 /\ IsLater(m.seq, v.latest)
  /\ m.seq # (v.latest + 1) % M

CountChanges(v, m) ==
  m.valid = 1 /\ v.prev # << >> /\ m.seq = v.prev[1] /\ m.count # v.prev[2]

OutOfState(v, m) ==
  \/ m.valid > 1
  \/ m.valid = 1 /\ m.count = 0 /\ v.hadSet /\ m.seq = v.latest

Judged(v, m, c) ==
  LET bump  == ChargeIf(v, BumpsByMore(v, m), "SEQ_BUMP_NOT_BY_ONE", c.dirty)
      count == ChargeIf(bump, CountChanges(v, m), "COUNT_CHANGE_NO_SEQ_BUMP", c.dirty)
  IN  ChargeIf(count, OutOfState(v, m), "STATE_MACHINE", c.dirty)

(* A variant: only the flag goes.                                          *)
InvalidatedByFlag(v, c) == [v EXCEPT !.valid = FALSE, !.lastManifest = c.ts]

(* Valid=0: the set and its history go, the serving period does not.       *)
Invalidated(v, c) ==
  [v EXCEPT !.valid = FALSE, !.latest = 0, !.expected = 0, !.defs = {},
            !.strikes = [id \in Ids |-> NoStrike], !.seqEverSet = FALSE, !.prev = << >>,
            !.frozen = {}, !.hadSet = FALSE, !.lastManifest = c.ts,
            !.cycle = NoTS, !.seen = {}, !.defFrames = 0, !.prevDefFrame = NoTS]

(* The tumbling window of the definition cycle is closed once it is over,  *)
(* judged if a set stands, and reopened.                                   *)
OpenCycle(v, c) ==
  [v EXCEPT !.cycle = c.ts, !.seen = {}, !.defFrames = 0, !.prevDefFrame = NoTS]

Covered(v) == v.frozen \subseteq v.seen

CloseCycle(v, c) ==
  LET covered == ChargeIf(v, v.frozen # {} /\ ~Covered(v), "DEFINITION_CYCLE_COVERAGE", c.dirty)
      burst   == v.frozen # {} /\ Covered(v) /\ v.expected > 1 /\ v.defFrames = 1
  IN  IF c.cycle > 0 /\ v.cycle # NoTS /\ c.ts - v.cycle >= c.cycle
        THEN OpenCycle(ChargeIf(covered, burst, "NO_BURST_DEFINITIONS", c.dirty), c)
        ELSE v

CadenceMissed(v, c) ==
  c.cadence > 0 /\ v.lastManifest # NoTS /\ c.ts - v.lastManifest > c.cadence

(* A channel served before comes back: the last period is judged, and the  *)
(* new one starts with its own deadline.                                   *)
NewPeriod(v, c) ==
  IF v.valid \/ v.first = NoTS THEN v
  ELSE [Decide(v, c, TRUE) EXCEPT !.ready = NoTS, !.first = NoTS, !.lastServing = NoTS,
                                  !.lastRefdata = NoTS, !.decided = FALSE]

(* So does a new Manifest Seq, without a verdict on the last.              *)
Restarts(v, m) == v.valid /\ IsLater(m.seq, v.latest)


Applied(v, m, c) ==
  LET adv     == Advancing(v, m)
      fresh   == v.first # NoTS /\ Restarts(v, m)
      stamped == IF v.first = NoTS THEN [v EXCEPT !.first = c.ts]
                 ELSE IF fresh THEN [v EXCEPT !.first = c.ts, !.lastRefdata = NoTS,
                                              !.ready = NoTS, !.decided = FALSE]
                 ELSE v
      set     == [stamped EXCEPT !.valid = TRUE, !.seqEverSet = TRUE,
                                 !.prev = <<m.seq, m.count>>,
                                 !.latest   = IF adv THEN m.seq ELSE @,
                                 !.expected = IF adv THEN m.count ELSE @,
                                 !.defs     = IF adv THEN {} ELSE @,
                                 !.frozen   = IF adv THEN {} ELSE @,
                                 !.lastManifest = c.ts, !.lastServing = c.ts]
  IN  IF c.cycle > 0 /\ v.cycle = NoTS THEN OpenCycle(set, c) ELSE set

(* A Valid=1 summary settles a held verdict and forgets the session's end. *)
Resumed(v, c) == [ResolveValidZero(v, TRUE, c) EXCEPT !.sessionEnd = FALSE]

Serving(v, m, c) ==
  LET resumed == Resumed(v, c)
      cadence == ChargeIf(resumed, CadenceMissed(v, c), "MANIFEST_CADENCE", c.dirty)
  IN  Applied(NewPeriod(CloseCycle(cadence, c), c), m, c)

(* A variant: the verdict is taken at once.                                *)
ArmedAtOnce(v, m, c) ==
  ChargeIf(v, m.valid = 0 /\ v.hadSet /\ ~Ended(v), "VALID_FLAG_WHILE_SERVING", c.dirty)

Armed(v, m, c) ==
  IF m.valid = 0 /\ v.hadSet
    THEN [v EXCEPT !.pending = IF c.dirty THEN "dirty" ELSE "clean"] ELSE v

OnManifestSummary(v, m, c) ==
  LET armed  == Armed(v, m, c)
      judged == Judged(armed, m, c)
  IN  IF Incoherent(v, m)
        THEN ChargeIf(v, TRUE, "MANIFEST_SEQ_NONZERO_WHEN_VALID", c.dirty)
      ELSE IF Regresses(armed, m)
        THEN ChargeIf(armed, TRUE, "SEQ_MONOTONIC_NO_REGRESS", c.dirty)
      ELSE IF m.valid > 1 THEN judged
      ELSE IF m.valid = 0 THEN Invalidated(judged, c)
      ELSE Serving(judged, m, c)

-----------------------------------------------------------------------------
(* onDefinitionStrike: an accepted definition against the last one.        *)
GappedSince(was, c)  == was.taints # c.taints

Comparable(v, was) == was.seq \in {v.latest, (v.latest - 1) % M}

OnDefinitionStrike(v, m, c) ==
  LET was    == v.strikes[m.id]
      judge  == /\ was # NoStrike
                /\ was.symbol = m.symbol
                /\ Comparable(v, was)
                /\ ~GappedSince(was, c)
      absent == m.strike = "absent"
      shape  == ChargeIf(v, judge /\ (was.strike = "absent") # absent,
                         "PRESENCE_STABLE", FALSE)
      kept   == ChargeIf(shape, judge /\ was.strike = "fixed" /\ m.strike = "pending",
                         "FIXED_STAYS_FIXED", FALSE)
  IN  [kept EXCEPT !.strikes[m.id] = [strike |-> m.strike, symbol |-> m.symbol,
                                      seq |-> v.latest, taints |-> c.taints]]

(* The first time the set is complete it is frozen, and what left it is    *)
(* forgotten.                                                              *)
Freeze(v, c) ==
  IF v.frozen # {} \/ ~Ready(v) THEN v
  ELSE [v EXCEPT !.hadSet = TRUE, !.frozen = v.defs,
                 !.strikes = [id \in Ids |-> IF id \in v.defs THEN @[id] ELSE NoStrike],
                 !.ready = IF @ = NoTS THEN c.ts ELSE @]

NoteInCycle(v, m, c) ==
  IF c.cycle = 0 \/ v.cycle = NoTS THEN v
  ELSE [v EXCEPT !.seen = @ \cup {m.id},
                 !.defFrames = IF v.prevDefFrame = c.ts THEN @ ELSE @ + 1,
                 !.prevDefFrame = c.ts]

AcceptsAny(v, m) == v.valid        \* variant: the tag is only reported

(* onInstrumentDef: a definition of another set is discarded.              *)
Accepts(v, m) == v.valid /\ m.seq = v.latest

OnInstrumentDef(v, m, c) ==
  LET stale  == ChargeIf(v, v.valid /\ m.seq # v.latest, "STALE_SEQ_TAG_AFTER_BUMP", c.dirty)
      joined == [ChargeIf(stale, v.frozen # {} /\ m.id \notin v.frozen,
                          "SET_CHANGE_NO_SEQ_BUMP", c.dirty) EXCEPT !.defs = @ \cup {m.id}]
      within == ChargeIf(joined, Cardinality(joined.defs) > v.expected,
                         "COUNT_VS_DISTINCT_DEFS", c.dirty)
  IN  IF ~Accepts(v, m) THEN stale
      ELSE OnDefinitionStrike(NoteInCycle(Freeze(within, c), m, c), m, c)

-----------------------------------------------------------------------------
(* processRefdataFrame, after the era: each message, then the clock the    *)
(* deadline is read on, and Decide.                                        *)
OnRefData(v, m, c) ==
  IF m.type = "summary" THEN OnManifestSummary(v, m, c) ELSE OnInstrumentDef(v, m, c)

Clocked(v, c) ==
  [v EXCEPT !.lastRefdata = IF v.valid THEN Later(@, c.ts) ELSE @]

(* EndRun: the held verdict, then the period still open.                   *)
AtEnd(v, c) == Decide(ResolveValidZero(v, FALSE, c), c, TRUE)
=============================================================================

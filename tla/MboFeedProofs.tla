---------------------------- MODULE MboFeedProofs ----------------------------
(***************************************************************************)
(* What the market-by-order validator (engine/gate.go, engine/book.go)     *)
(* keeps is typed, and the book it trusts is the published one, for every  *)
(* set of instruments, orders and plans.                                   *)
(***************************************************************************)
EXTENDS MboFeed, PortSeriesProofs

-----------------------------------------------------------------------------
(* The validator's state is typed.                                         *)
StateFields ==
  {"instr", "snap", "books", "suspects", "open", "lastBatch", "high", "maxCycle",
   "resetEra", "findings"}

InstrFields ==
  {"last", "seenReset", "payloads", "pendingReset", "recoveryK", "trusted", "corrupted",
   "awaiting"}

GroupFields ==
  {"instr", "id", "anchor", "total", "received", "lastK", "orders", "dirty", "invalid",
   "portSeq"}

BookFields  == {"live", "removed", "hidden", "trades"}
OrderFields == {"side", "source", "left"}

InstrTyped(in) ==
  /\ DOMAIN in = InstrFields
  /\ in.last \in {Nil} \cup 1 .. plan.deltas
  /\ in.trusted \in BOOLEAN /\ (in.trusted => in.last # Nil)

BookTyped(bk) ==
  /\ DOMAIN bk = BookFields /\ DOMAIN bk.live = OrderIds
  /\ \A o \in OrderIds : DOMAIN bk.live[o] = OrderFields /\ bk.live[o].left \in 0 .. MaxLots

OpenTyped(o) ==
  \/ o = NoGroup
  \/ DOMAIN o = GroupFields /\ o.instr \in Instruments /\ o.received \in Nat

StateTyped(w) ==
  /\ DOMAIN w = StateFields
  /\ DOMAIN w.instr = Instruments /\ \A i \in Instruments : InstrTyped(w.instr[i])
  /\ DOMAIN w.books = Instruments /\ \A i \in Instruments : BookTyped(w.books[i])
  /\ DOMAIN w.suspects = Instruments
  /\ OpenTyped(w.open)

(* The messages a handler may be given. *)
BodyTyped(m) ==
  /\ m.order \in OrderIds /\ m.type \in {"add", "cancel", "execute"}
  /\ m.type = "add" => m.qty \in 0 .. MaxLots
  /\ m.type = "execute" => m.qty \in Nat

MktdataTyped(m) ==
  /\ m.type \in {"delta", "trade", "reset", "batch"}
  /\ m.type = "delta" => m.instr \in Instruments /\ m.seq \in 1 .. plan.deltas /\ BodyTyped(m.body)
  /\ m.type = "reset" => m.instr \in Instruments

SnapshotTyped(m) ==
  /\ m.type \in {"begin", "order", "end"}
  /\ m.type = "begin" => m.instr \in Instruments

MessageTyped(p, m) == IF p = "snapshot" THEN SnapshotTyped(m) ELSE MktdataTyped(m)

LEMMA NoGroupApart == \A o : DOMAIN o = GroupFields => o # NoGroup
  BY DEF GroupFields, NoGroup

LEMMA NewInstrTyped ==
  /\ InstrTyped(NewInstr) /\ NewInstr.last = Nil /\ ~NewInstr.trusted
  /\ \A a : LET r == [NewInstr EXCEPT !.seenReset = TRUE, !.pendingReset = a, !.awaiting = a]
            IN  InstrTyped(r) /\ r.last = Nil /\ ~r.trusted
BY DEF InstrTyped, NewInstr, InstrFields

LEMMA NewBookTyped == BookTyped(NewBook) /\ \A o \in OrderIds : ~Live(NewBook, o)
BY FeedAssumption DEF BookTyped, NewBook, BookFields, NoOrder, OrderFields, Live

(* A charge touches the findings only. *)
LEMMA ChargeKeeps ==
  ASSUME NEW w, DOMAIN w = StateFields, NEW rules
  PROVE  LET c == Charge(w, rules)
         IN  /\ DOMAIN c = StateFields
             /\ c.instr = w.instr /\ c.snap = w.snap /\ c.books = w.books
             /\ c.suspects = w.suspects /\ c.open = w.open /\ c.resetEra = w.resetEra
BY DEF Charge, StateFields

LEMMA ChargeTyped ==
  ASSUME NEW w, StateTyped(w), NEW rules
  PROVE  StateTyped(Charge(w, rules))
<1>1. DOMAIN w = StateFields
  BY DEF StateTyped
<1> QED
  BY <1>1, ChargeKeeps DEF StateTyped

(* What a message does to the live orders of a book. *)
Removes(bk, m) == m.type = "cancel" \/ (m.type = "execute" /\ FillsUp(bk.live[m.order], m))

Outcome(bk, m) ==
  CASE m.type = "add" /\ ~m.hidden -> [side |-> m.side, source |-> m.source, left |-> m.qty]
    [] m.type # "add" /\ Removes(bk, m) -> NoOrder
    [] m.type = "execute" /\ ~Removes(bk, m) /\ m.qty < bk.live[m.order].left ->
         [bk.live[m.order] EXCEPT !.left = @ - m.qty]
    [] OTHER -> bk.live[m.order]

TookEffect(b, bk, m) ==
  /\ DOMAIN b = BookFields /\ DOMAIN b.live = OrderIds
  /\ \A o \in OrderIds :
       b.live[o] = IF o = m.order /\ (m.type = "add" \/ Live(bk, o))
                     THEN Outcome(bk, m) ELSE bk.live[o]

LEMMA OrderMessageDoes ==
  ASSUME NEW bk, BookTyped(bk), NEW m, BodyTyped(m)
  PROVE  TookEffect(OnOrderMessage(bk, m).book, bk, m)
<1> DEFINE b == OnOrderMessage(bk, m).book
           o == m.order
<1> SUFFICES TookEffect(b, bk, m)
  OBVIOUS
<1>1. DOMAIN bk = BookFields /\ DOMAIN bk.live = OrderIds /\ o \in OrderIds
  BY DEF BookTyped, BodyTyped
<1>2. \A r : (/\ DOMAIN b = BookFields /\ b.live = [bk.live EXCEPT ![o] = r]
              /\ r = Outcome(bk, m) /\ (m.type = "add" \/ Live(bk, o)))
             => TookEffect(b, bk, m)
  <2> HIDE DEF b
  <2> QED
    BY <1>1 DEF TookEffect
<1>3. (/\ DOMAIN b = BookFields /\ b.live = bk.live
       /\ (m.type = "add" \/ Live(bk, o)) => bk.live[o] = Outcome(bk, m))
      => TookEffect(b, bk, m)
  <2> HIDE DEF b
  <2> QED
    BY <1>1 DEF TookEffect
<1>4. \A x, vs : After(x, vs).book = x
  BY DEF After
<1>5. CASE m.type = "add"
  <2>1. b = Inserted(bk, m)
    BY <1>4, <1>5 DEF OnOrderMessage, OnAdd
  <2>2. CASE m.hidden
    <3>1. Outcome(bk, m) = bk.live[o]
      BY <1>5, <2>2 DEF Outcome
    <3>2. b.live = bk.live /\ DOMAIN b = BookFields
      BY <1>1, <2>1, <2>2 DEF Inserted, BookFields
    <3> HIDE DEF b
    <3> QED
      BY <1>3, <3>1, <3>2
  <2>3. CASE ~m.hidden
    <3> DEFINE r == [side |-> m.side, source |-> m.source, left |-> m.qty]
    <3>1. Outcome(bk, m) = r
      BY <1>5, <2>3 DEF Outcome
    <3>2. b.live = [bk.live EXCEPT ![o] = r] /\ DOMAIN b = BookFields
      BY <1>1, <2>1, <2>3 DEF Inserted, BookFields
    <3> HIDE DEF b, r
    <3> QED
      BY <1>2, <1>5, <3>1, <3>2
  <2> QED
    BY <2>2, <2>3
<1>6. CASE m.type = "cancel"
  <2>1. b = IF Live(bk, o) THEN Retire(bk, o) ELSE bk
    BY <1>4, <1>6 DEF OnOrderMessage, OnCancel
  <2>2. Outcome(bk, m) = NoOrder
    BY <1>6 DEF Outcome, Removes
  <2>3. CASE Live(bk, o)
    <3>1. b.live = [bk.live EXCEPT ![o] = NoOrder] /\ DOMAIN b = BookFields
      BY <1>1, <2>1, <2>3 DEF Retire, BookFields
    <3> HIDE DEF b
    <3> QED
      BY <1>2, <2>2, <2>3, <3>1
  <2>4. CASE ~Live(bk, o)
    BY <1>1, <1>3, <1>6, <2>1, <2>4
  <2> QED
    BY <2>3, <2>4
<1>7. CASE m.type = "execute"
  <2> DEFINE noted == IF m.trade # 0 THEN [bk EXCEPT !.trades = Added(@, m.trade, MaxTrades)] ELSE bk
  <2>1. DOMAIN noted = BookFields /\ noted.live = bk.live
    BY <1>1 DEF BookFields
  <2>2. b = IF ~Live(bk, o) THEN noted
            ELSE IF FillsUp(bk.live[o], m) THEN Retire(noted, o)
            ELSE IF m.qty < bk.live[o].left
                   THEN [noted EXCEPT !.live[o].left = @ - m.qty] ELSE noted
    BY <1>4, <1>7 DEF OnOrderMessage, OnExecute
  <2> HIDE DEF noted
  <2>3. CASE ~Live(bk, o)
    <3>1. b.live = bk.live /\ DOMAIN b = BookFields
      BY <2>1, <2>2, <2>3
    <3> HIDE DEF b
    <3> QED
      BY <1>3, <1>7, <2>3, <3>1
  <2>4. CASE Live(bk, o) /\ FillsUp(bk.live[o], m)
    <3>1. Outcome(bk, m) = NoOrder
      BY <1>7, <2>4 DEF Outcome, Removes
    <3>2. b.live = [bk.live EXCEPT ![o] = NoOrder] /\ DOMAIN b = BookFields
      BY <1>1, <2>1, <2>2, <2>4 DEF Retire, BookFields
    <3> HIDE DEF b
    <3> QED
      BY <1>2, <2>4, <3>1, <3>2
  <2>5. CASE Live(bk, o) /\ ~FillsUp(bk.live[o], m) /\ m.qty < bk.live[o].left
    <3> DEFINE r == [bk.live[o] EXCEPT !.left = @ - m.qty]
    <3>1. Outcome(bk, m) = r
      BY <1>7, <2>5 DEF Outcome, Removes
    <3>2. b = [noted EXCEPT !.live[o].left = @ - m.qty]
      BY <2>2, <2>5
    <3>3. b.live = [bk.live EXCEPT ![o] = r] /\ DOMAIN b = BookFields
      BY <1>1, <2>1, <3>2 DEF BookFields
    <3> HIDE DEF b, r
    <3> QED
      BY <1>2, <2>5, <3>1, <3>3
  <2>6. CASE Live(bk, o) /\ ~FillsUp(bk.live[o], m) /\ ~(m.qty < bk.live[o].left)
    <3>1. Outcome(bk, m) = bk.live[o]
      BY <1>7, <2>6 DEF Outcome, Removes
    <3>2. b.live = bk.live /\ DOMAIN b = BookFields
      BY <2>1, <2>2, <2>6
    <3> HIDE DEF b
    <3> QED
      BY <1>3, <3>1, <3>2
  <2> QED
    BY <2>3, <2>4, <2>5, <2>6
<1> QED
  BY <1>5, <1>6, <1>7 DEF BodyTyped

LEMMA BookKeepsTypes ==
  ASSUME NEW bk, BookTyped(bk), NEW m, BodyTyped(m)
  PROVE  BookTyped(OnOrderMessage(bk, m).book)
<1> DEFINE b == OnOrderMessage(bk, m).book
           r == Outcome(bk, m)
           old == bk.live[m.order]
<1>1. /\ DOMAIN bk.live = OrderIds /\ m.order \in OrderIds
      /\ \A o \in OrderIds : DOMAIN bk.live[o] = OrderFields /\ bk.live[o].left \in 0 .. MaxLots
  BY DEF BookTyped, BodyTyped
<1>2. DOMAIN b = BookFields /\ DOMAIN b.live = OrderIds
      /\ \A o \in OrderIds : b.live[o] \in {r, bk.live[o]}
  <2>1. TookEffect(b, bk, m)
    BY OrderMessageDoes
  <2> HIDE DEF b, r
  <2> QED
    BY <2>1 DEF TookEffect, r
<1>3. DOMAIN NoOrder = OrderFields /\ NoOrder.left = 0
  BY DEF NoOrder, OrderFields
<1>4. DOMAIN r = OrderFields /\ r.left \in 0 .. MaxLots
  <2>1. DOMAIN old = OrderFields /\ old.left \in 0 .. MaxLots
    BY <1>1
  <2>2. CASE m.type = "add" /\ ~m.hidden
    <3>1. r = [side |-> m.side, source |-> m.source, left |-> m.qty]
      BY <2>2 DEF Outcome
    <3> QED
      BY <2>2, <3>1 DEF OrderFields, BodyTyped
  <2>3. CASE m.type # "add" /\ Removes(bk, m)
    <3>1. r = NoOrder
      BY <2>3 DEF Outcome
    <3> QED
      BY <1>3, <3>1, FeedAssumption
  <2>4. CASE m.type = "execute" /\ ~Removes(bk, m) /\ m.qty < old.left
    <3>1. r = [old EXCEPT !.left = @ - m.qty]
      BY <2>4 DEF Outcome
    <3>2. m.qty \in Nat
      BY <2>4 DEF BodyTyped
    <3> HIDE DEF r, old
    <3> QED
      BY <2>1, <2>4, <3>1, <3>2, FeedAssumption DEF OrderFields
  <2>5. CASE /\ ~(m.type = "add" /\ ~m.hidden) /\ ~(m.type # "add" /\ Removes(bk, m))
             /\ ~(m.type = "execute" /\ ~Removes(bk, m) /\ m.qty < old.left)
    <3>1. r = old
      BY <2>5 DEF Outcome
    <3> QED
      BY <2>1, <3>1
  <2> QED
    BY <2>2, <2>3, <2>4, <2>5
<1> HIDE DEF b, r
<1> QED
  BY <1>1, <1>2, <1>4 DEF BookTyped, b

-----------------------------------------------------------------------------
(* What the handlers do to the state the properties speak of.              *)
Same(w, u) ==
  /\ u.resetEra = w.resetEra /\ u.books = w.books
  /\ \A i \in Instruments :
       u.instr[i].last = w.instr[i].last /\ (u.instr[i].trusted <=> w.instr[i].trusted)

Kept(w, u) == StateTyped(u) /\ Same(w, u)

(* Only instrument i and its book change. *)
Changed(w, u, i, r, b) ==
  /\ StateTyped(u) /\ u.resetEra = w.resetEra
  /\ u.instr[i] = r /\ u.books[i] = b
  /\ \A j \in Instruments : j # i => u.instr[j] = w.instr[j] /\ u.books[j] = w.books[j]

LEMMA KeptTwice ==
  ASSUME NEW w, NEW u, NEW x, Kept(w, u), Kept(u, x)
  PROVE  Kept(w, x)
BY DEF Kept, Same

LEMMA OneChanged ==
  ASSUME NEW w, StateTyped(w), NEW i \in Instruments, NEW r, InstrTyped(r), NEW b, BookTyped(b),
         NEW u, DOMAIN u = StateFields, u.resetEra = w.resetEra,
         u.instr = [w.instr EXCEPT ![i] = r], u.books = [w.books EXCEPT ![i] = b],
         DOMAIN u.suspects = Instruments, OpenTyped(u.open)
  PROVE  Changed(w, u, i, r, b)
BY DEF Changed, StateTyped

(* A handler that leaves the trust of an instrument and its book alone. *)
LEMMA OneKept ==
  ASSUME NEW w, StateTyped(w), NEW i \in Instruments, NEW r, DOMAIN r = InstrFields,
         r.last = w.instr[i].last, r.trusted = w.instr[i].trusted,
         NEW u, DOMAIN u = StateFields, u.resetEra = w.resetEra, u.books = w.books,
         u.instr = [w.instr EXCEPT ![i] = r],
         DOMAIN u.suspects = Instruments, OpenTyped(u.open)
  PROVE  Kept(w, u)
<1>1. InstrTyped(r)
  BY DEF StateTyped, InstrTyped
<1>2. DOMAIN u.instr = Instruments
      /\ \A j \in Instruments : u.instr[j] = IF j = i THEN r ELSE w.instr[j]
  BY DEF StateTyped
<1>3. StateTyped(u)
  BY <1>1, <1>2 DEF StateTyped
<1> QED
  BY <1>2, <1>3 DEF Kept, Same

LEMMA AllKept ==
  ASSUME NEW w, StateTyped(w), NEW u, DOMAIN u = StateFields, u.resetEra = w.resetEra,
         u.books = w.books, u.instr = w.instr,
         DOMAIN u.suspects = Instruments, OpenTyped(u.open)
  PROVE  Kept(w, u)
BY DEF StateTyped, Kept, Same

LEMMA ChargeKept ==
  ASSUME NEW w, StateTyped(w), NEW rules
  PROVE  Kept(w, Charge(w, rules))
<1>1. DOMAIN w = StateFields
  BY DEF StateTyped
<1> QED
  BY <1>1, ChargeKeeps, ChargeTyped DEF Kept, Same

LEMMA ChargeChanged ==
  ASSUME NEW w, NEW u, NEW i \in Instruments, NEW r, NEW b, Changed(w, u, i, r, b), NEW rules
  PROVE  Changed(w, Charge(u, rules), i, r, b)
<1>1. StateTyped(u) /\ DOMAIN u = StateFields
  BY DEF Changed, StateTyped
<1>2. StateTyped(Charge(u, rules))
  BY <1>1, ChargeTyped
<1> QED
  BY <1>1, <1>2, ChargeKeeps DEF Changed

(* A delta. *)
LEMMA AfterDeltaTyped ==
  ASSUME NEW in, InstrTyped(in), NEW m, m.seq \in 1 .. plan.deltas
  PROVE  LET r == AfterDelta(in, m)
         IN  /\ InstrTyped(r)
             /\ r.last = IF m.seq > in.last THEN m.seq ELSE in.last
             /\ r.trusted => /\ in.trusted \/ (in.last = Nil /\ m.seq = 1)
                             /\ in.last = Nil \/ ~(m.seq > in.last + 1)
<1> DEFINE r == AfterDelta(in, m)
           l == IF m.seq > in.last THEN m.seq ELSE in.last
           t == (in.trusted \/ (First(in) /\ in.recoveryK = Nil /\ m.seq = 1)) /\ ~Gap(in, m.seq)
<1>1. DOMAIN r = InstrFields /\ r.last = l /\ r.trusted = t
  BY DEF AfterDelta, InstrTyped, InstrFields
<1>2. l \in 1 .. plan.deltas /\ l # Nil
  BY DEF InstrTyped, Nil
<1>3. t \in BOOLEAN
  BY DEF InstrTyped, First, Gap
<1>4. t => /\ in.trusted \/ (in.last = Nil /\ m.seq = 1)
           /\ in.last = Nil \/ ~(m.seq > in.last + 1)
  BY DEF First, Gap
<1> HIDE DEF r, l, t
<1>5. InstrTyped(r)
  BY <1>1, <1>2, <1>3 DEF InstrTyped
<1>6. r.last = l /\ (r.trusted => t)
  BY <1>1
<1> QED
  BY <1>4, <1>5, <1>6 DEF r, l

LEMMA DeltaTold ==
  ASSUME NEW w, StateTyped(w), NEW m, m.type = "delta", MktdataTyped(m), NEW g
  PROVE  Changed(w, OnDelta(w, m, g), m.instr, AfterDelta(w.instr[m.instr], m),
                 OnOrderMessage(w.books[m.instr], m.body).book)
<1> DEFINE i == m.instr
           r == AfterDelta(w.instr[i], m)
           b == OnOrderMessage(w.books[i], m.body).book
           u == [w EXCEPT !.instr[i] = r, !.books[i] = b]
<1>1. i \in Instruments /\ m.seq \in 1 .. plan.deltas /\ BodyTyped(m.body)
  BY DEF MktdataTyped
<1>2. InstrTyped(w.instr[i]) /\ BookTyped(w.books[i])
  BY <1>1 DEF StateTyped
<1>3. InstrTyped(r)
  BY <1>1, <1>2, AfterDeltaTyped
<1>4. BookTyped(b)
  BY <1>1, <1>2, BookKeepsTypes
<1>5. \E rules : OnDelta(w, m, g) = Charge(u, rules)
  BY DEF OnDelta
<1> HIDE DEF r, b
<1>6. /\ DOMAIN u = StateFields /\ u.resetEra = w.resetEra
      /\ u.instr = [w.instr EXCEPT ![i] = r] /\ u.books = [w.books EXCEPT ![i] = b]
      /\ u.suspects = w.suspects /\ u.open = w.open
  BY DEF StateTyped, StateFields
<1> HIDE DEF u
<1>7. DOMAIN u.suspects = Instruments /\ OpenTyped(u.open)
  BY <1>6 DEF StateTyped
<1>8. Changed(w, u, i, r, b)
  BY <1>1, <1>3, <1>4, <1>6, <1>7, OneChanged
<1> HIDE DEF i
<1>9. Changed(w, OnDelta(w, m, g), i, r, b)
  BY <1>1, <1>5, <1>8, ChargeChanged
<1> QED
  BY <1>9 DEF i, r, b

LEMMA TradeTold ==
  ASSUME NEW w, StateTyped(w), NEW m, NEW g
  PROVE  Kept(w, OnTradeReport(w, m, g))
BY ChargeKept DEF OnTradeReport

LEMMA BatchTold ==
  ASSUME NEW w, StateTyped(w), NEW m, NEW g
  PROVE  Kept(w, OnBatchBoundary(w, m, g))
<1> DEFINE u == [w EXCEPT !.lastBatch = m.id]
<1>1. \E rules : OnBatchBoundary(w, m, g) = Charge(u, rules)
  BY DEF OnBatchBoundary
<1>2. /\ DOMAIN u = StateFields /\ u.resetEra = w.resetEra /\ u.instr = w.instr
      /\ u.books = w.books /\ u.suspects = w.suspects /\ u.open = w.open
  BY DEF StateTyped, StateFields
<1> HIDE DEF u
<1>3. DOMAIN u.suspects = Instruments /\ OpenTyped(u.open)
  BY <1>2 DEF StateTyped
<1>4. Kept(w, u)
  BY <1>2, <1>3, AllKept
<1>5. StateTyped(u)
  BY <1>4 DEF Kept
<1> QED
  BY <1>1, <1>4, <1>5, ChargeKept, KeptTwice

LEMMA ResetTold ==
  ASSUME NEW w, StateTyped(w), NEW m, m.type = "reset", MktdataTyped(m)
  PROVE  \E r : /\ Changed(w, OnInstrumentReset(w, m), m.instr, r, NewBook)
                /\ r.last = Nil /\ ~r.trusted
<1> DEFINE i == m.instr
           r == [NewInstr EXCEPT !.seenReset = TRUE, !.pendingReset = m.anchor,
                                 !.awaiting = m.anchor]
           u == OnInstrumentReset(w, m)
<1>1. i \in Instruments
  BY DEF MktdataTyped
<1>2. InstrTyped(r) /\ r.last = Nil /\ ~r.trusted
  BY NewInstrTyped
<1> HIDE DEF r
<1>3. /\ DOMAIN u = StateFields /\ u.resetEra = w.resetEra
      /\ u.instr = [w.instr EXCEPT ![i] = r] /\ u.books = [w.books EXCEPT ![i] = NewBook]
      /\ u.suspects = [w.suspects EXCEPT ![i] = NoSuspect] /\ u.open = NoGroup
  BY DEF OnInstrumentReset, StateTyped, StateFields, r
<1> HIDE DEF u
<1>4. DOMAIN u.suspects = Instruments /\ OpenTyped(u.open)
  BY <1>3 DEF StateTyped, OpenTyped
<1>5. Changed(w, u, i, r, NewBook)
  BY <1>1, <1>2, <1>3, <1>4, NewBookTyped, OneChanged
<1> QED
  BY <1>2, <1>5 DEF u

LEMMA MktdataNoted ==
  ASSUME NEW w, StateTyped(w), NEW seq
  PROVE  Kept(w, NoteMktdata(w, seq))
<1> DEFINE u == NoteMktdata(w, seq)
<1>1. /\ DOMAIN u = StateFields /\ u.resetEra = w.resetEra /\ u.instr = w.instr
      /\ u.books = w.books /\ u.suspects = w.suspects /\ u.open = w.open
  BY DEF NoteMktdata, StateTyped, StateFields
<1> HIDE DEF u
<1>2. DOMAIN u.suspects = Instruments /\ OpenTyped(u.open)
  BY <1>1 DEF StateTyped
<1>3. Kept(w, u)
  BY <1>1, <1>2, AllKept
<1> QED
  BY <1>3 DEF u

(* The first port to enter an era leaves nothing of the old one. *)
LEMMA WipeTold ==
  ASSUME NEW w, NEW era
  PROVE  LET u == Wipe(w, era)
         IN  /\ StateTyped(u) /\ u.resetEra = era
             /\ \A i \in Instruments : u.instr[i] = NewInstr /\ u.books[i] = NewBook
<1> DEFINE u == Wipe(w, era)
<1>1. /\ DOMAIN u = StateFields /\ u.resetEra = era
      /\ u.instr = [i \in Instruments |-> NewInstr]
      /\ u.books = [i \in Instruments |-> NewBook]
      /\ u.suspects = [i \in Instruments |-> NoSuspect] /\ u.open = NoGroup
  BY DEF Wipe, NewConsumer, StateFields
<1> HIDE DEF u
<1>2. DOMAIN u.suspects = Instruments /\ OpenTyped(u.open)
      /\ DOMAIN u.instr = Instruments /\ DOMAIN u.books = Instruments
      /\ \A i \in Instruments : u.instr[i] = NewInstr /\ u.books[i] = NewBook
  BY <1>1 DEF OpenTyped
<1>3. StateTyped(u)
  BY <1>1, <1>2, NewInstrTyped, NewBookTyped DEF StateTyped
<1> QED
  BY <1>1, <1>2, <1>3 DEF u

-----------------------------------------------------------------------------
(* The snapshot port changes no delta series and no book. *)
LEMMA SnapNoted ==
  ASSUME NEW w, StateTyped(w), NEW seq
  PROVE  Kept(w, NoteSnapSeq(w, seq))
<1> DEFINE u == NoteSnapSeq(w, seq)
           o == [w.open EXCEPT !.dirty = @ \/ seq > w.open.portSeq + 1, !.portSeq = seq]
<1>1. CASE w.open = NoGroup \/ w.open.portSeq = 0
  <2>1. u = w
    BY <1>1 DEF NoteSnapSeq
  <2> QED
    BY <2>1 DEF Kept, Same
<1>2. CASE ~(w.open = NoGroup \/ w.open.portSeq = 0)
  <2>1. /\ DOMAIN u = StateFields /\ u.resetEra = w.resetEra /\ u.instr = w.instr
        /\ u.books = w.books /\ u.suspects = w.suspects /\ u.open = o
    BY <1>2 DEF NoteSnapSeq, StateTyped, StateFields
  <2>2. DOMAIN w.open = GroupFields /\ w.open.instr \in Instruments /\ w.open.received \in Nat
    BY <1>2 DEF StateTyped, OpenTyped
  <2>3. OpenTyped(o)
    BY <2>2 DEF OpenTyped, GroupFields
  <2> HIDE DEF u, o
  <2>4. DOMAIN u.suspects = Instruments /\ OpenTyped(u.open)
    BY <2>1, <2>3 DEF StateTyped
  <2>5. Kept(w, u)
    BY <2>1, <2>4, AllKept
  <2> QED
    BY <2>5 DEF u
<1> QED
  BY <1>1, <1>2

LEMMA BeginTold ==
  ASSUME NEW w, StateTyped(w), NEW m, m.instr \in Instruments, NEW seq, NEW g
  PROVE  Kept(w, OnBegin(w, m, seq, g))
<1> DEFINE i == m.instr
           in == w.instr[i]
           k == IF Recovers(in, m) THEN m.lastK ELSE in.recoveryK
           a == IF Recovers(in, m) THEN Nil ELSE in.pendingReset
           r == [in EXCEPT !.recoveryK = k, !.pendingReset = a]
           o == [ instr |-> m.instr, id |-> m.id, anchor |-> m.anchor,
                  total |-> m.total, received |-> 0, lastK |-> m.lastK,
                  orders |-> {}, dirty |-> FALSE, invalid |-> FALSE, portSeq |-> seq ]
           u == [w EXCEPT
                   !.instr[i].recoveryK    = IF Recovers(in, m) THEN m.lastK ELSE @,
                   !.instr[i].pendingReset = IF Recovers(in, m) THEN Nil ELSE @,
                   !.snap[i] = [@ EXCEPT !.anchor = m.anchor, !.id = m.id, !.portSeq = seq],
                   !.open = o]
<1>1. \E rules : OnBegin(w, m, seq, g) = Charge(u, rules)
  BY DEF OnBegin
<1>2. DOMAIN in = InstrFields
  BY DEF StateTyped, InstrTyped
<1>3. DOMAIN r = InstrFields /\ r.last = in.last /\ r.trusted = in.trusted
  BY <1>2 DEF InstrFields
<1>4. DOMAIN u = StateFields /\ u.resetEra = w.resetEra /\ u.books = w.books
      /\ u.suspects = w.suspects /\ u.open = o
  BY DEF StateTyped, StateFields
<1>5. u.instr = [w.instr EXCEPT ![i] = r]
  BY <1>2 DEF StateTyped, StateFields, InstrFields
<1>6. OpenTyped(o)
  BY DEF OpenTyped, GroupFields
<1> HIDE DEF u, o, r, in
<1>7. DOMAIN u.suspects = Instruments /\ OpenTyped(u.open)
  BY <1>4, <1>6 DEF StateTyped
<1>8. r.last = w.instr[i].last /\ r.trusted = w.instr[i].trusted
  BY <1>3 DEF in
<1>9. Kept(w, u)
  BY <1>3, <1>4, <1>5, <1>7, <1>8, OneKept
<1>10. StateTyped(u)
  BY <1>9 DEF Kept
<1> QED
  BY <1>1, <1>9, <1>10, ChargeKept, KeptTwice

LEMMA OrderTold ==
  ASSUME NEW w, StateTyped(w), NEW m, NEW g
  PROVE  Kept(w, OnOrder(w, m, g))
<1> DEFINE o == w.open
<1>1. CASE o = NoGroup
  <2>1. \E rules : OnOrder(w, m, g) = Charge(w, rules)
    BY <1>1 DEF OnOrder
  <2> QED
    BY <2>1, ChargeKept
<1>2. CASE o # NoGroup
  <2>1. DOMAIN o = GroupFields /\ o.instr \in Instruments /\ o.received \in Nat
    BY <1>2 DEF StateTyped, OpenTyped
  <2> DEFINE u(x, y) == [w EXCEPT !.open.invalid = x, !.open.orders = y, !.open.received = @ + 1]
  <2>2. \E x, y, rules : OnOrder(w, m, g) = Charge(u(x, y), rules)
    BY <1>2 DEF OnOrder
  <2>3. ASSUME NEW x, NEW y
        PROVE  Kept(w, u(x, y))
    <3> DEFINE s == u(x, y)
               p == [o EXCEPT !.invalid = x, !.orders = y, !.received = @ + 1]
    <3>1. DOMAIN s = StateFields /\ s.resetEra = w.resetEra /\ s.books = w.books
          /\ s.suspects = w.suspects /\ s.instr = w.instr
      BY DEF StateTyped, StateFields
    <3>2. s.open = p
      BY <2>1 DEF StateTyped, StateFields, GroupFields
    <3>3. OpenTyped(p)
      BY <2>1 DEF OpenTyped, GroupFields
    <3> HIDE DEF s, p
    <3>4. DOMAIN s.suspects = Instruments /\ OpenTyped(s.open)
      BY <3>1, <3>2, <3>3 DEF StateTyped
    <3>5. Kept(w, s)
      BY <3>1, <3>4, AllKept
    <3> QED
      BY <3>5 DEF s
  <2>4. PICK x, y, rules : OnOrder(w, m, g) = Charge(u(x, y), rules)
    BY <2>2
  <2>5. Kept(w, u(x, y))
    BY <2>3
  <2> HIDE DEF u
  <2> QED
    BY <2>4, <2>5, ChargeKept, KeptTwice DEF Kept
<1> QED
  BY <1>1, <1>2

LEMMA CompletedTold ==
  ASSUME NEW w, StateTyped(w), w.open # NoGroup, NEW g
  PROVE  Kept(w, Completed(w, g))
<1> DEFINE i == w.open.instr
           c == w.snap[i].count + 1
           r == [w.instr[i] EXCEPT !.awaiting = Nil]
           u == [w EXCEPT !.instr[i].awaiting = Nil, !.snap[i].count = c,
                          !.maxCycle = IF c > @ THEN c ELSE @]
<1>1. i \in Instruments
  BY DEF StateTyped, OpenTyped
<1>2. \E rules : Completed(w, g) = Charge(u, rules)
  BY DEF Completed
<1>3. /\ DOMAIN u = StateFields /\ u.resetEra = w.resetEra /\ u.books = w.books
      /\ u.suspects = w.suspects /\ u.open = w.open /\ u.instr = [w.instr EXCEPT ![i] = r]
  BY DEF StateTyped, StateFields
<1>4. DOMAIN r = InstrFields /\ r.last = w.instr[i].last /\ r.trusted = w.instr[i].trusted
  BY <1>1 DEF StateTyped, InstrTyped, InstrFields
<1> HIDE DEF u, r, i
<1>5. DOMAIN u.suspects = Instruments /\ OpenTyped(u.open)
  BY <1>3 DEF StateTyped
<1>6. Kept(w, u)
  BY <1>1, <1>3, <1>4, <1>5, OneKept
<1>7. StateTyped(u)
  BY <1>6 DEF Kept
<1> QED
  BY <1>2, <1>6, <1>7, ChargeKept, KeptTwice

LEMMA AuditedTold ==
  ASSUME NEW w, StateTyped(w), NEW o, NEW g
  PROVE  Kept(w, Audited(w, o, g))
<1> DEFINE u(s) == [w EXCEPT !.suspects[o.instr] = s]
<1>1. \/ \E s : Audited(w, o, g) = u(s)
      \/ \E s, rules : Audited(w, o, g) = Charge(u(s), rules)
  BY DEF Audited
<1>2. ASSUME NEW s
      PROVE  Kept(w, u(s))
  <2> DEFINE x == u(s)
  <2>1. /\ DOMAIN x = StateFields /\ x.resetEra = w.resetEra /\ x.books = w.books
        /\ x.instr = w.instr /\ x.open = w.open /\ DOMAIN x.suspects = DOMAIN w.suspects
    BY DEF StateTyped, StateFields
  <2> HIDE DEF x
  <2>2. DOMAIN x.suspects = Instruments /\ OpenTyped(x.open)
    BY <2>1 DEF StateTyped
  <2>3. Kept(w, x)
    BY <2>1, <2>2, AllKept
  <2> QED
    BY <2>3 DEF x
<1>3. \A s, rules : Kept(w, Charge(u(s), rules))
  <2> TAKE s, rules
  <2>1. Kept(w, u(s))
    BY <1>2
  <2> HIDE DEF u
  <2> QED
    BY <2>1, ChargeKept, KeptTwice DEF Kept
<1> HIDE DEF u
<1> QED
  BY <1>1, <1>2, <1>3

LEMMA EndTold ==
  ASSUME NEW w, StateTyped(w), NEW m, NEW g
  PROVE  Kept(w, OnEnd(w, m, g))
<1>1. CASE w.open = NoGroup
  <2>1. \E rules : OnEnd(w, m, g) = Charge(w, rules)
    BY <1>1 DEF OnEnd
  <2> QED
    BY <2>1, ChargeKept
<1>2. CASE w.open # NoGroup
  <2> DEFINE c == Completed(w, g)
             a(o) == Audited(c, o, g)
             u(o) == [a(o) EXCEPT !.open = NoGroup]
  <2>1. \E o, rules : OnEnd(w, m, g) = Charge(u(o), rules)
    BY <1>2 DEF OnEnd
  <2>2. Kept(w, c)
    BY <1>2, CompletedTold
  <2> HIDE DEF c
  <2>3. ASSUME NEW o, NEW rules
        PROVE  Kept(w, Charge(u(o), rules))
    <3> DEFINE x == a(o)
               y == [x EXCEPT !.open = NoGroup]
    <3>1. Kept(c, x)
      BY <2>2, AuditedTold DEF Kept
    <3> HIDE DEF x
    <3>2. Kept(w, x) /\ StateTyped(x)
      BY <2>2, <3>1, KeptTwice DEF Kept
    <3>3. /\ DOMAIN y = StateFields /\ y.resetEra = x.resetEra /\ y.books = x.books
          /\ y.suspects = x.suspects /\ y.open = NoGroup /\ y.instr = x.instr
      BY <3>2 DEF StateTyped, StateFields
    <3>4. y = u(o)
      BY DEF x
    <3> HIDE DEF y, u
    <3>5. DOMAIN y.suspects = Instruments /\ OpenTyped(y.open)
      BY <3>2, <3>3 DEF StateTyped, OpenTyped
    <3>6. Kept(x, y)
      BY <3>2, <3>3, <3>5, AllKept
    <3>7. Kept(w, y) /\ StateTyped(y)
      BY <3>2, <3>6, KeptTwice DEF Kept
    <3> QED
      BY <3>4, <3>7, ChargeKept, KeptTwice
  <2> HIDE DEF u
  <2> QED
    BY <2>1, <2>3
<1> QED
  BY <1>1, <1>2

LEMMA EndOfRunTold ==
  ASSUME NEW w, StateTyped(w), NEW l, NEW g
  PROVE  Kept(w, AtEnd(w, l, g))
<1> DEFINE u == [w EXCEPT !.open = NoGroup,
                          !.instr = [i \in Instruments |-> [@[i] EXCEPT !.awaiting = Nil]]]
<1>1. \E rules : AtEnd(w, l, g) = Charge(u, rules)
  BY DEF AtEnd
<1>2. /\ DOMAIN u = StateFields /\ u.resetEra = w.resetEra /\ u.books = w.books
      /\ u.suspects = w.suspects /\ u.open = NoGroup
      /\ u.instr = [i \in Instruments |-> [w.instr[i] EXCEPT !.awaiting = Nil]]
  BY DEF StateTyped, StateFields
<1> HIDE DEF u
<1>3. \A i \in Instruments : /\ DOMAIN u.instr[i] = InstrFields
                             /\ u.instr[i].last = w.instr[i].last
                             /\ u.instr[i].trusted = w.instr[i].trusted
  BY <1>2 DEF StateTyped, InstrTyped, InstrFields
<1>4. DOMAIN u.instr = Instruments
  BY <1>2
<1>5. \A i \in Instruments : InstrTyped(u.instr[i])
  BY <1>3 DEF StateTyped, InstrTyped
<1>6. StateTyped(u)
  BY <1>2, <1>4, <1>5 DEF StateTyped, OpenTyped
<1>7. Kept(w, u)
  BY <1>2, <1>3, <1>6 DEF Kept, Same
<1> QED
  BY <1>1, <1>6, <1>7, ChargeKept, KeptTwice

LEMMA SnapshotTold ==
  ASSUME NEW w, StateTyped(w), NEW m, SnapshotTyped(m), NEW seq, NEW g
  PROVE  Kept(w, OnSnapshot(w, m, seq, g))
<1>1. CASE m.type = "begin"
  <2>1. OnSnapshot(w, m, seq, g) = OnBegin(w, m, seq, g) /\ m.instr \in Instruments
    BY <1>1 DEF OnSnapshot, SnapshotTyped
  <2> QED
    BY <2>1, BeginTold
<1>2. CASE m.type = "order"
  BY <1>2, OrderTold DEF OnSnapshot
<1>3. CASE m.type = "end"
  BY <1>3, EndTold DEF OnSnapshot
<1> QED
  BY <1>1, <1>2, <1>3 DEF SnapshotTyped

(* What rides behind a delta. *)
LEMMA RiderTold ==
  ASSUME NEW w, StateTyped(w), NEW m, m.type \in {"trade", "batch"}, NEW g
  PROVE  Kept(w, OnMktdata(w, m, g))
<1>1. CASE m.type = "trade"
  BY <1>1, TradeTold DEF OnMktdata
<1>2. CASE m.type = "batch"
  BY <1>2, BatchTold DEF OnMktdata
<1> QED
  BY <1>1, <1>2

LEMMA MktdataTold ==
  ASSUME NEW w, StateTyped(w), NEW m, MktdataTyped(m), NEW g
  PROVE  StateTyped(OnMktdata(w, m, g))
<1>1. CASE m.type \in {"trade", "batch"}
  BY <1>1, RiderTold DEF Kept
<1>2. CASE m.type = "delta"
  <2>1. OnMktdata(w, m, g) = OnDelta(w, m, g)
    BY <1>2 DEF OnMktdata
  <2> QED
    BY <1>2, <2>1, DeltaTold DEF Changed
<1>3. CASE m.type = "reset"
  <2>1. OnMktdata(w, m, g) = OnInstrumentReset(w, m)
    BY <1>3 DEF OnMktdata
  <2> QED
    BY <1>3, <2>1, ResetTold DEF Changed
<1> QED
  BY <1>1, <1>2, <1>3 DEF MktdataTyped

-----------------------------------------------------------------------------
(* The messages of a frame, and the items of a batch, one after the other. *)
MessagesTyped(p, msgs) ==
  Len(msgs) \in Nat /\ \A n \in 1 .. Len(msgs) : MessageTyped(p, msgs[n])

IsReading(f, k, p, w, msgs, seq, g) ==
  f = [n \in 0 .. k |-> IF n = 0 THEN w ELSE OnMessage(p, f[n - 1], msgs[n], seq, g)]

LEMMA ReadingExists ==
  ASSUME NEW k \in Nat, NEW p, NEW w, NEW msgs, NEW seq, NEW g
  PROVE  \E f : IsReading(f, k, p, w, msgs, seq, g)
<1> DEFINE S == {j \in Nat : \E f : IsReading(f, j, p, w, msgs, seq, g)}
<1>1. 0 \in S
  <2>1. IsReading([n \in 0 .. 0 |-> w], 0, p, w, msgs, seq, g)
    BY DEF IsReading
  <2> QED
    BY <2>1
<1>2. ASSUME NEW j \in 1 .. k, j - 1 \in S
      PROVE  j \in S
  <2>1. PICK f : IsReading(f, j - 1, p, w, msgs, seq, g)
    BY <1>2
  <2> DEFINE last == OnMessage(p, f[j - 1], msgs[j], seq, g)
             h    == [n \in 0 .. j |-> IF n <= j - 1 THEN f[n] ELSE last]
  <2>2. \A n \in 0 .. j - 1 : f[n] = IF n = 0 THEN w ELSE OnMessage(p, f[n - 1], msgs[n], seq, g)
    BY <1>2, <2>1 DEF IsReading
  <2>3. ASSUME NEW n \in 0 .. j
        PROVE  h[n] = IF n = 0 THEN w ELSE OnMessage(p, h[n - 1], msgs[n], seq, g)
    <3>1. CASE n <= j - 1
      BY <1>2, <2>2, <3>1
    <3>2. CASE n = j
      BY <1>2, <2>2, <3>2
    <3> QED
      BY <1>2, <3>1, <3>2
  <2>4. h = [n \in 0 .. j |-> h[n]]
    OBVIOUS
  <2> HIDE DEF h, last
  <2>5. IsReading(h, j, p, w, msgs, seq, g)
    BY <2>3, <2>4 DEF IsReading
  <2> QED
    BY <1>2, <2>5
<1>3. k \in S
  <2> HIDE DEF S
  <2> QED
    BY <1>1, <1>2, UpTo
<1> QED
  BY <1>3

Reading(f, p, w, msgs, seq, g) ==
  /\ ReadAll(p, w, msgs, seq, g) = f[Len(msgs)] /\ f[0] = w
  /\ \A n \in 1 .. Len(msgs) : f[n] = OnMessage(p, f[n - 1], msgs[n], seq, g)

LEMMA ReadAllReads ==
  ASSUME NEW p, NEW w, NEW msgs, NEW seq, NEW g, Len(msgs) \in Nat
  PROVE  \E f : Reading(f, p, w, msgs, seq, g)
<1> DEFINE read[n \in 0 .. Len(msgs)] ==
             IF n = 0 THEN w ELSE OnMessage(p, read[n - 1], msgs[n], seq, g)
<1>1. \E f : IsReading(f, Len(msgs), p, w, msgs, seq, g)
  BY ReadingExists
<1>2. read = [n \in 0 .. Len(msgs) |->
                IF n = 0 THEN w ELSE OnMessage(p, read[n - 1], msgs[n], seq, g)]
  BY <1>1 DEF IsReading
<1>3. ReadAll(p, w, msgs, seq, g) = read[Len(msgs)]
  BY DEF ReadAll
<1> HIDE DEF read
<1>4. Reading(read, p, w, msgs, seq, g)
  BY <1>2, <1>3 DEF Reading
<1> QED
  BY <1>4

(* A snapshot frame leaves every delta series and book alone. *)
LEMMA SnapshotFrameTold ==
  ASSUME NEW w, StateTyped(w), NEW item, MessagesTyped("snapshot", item.body.msgs), NEW g
  PROVE  Kept(w, OnFrame("snapshot", w, item, g))
<1> DEFINE noted == NoteSnapSeq(w, item.seq)
           msgs  == item.body.msgs
<1>1. Kept(w, noted)
  BY SnapNoted
<1>2. OnFrame("snapshot", w, item, g) = ReadAll("snapshot", noted, msgs, item.seq, g)
  BY DEF OnFrame
<1> HIDE DEF noted, msgs
<1>3. Len(msgs) \in Nat /\ \A n \in 1 .. Len(msgs) : SnapshotTyped(msgs[n])
  BY DEF MessagesTyped, MessageTyped, msgs
<1>4. PICK f : Reading(f, "snapshot", noted, msgs, item.seq, g)
  BY <1>3, ReadAllReads
<1> DEFINE S == {n \in 0 .. Len(msgs) : Kept(w, f[n])}
<1>5. 0 \in S
  BY <1>1, <1>3, <1>4 DEF Reading
<1>6. ASSUME NEW n \in 1 .. Len(msgs), n - 1 \in S
      PROVE  n \in S
  <2>1. f[n] = OnSnapshot(f[n - 1], msgs[n], item.seq, g)
    BY <1>4 DEF Reading, OnMessage
  <2>2. Kept(w, f[n - 1]) /\ StateTyped(f[n - 1])
    BY <1>6 DEF Kept
  <2>3. Kept(f[n - 1], f[n])
    BY <1>3, <2>1, <2>2, SnapshotTold
  <2> QED
    BY <2>2, <2>3, KeptTwice
<1> HIDE DEF S
<1>7. Len(msgs) \in S
  BY <1>3, <1>5, <1>6, UpTo
<1> QED
  BY <1>2, <1>4, <1>7 DEF S, Reading

Riding(msgs) == \A n \in 2 .. Len(msgs) : msgs[n].type \in {"trade", "batch"}

(* A frame of another port: its first message counts, and what rides       *)
(* behind it leaves every delta series and book alone.                     *)
Told(w, u, msgs, g) ==
  /\ StateTyped(u)
  /\ Riding(msgs) =>
       \E x : /\ Kept(w, x)
              /\ Kept(IF Len(msgs) = 0 THEN x ELSE OnMktdata(x, msgs[1], g), u)

LEMMA FrameTold ==
  ASSUME NEW p, p # "snapshot", NEW w, StateTyped(w),
         NEW item, MessagesTyped(p, item.body.msgs), NEW g
  PROVE  Told(w, OnFrame(p, w, item, g), item.body.msgs, g)
<1> DEFINE noted == NoteMktdata(w, item.seq)
           msgs  == item.body.msgs
           first == IF Len(msgs) = 0 THEN noted ELSE OnMktdata(noted, msgs[1], g)
<1>1. Kept(w, noted) /\ StateTyped(noted)
  BY MktdataNoted DEF Kept
<1>2. OnFrame(p, w, item, g) = ReadAll(p, noted, msgs, item.seq, g)
  BY DEF OnFrame
<1> HIDE DEF noted, msgs
<1>3. Len(msgs) \in Nat /\ \A n \in 1 .. Len(msgs) : MktdataTyped(msgs[n])
  BY DEF MessagesTyped, MessageTyped, msgs
<1>4. PICK f : Reading(f, p, noted, msgs, item.seq, g)
  BY <1>3, ReadAllReads
<1>5. \A n \in 1 .. Len(msgs) : f[n] = OnMktdata(f[n - 1], msgs[n], g)
  BY <1>4 DEF Reading, OnMessage
<1> DEFINE S == {n \in 0 .. Len(msgs) : /\ StateTyped(f[n])
                                        /\ Riding(msgs) /\ (n > 0 \/ Len(msgs) = 0) => Kept(first, f[n])}
<1>6. 0 \in S
  <2>1. f[0] = noted
    BY <1>4 DEF Reading
  <2>2. Len(msgs) = 0 => first = noted
    OBVIOUS
  <2>3. Kept(noted, noted)
    BY <1>1 DEF Kept, Same
  <2> HIDE DEF first
  <2> QED
    BY <1>1, <1>3, <2>1, <2>2, <2>3
<1>7. ASSUME NEW n \in 1 .. Len(msgs), n - 1 \in S
      PROVE  n \in S
  <2>1. StateTyped(f[n])
    BY <1>3, <1>5, <1>7, MktdataTold
  <2>2. CASE n = 1
    <3>1. f[1] = first
      <4>1. f[0] = noted /\ Len(msgs) # 0
        BY <1>3, <1>4, <2>2 DEF Reading
      <4> QED
        BY <1>5, <2>2, <4>1
    <3>2. Kept(first, f[1])
      BY <2>1, <2>2, <3>1 DEF Kept, Same
    <3> HIDE DEF first
    <3> QED
      BY <2>1, <2>2, <3>2
  <2>3. CASE n # 1
    <3>1. SUFFICES ASSUME Riding(msgs) PROVE Kept(first, f[n])
      BY <2>1
    <3>2. n \in 2 .. Len(msgs) /\ n - 1 > 0
      BY <1>3, <2>3
    <3>3. Kept(first, f[n - 1]) /\ StateTyped(f[n - 1])
      BY <1>7, <3>1, <3>2
    <3>4. msgs[n].type \in {"trade", "batch"}
      BY <3>1, <3>2 DEF Riding
    <3>5. Kept(f[n - 1], f[n])
      BY <1>5, <3>3, <3>4, RiderTold
    <3> QED
      BY <3>3, <3>5, KeptTwice
  <2> QED
    BY <2>2, <2>3
<1> HIDE DEF S
<1>8. Len(msgs) \in S
  BY <1>3, <1>6, <1>7, UpTo
<1>9. StateTyped(f[Len(msgs)]) /\ (Riding(msgs) => Kept(first, f[Len(msgs)]))
  BY <1>3, <1>8 DEF S
<1>10. OnFrame(p, w, item, g) = f[Len(msgs)]
  BY <1>2, <1>4 DEF Reading
<1>11. Told(w, f[Len(msgs)], msgs, g)
  BY <1>1, <1>9 DEF Told
<1> QED
  BY <1>10, <1>11 DEF msgs

-----------------------------------------------------------------------------
WalkStep(p, before, S, n) ==
  IF At(S, n) = {} THEN before ELSE ClassifyItem(p, before, CHOOSE item \in At(S, n) : TRUE)

IsWalk(f, k, p, s, S) ==
  f = [n \in -1 .. k |-> IF n = -1 THEN s ELSE WalkStep(p, f[n - 1], S, n)]

LEMMA WalkExists ==
  ASSUME NEW k \in Nat, NEW p, NEW s, NEW S
  PROVE  \E f : IsWalk(f, k - 1, p, s, S)
<1> DEFINE T == {j \in Nat : \E f : IsWalk(f, j - 1, p, s, S)}
<1>1. 0 \in T
  <2>1. IsWalk([n \in -1 .. -1 |-> s], -1, p, s, S)
    BY DEF IsWalk
  <2>2. 0 - 1 = -1
    OBVIOUS
  <2> QED
    BY <2>1, <2>2
<1>2. ASSUME NEW j \in 1 .. k, j - 1 \in T
      PROVE  j \in T
  <2>1. PICK f : IsWalk(f, (j - 1) - 1, p, s, S)
    BY <1>2
  <2> DEFINE last == WalkStep(p, f[j - 2], S, j - 1)
             h    == [n \in -1 .. j - 1 |-> IF n <= j - 2 THEN f[n] ELSE last]
  <2>2. \A n \in -1 .. j - 2 : f[n] = IF n = -1 THEN s ELSE WalkStep(p, f[n - 1], S, n)
    <3>1. (j - 1) - 1 = j - 2
      BY <1>2
    <3> QED
      BY <2>1, <3>1 DEF IsWalk
  <2>3. ASSUME NEW n \in -1 .. j - 1
        PROVE  h[n] = IF n = -1 THEN s ELSE WalkStep(p, h[n - 1], S, n)
    <3>1. CASE n <= j - 2
      BY <1>2, <2>2, <3>1
    <3>2. CASE n = j - 1
      BY <1>2, <2>2, <3>2
    <3> QED
      BY <1>2, <3>1, <3>2
  <2>4. h = [n \in -1 .. j - 1 |-> h[n]]
    OBVIOUS
  <2> HIDE DEF h, last
  <2>5. IsWalk(h, j - 1, p, s, S)
    BY <2>3, <2>4 DEF IsWalk
  <2> QED
    BY <1>2, <2>5
<1>3. k \in T
  <2> HIDE DEF T
  <2> QED
    BY <1>1, <1>2, UpTo
<1> QED
  BY <1>3

LEMMA LastPlaceNat == LastPlace \in Nat
<1>1. MaxSeq * (W + 1) \in Nat
  BY WindowAssumption, SeqAssumption
<1> QED
  BY <1>1, WindowAssumption DEF LastPlace

LEMMA WalkWalks ==
  ASSUME NEW p, NEW s, NEW S
  PROVE  \E f : /\ Walk(p, s, S) = f[LastPlace] /\ f[-1] = s
                /\ \A n \in 0 .. LastPlace : f[n] = WalkStep(p, f[n - 1], S, n)
<1> DEFINE walked[n \in -1 .. LastPlace] ==
             IF n = -1 THEN s
             ELSE IF At(S, n) = {} THEN walked[n - 1]
             ELSE ClassifyItem(p, walked[n - 1], CHOOSE item \in At(S, n) : TRUE)
<1>1. \E f : IsWalk(f, LastPlace, p, s, S)
  <2>1. LastPlace + 1 \in Nat /\ (LastPlace + 1) - 1 = LastPlace
    BY LastPlaceNat
  <2>2. \E f : IsWalk(f, (LastPlace + 1) - 1, p, s, S)
    BY <2>1, WalkExists
  <2> QED
    BY <2>1, <2>2
<1>2. walked = [n \in -1 .. LastPlace |->
                  IF n = -1 THEN s
                  ELSE IF At(S, n) = {} THEN walked[n - 1]
                  ELSE ClassifyItem(p, walked[n - 1], CHOOSE item \in At(S, n) : TRUE)]
  BY <1>1 DEF IsWalk, WalkStep
<1>3. Walk(p, s, S) = walked[LastPlace]
  BY DEF Walk
<1> HIDE DEF walked
<1>4. \A n \in -1 .. LastPlace : walked[n] = IF n = -1 THEN s ELSE WalkStep(p, walked[n - 1], S, n)
  BY <1>2 DEF WalkStep
<1>5. walked[-1] = s /\ \A n \in 0 .. LastPlace : walked[n] = WalkStep(p, walked[n - 1], S, n)
  BY <1>4, LastPlaceNat
<1> QED
  BY <1>3, <1>5

(* What classifying items leaves of the trackers and the validator. *)
TrackerTyped(t) == DOMAIN t = TrackerFields /\ t.eraPos \in Nat

Walking(s) ==
  /\ DOMAIN s = {"pt", "v"} /\ DOMAIN s.pt = Ports
  /\ \A q \in Ports : TrackerTyped(s.pt[q])
  /\ StateTyped(s.v)

Beside(p, s, u) ==
  /\ \A q \in Ports : q # p => u.pt[q] = s.pt[q]
  /\ u.pt[p].era = s.pt[p].era /\ u.pt[p].eraPos = s.pt[p].eraPos /\ u.pt[p].buf = s.pt[p].buf
  /\ p = "snapshot" => Kept(s.v, u.v)

Accepts(p, s, u, S) ==
  \A a \in u.pt[p].accepted : a \in s.pt[p].accepted \/ \E i \in S : i.seq = a.seq

Fresh(t, item) == \A a \in t.accepted : a.seq # item.seq

LEMMA ClassifiedTracker ==
  ASSUME NEW t, TrackerTyped(t), NEW S
  PROVE  LET c == Classify(t, S)
         IN  /\ TrackerTyped(c) /\ c.era = t.era /\ c.eraPos = t.eraPos /\ c.buf = t.buf
             /\ \A a \in c.accepted : a \in t.accepted \/ \E f \in S : a.seq = f.seq
<1> DEFINE F == FreshOf(t, S)
           c == Classify(t, S)
<1>1. /\ TrackerTyped(c) /\ c.era = t.era /\ c.eraPos = t.eraPos /\ c.buf = t.buf
      /\ c.accepted = t.accepted \cup {[seq |-> f.seq, body |-> f.body] : f \in F}
  BY DEF TrackerTyped, TrackerFields, Classify
<1>2. F \subseteq S
  BY DEF FreshOf
<1> HIDE DEF F, c
<1> QED
  BY <1>1, <1>2 DEF c

(* Items are whole: their fields are those of a heap item. *)
Whole(i) == i = [rc |-> i.rc, seq |-> i.seq, body |-> i.body, copy |-> 0]

LEMMA WholeFields ==
  ASSUME NEW i, Whole(i)
  PROVE  i.copy = 0 /\ [i EXCEPT !.copy = 0] = i
<1> DEFINE r == [rc |-> i.rc, seq |-> i.seq, body |-> i.body, copy |-> 0]
<1>1. [r EXCEPT !.copy = 0] = r /\ r.copy = 0
  OBVIOUS
<1>2. i = r
  BY DEF Whole
<1> HIDE DEF r
<1> QED
  BY <1>1, <1>2

ItemStep(p, s, u, item) ==
  /\ Walking(u) /\ Beside(p, s, u) /\ Accepts(p, s, u, {item})
  /\ Fresh(s.pt[p], item) => \E g : u.v = OnFrame(p, s.v, item, g)

LEMMA ItemSteps ==
  ASSUME NEW p \in Ports, NEW s, Walking(s), NEW item, Whole(item), MessagesTyped(p, item.body.msgs)
  PROVE  ItemStep(p, s, ClassifyItem(p, s, item), item)
<1> DEFINE alone == [item EXCEPT !.copy = 0]
           c     == Classify(s.pt[p], {alone})
           seen  == [s.pt EXCEPT ![p] = c]
           w     == OnFrame(p, s.v, item, Gates(seen))
           fresh == FreshOf(s.pt[p], {alone})
           u     == ClassifyItem(p, s, item)
<1>1. alone = item /\ item.copy = 0
  BY WholeFields
<1>2. TrackerTyped(s.pt[p]) /\ StateTyped(s.v)
  BY DEF Walking
<1>3. /\ TrackerTyped(c) /\ c.era = s.pt[p].era /\ c.eraPos = s.pt[p].eraPos /\ c.buf = s.pt[p].buf
      /\ \A a \in c.accepted : a \in s.pt[p].accepted \/ a.seq = item.seq
  <2> HIDE DEF alone
  <2>1. /\ TrackerTyped(c) /\ c.era = s.pt[p].era /\ c.eraPos = s.pt[p].eraPos /\ c.buf = s.pt[p].buf
        /\ \A a \in c.accepted : a \in s.pt[p].accepted \/ \E f \in {alone} : a.seq = f.seq
    BY <1>2, ClassifiedTracker
  <2> HIDE DEF c
  <2> QED
    BY <1>1, <2>1
<1>4. u = IF fresh = {} THEN [s EXCEPT !.pt = seen] ELSE [pt |-> seen, v |-> w]
  BY DEF ClassifyItem
<1>5. Fresh(s.pt[p], item) => fresh # {}
  <2>1. Fresh(s.pt[p], item) => item \in FreshOf(s.pt[p], {item})
    BY <1>1 DEF Fresh, FreshOf, SeqsOf
  <2> HIDE DEF alone
  <2> QED
    BY <1>1, <2>1
<1>6. DOMAIN seen = Ports /\ seen[p] = c /\ \A q \in Ports : q # p => seen[q] = s.pt[q]
  BY DEF Walking
<1>7. StateTyped(w) /\ (p = "snapshot" => Kept(s.v, w))
  <2>1. CASE p = "snapshot"
    <3>1. Kept(s.v, w)
      <4> HIDE DEF seen
      <4> QED
        BY <1>2, <2>1, SnapshotFrameTold
    <3> QED
      BY <3>1 DEF Kept
  <2>2. CASE p # "snapshot"
    <3>1. Told(s.v, w, item.body.msgs, Gates(seen))
      <4> HIDE DEF seen
      <4> QED
        BY <1>2, <2>2, FrameTold
    <3> QED
      BY <2>2, <3>1 DEF Told
  <2> QED
    BY <2>1, <2>2
<1>8. Kept(s.v, s.v)
  BY <1>2 DEF Kept, Same
<1>9. DOMAIN u = {"pt", "v"} /\ u.pt = seen /\ u.v \in {s.v, w} /\ (fresh # {} => u.v = w)
  <2> HIDE DEF seen, w, fresh, u
  <2> QED
    BY <1>4 DEF Walking
<1>10. \E g : w = OnFrame(p, s.v, item, g)
  OBVIOUS
<1> HIDE DEF c, seen, w, fresh, u
<1>11. Walking(u)
  BY <1>2, <1>3, <1>6, <1>7, <1>9 DEF Walking
<1>12. Beside(p, s, u) /\ Accepts(p, s, u, {item})
  BY <1>3, <1>6, <1>7, <1>8, <1>9 DEF Beside, Accepts
<1>13. Fresh(s.pt[p], item) => \E g : u.v = OnFrame(p, s.v, item, g)
  BY <1>5, <1>9, <1>10
<1> QED
  BY <1>11, <1>12, <1>13 DEF ItemStep, u

LEMMA WalkKeeps ==
  ASSUME NEW p \in Ports, NEW s, Walking(s),
         NEW S, \A item \in S : Whole(item) /\ MessagesTyped(p, item.body.msgs)
  PROVE  LET u == Walk(p, s, S)
         IN  Walking(u) /\ Beside(p, s, u) /\ Accepts(p, s, u, S)
<1> DEFINE Good(u) == Walking(u) /\ Beside(p, s, u) /\ Accepts(p, s, u, S)
<1>1. PICK f : /\ Walk(p, s, S) = f[LastPlace] /\ f[-1] = s
               /\ \A n \in 0 .. LastPlace : f[n] = WalkStep(p, f[n - 1], S, n)
  BY WalkWalks
<1> DEFINE T == {n \in 0 .. LastPlace + 1 : Good(f[n - 1])}
<1>2. 0 \in T
  <2>1. 0 - 1 = -1 /\ 0 \in 0 .. LastPlace + 1
    BY LastPlaceNat
  <2>2. Good(s)
    BY DEF Walking, Beside, Accepts, Kept, Same
  <2> QED
    BY <1>1, <2>1, <2>2
<1>3. ASSUME NEW n \in 1 .. LastPlace + 1, n - 1 \in T
      PROVE  n \in T
  <2> DEFINE k    == n - 1
             b    == f[k - 1]
             item == CHOOSE i \in At(S, k) : TRUE
  <2>1. k \in 0 .. LastPlace /\ n \in 0 .. LastPlace + 1
    BY LastPlaceNat
  <2>2. f[k] = WalkStep(p, b, S, k) /\ Good(b)
    BY <1>1, <1>3, <2>1
  <2>3. CASE At(S, k) = {}
    BY <2>1, <2>2, <2>3 DEF WalkStep
  <2>4. CASE At(S, k) # {}
    <3>1. item \in S
      BY <2>4 DEF At
    <3>2. f[k] = ClassifyItem(p, b, item)
      BY <2>2, <2>4 DEF WalkStep
    <3> HIDE DEF item, b
    <3>3. ItemStep(p, b, f[k], item)
      BY <2>2, <3>1, <3>2, ItemSteps
    <3>4. Good(f[k])
      <4> DEFINE u == f[k]
      <4>1. Walking(u) /\ Beside(p, b, u) /\ Accepts(p, b, u, {item})
            /\ Walking(b) /\ Beside(p, s, b) /\ Accepts(p, s, b, S)
        BY <2>2, <3>3 DEF ItemStep
      <4> HIDE DEF u
      <4>2. Beside(p, s, u)
        BY <4>1, KeptTwice DEF Beside
      <4>3. Accepts(p, s, u, S)
        BY <3>1, <4>1 DEF Accepts
      <4> QED
        BY <4>1, <4>2, <4>3 DEF u
    <3> QED
      BY <2>1, <3>4
  <2> QED
    BY <2>3, <2>4
<1> HIDE DEF T, Good
<1>4. LastPlace + 1 \in T
  BY <1>2, <1>3, LastPlaceNat, UpTo
<1>5. (LastPlace + 1) - 1 = LastPlace
  BY LastPlaceNat
<1>6. Good(f[LastPlace])
  BY <1>4, <1>5 DEF T
<1> QED
  BY <1>1, <1>6 DEF Good

LEMMA WalkNothing == \A p, s : Walk(p, s, {}) = s
<1> SUFFICES ASSUME NEW p, NEW s PROVE Walk(p, s, {}) = s
  OBVIOUS
<1>1. PICK f : /\ Walk(p, s, {}) = f[LastPlace] /\ f[-1] = s
               /\ \A n \in 0 .. LastPlace : f[n] = WalkStep(p, f[n - 1], {}, n)
  BY WalkWalks
<1> DEFINE T == {n \in 0 .. LastPlace + 1 : f[n - 1] = s}
<1>2. 0 \in T
  <2>1. 0 - 1 = -1 /\ 0 \in 0 .. LastPlace + 1
    BY LastPlaceNat
  <2> QED
    BY <1>1, <2>1
<1>3. ASSUME NEW n \in 1 .. LastPlace + 1, n - 1 \in T
      PROVE  n \in T
  <2>1. n - 1 \in 0 .. LastPlace /\ n \in 0 .. LastPlace + 1
    BY LastPlaceNat
  <2>2. f[n - 1] = f[(n - 1) - 1]
    BY <1>1, <2>1 DEF WalkStep, At
  <2> QED
    BY <1>3, <2>1, <2>2
<1> HIDE DEF T
<1>4. LastPlace + 1 \in T
  BY <1>2, <1>3, LastPlaceNat, UpTo
<1>5. (LastPlace + 1) - 1 = LastPlace
  BY LastPlaceNat
<1> QED
  BY <1>1, <1>4, <1>5 DEF T

-----------------------------------------------------------------------------
(* The feed. No Reset Count returns within a run: the code cannot tell two *)
(* eras of one Reset Count apart.                                          *)
CountsDiffer ==
  \A p \in Plans : \A a, b \in 0 .. p.resets : ResetCountOf(a) = ResetCountOf(b) => a = b

(* What the publisher keeps: an order rests at most once. *)
RestTyped(S) ==
  /\ S \subseteq [order : OrderIds, side : {"bid"}, left : 1 .. MaxLots, hidden : BOOLEAN]
  /\ \A r, s \in S : r.order = s.order => r = s

PubTyped ==
  /\ plan \in Plans /\ feedEra \in 0 .. plan.resets
  /\ DOMAIN now = Instruments /\ DOMAIN books = Instruments
  /\ \A i \in Instruments :
       /\ \E S : books[i] \in Seq(S)
       /\ Len(books[i]) \in 1 .. plan.deltas + 1 /\ books[i][1] = {}
       /\ \A s \in 1 .. Len(books[i]) : RestTyped(books[i][s])
       /\ now[i] \subseteq books[i][Len(books[i])] /\ IsFiniteSet(now[i])
  /\ (\E S : rest \in Seq(S)) /\ MessagesTyped("snapshot", rest)

Era(x) == x.body.at.era

Numbered(q, x) ==
  /\ x.seq \in 0 .. MaxSeq /\ Era(x) \in 0 .. feedEra /\ x.rc = ResetCountOf(Era(x))
  /\ Era(x) = feedEra => x.seq < sent[q]

FrameFrom(q, x) == Numbered(q, x) /\ MessagesTyped(q, x.body.msgs)

Earlier(x, y) == Era(x) < Era(y) \/ (Era(x) = Era(y) /\ x.seq < y.seq)

OfPort(q) == {n \in DOMAIN net : net[n].port = q}

(* The frames under way, each port's in the order they were sent. *)
NetInv ==
  /\ sent \in [Ports -> Nat]
  /\ net \in Seq({net[n] : n \in DOMAIN net})
  /\ \A n \in DOMAIN net : net[n].port \in {"mktdata", "snapshot"} /\ FrameFrom(net[n].port, net[n])
  /\ \A m, n \in DOMAIN net : m < n /\ net[m].port = net[n].port => Earlier(net[m], net[n])

(* The frames a port holds: all were sent before those under way. *)
BufferInv ==
  \A q \in Ports : \A i \in pt[q].buf :
    /\ FrameFrom(q, i) /\ Whole(i)
    /\ i.rc = pt[q].era
    /\ \A n \in OfPort(q) : Earlier(i, net[n])
    /\ \A j \in pt[q].buf : i.seq = j.seq => i = j

(* Nothing a port still has to classify carries a number it has accepted. *)
IntakeInv ==
  /\ DOMAIN pt = Ports
  /\ \A q \in Ports :
       /\ TrackerTyped(pt[q])
       /\ pt[q].eraPos = 0 => pt[q].buf = {} /\ pt[q].accepted = {}
       /\ pt[q].eraPos # 0 => \E e \in 0 .. feedEra : pt[q].era = ResetCountOf(e)
       /\ \A a \in pt[q].accepted :
            /\ a.seq \in Nat /\ (pt[q].era = ResetCountOf(feedEra) => a.seq < sent[q])
            /\ \A i \in pt[q].buf : a.seq < i.seq
            /\ \A n \in OfPort(q) : net[n].rc = pt[q].era => a.seq < net[n].seq
  /\ pos \in [ResetCounts -> Nat] /\ next \in Nat

FlowInv == NetInv /\ BufferInv /\ IntakeInv

-----------------------------------------------------------------------------
(* The truth. What a delta says leads from one set of orders to the next.  *)
Leads(m, S, T) ==
  \/ /\ m.type = "add" /\ \A r \in S : r.order # m.order
     /\ T = S \cup {[order |-> m.order, side |-> m.side, left |-> m.qty, hidden |-> m.hidden]}
  \/ /\ m.type = "cancel"
     /\ \E r \in S : r.order = m.order /\ T = S \ {r}
  \/ /\ m.type = "execute"
     /\ \E r \in S : /\ r.order = m.order /\ m.qty = 1 /\ (m.full <=> r.left = 1)
                     /\ T = (S \ {r}) \cup IF r.left = 1 THEN {} ELSE {[r EXCEPT !.left = @ - 1]}

(* A book shows the visible orders of a set. *)
Mirror(bk, S) ==
  /\ \A r \in S : ~r.hidden => Live(bk, r.order) /\ bk.live[r.order].left = r.left
  /\ \A o \in OrderIds : Live(bk, o) => \E r \in S : r.order = o /\ ~r.hidden

(* The frames a port has not classified. *)
Frame(x) == [era |-> Era(x), seq |-> x.seq, msgs |-> x.body.msgs]

Pending(q) == {Frame(i) : i \in pt[q].buf} \cup {Frame(net[n]) : n \in OfPort(q)}

Says(x, type, i) == Len(x.msgs) > 0 /\ x.msgs[1].type = type /\ x.msgs[1].instr = i

Tells(x, i)  == x.era = feedEra /\ Says(x, "delta", i)
Resets(x, i) == x.era = feedEra /\ Says(x, "reset", i)
Number(x)    == x.msgs[1].seq

(* What the frames of mktdata say of the current era. The first message of *)
(* a datagram is its delta or reset, and nothing else changes a book.      *)
Sayings(D) ==
  \A x \in D :
    /\ Riding(x.msgs)
    /\ \A i \in Instruments :
         /\ Tells(x, i) => Number(x) \in 1 .. SeqNow(i)
         /\ Resets(x, i) => plan.correcting # "never" /\ SeqNow(i) >= 1
         /\ Tells(x, i) =>
              \A y \in D : /\ Tells(y, i) /\ x.seq < y.seq => Number(x) < Number(y)
                           /\ Resets(y, i) /\ Number(x) = 1 => x.seq < y.seq

In(w) == w.resetEra = IF feedEra = 0 THEN Nil ELSE ResetCountOf(feedEra)

(* The validator will not trust instrument i when it comes to frame q: a   *)
(* reset comes before, or came before and delta 1 comes no more.           *)
Cut(w, D, i, q) ==
  \/ \E y \in D : Resets(y, i) /\ y.seq < q
  \/ /\ \A x \in D : Tells(x, i) => Number(x) # 1
     /\ In(w) => ~w.instr[i].trusted

Lossless == "mktdata" \notin plan.lossy

Blank(bk) == \A o \in OrderIds : ~Live(bk, o)

TrueBook(w, D, i) ==
  LET in == w.instr[i]
  IN  /\ in.last = Nil => Blank(w.books[i])
      /\ In(w) => in.last <= SeqNow(i) /\ \A x \in D : Tells(x, i) => in.last < Number(x)
      /\ In(w) /\ in.trusted =>
           in.last \in 1 .. SeqNow(i) /\ Mirror(w.books[i], books[i][in.last + 1])

TrueDeltas(w, D, i) ==
  \A x \in D : Tells(x, i) =>
    \/ Leads(x.msgs[1].body, books[i][Number(x)], books[i][Number(x) + 1])
    \/ Lossless /\ Cut(w, D, i, x.seq)

TrueNow(w, D, i) ==
  \/ now[i] = books[i][Len(books[i])]
  \/ Lossless /\ SeqNow(i) >= 1 /\ Cut(w, D, i, sent["mktdata"])

TruthOn(w, D) ==
  /\ w.resetEra = Nil \/ \E e \in 0 .. feedEra : w.resetEra = ResetCountOf(e)
  /\ In(w) => \A x \in D : x.era = feedEra
  /\ \A i \in Instruments : TrueBook(w, D, i) /\ TrueDeltas(w, D, i) /\ TrueNow(w, D, i)

Unheard(t) == t.eraPos = 0 \/ t.era # ResetCountOf(feedEra)

Truth ==
  /\ TruthOn(v, Pending("mktdata"))
  /\ In(v) /\ Unheard(pt["mktdata"]) => \A i \in Instruments : v.instr[i].last = Nil

(* What a run notes of the order of its deliveries.                        *)
Notes == {"era", "reset", "recovery", "overlap"}

(* A correcting publisher whose mktdata frames are lost may come back      *)
(* to a Reset Count the intake has tainted.                                *)
Followed(p) == p.correcting = "never" \/ "mktdata" \notin p.lossy

MboInv ==
  /\ PubTyped
  /\ running => FlowInv /\ Sayings(Pending("mktdata"))
  /\ StateTyped(v)
  /\ crossed \subseteq Notes
  /\ Followed(plan) /\ crossed \subseteq {"overlap"} => Truth

-----------------------------------------------------------------------------
(* Sequences of messages.                                                  *)
LEMMA Lengthened ==
  ASSUME NEW s, \E S : s \in Seq(S), NEW e
  PROVE  LET r == Append(s, e)
         IN  /\ \E S : r \in Seq(S)
             /\ Len(s) \in Nat /\ Len(r) = Len(s) + 1 /\ r[Len(s) + 1] = e
             /\ \A n \in 1 .. Len(s) : r[n] = s[n]
<1>1. PICK S : s \in Seq(S)
  OBVIOUS
<1>2. s \in Seq(S \cup {e}) /\ e \in S \cup {e}
  BY <1>1
<1> DEFINE T == S \cup {e}
<1> HIDE DEF T
<1>3. s \in Seq(T) /\ e \in T
  BY <1>2 DEF T
<1>4. /\ Append(s, e) \in Seq(T) /\ Len(Append(s, e)) = Len(s) + 1 /\ Len(s) \in Nat
      /\ Append(s, e)[Len(s) + 1] = e /\ \A n \in 1 .. Len(s) : Append(s, e)[n] = s[n]
  BY <1>3, AppendProperties, LenProperties
<1> QED
  BY <1>4

LEMMA SameTop == \A a, b \in Nat : 1 .. a = 1 .. b => a = b
<1> SUFFICES ASSUME NEW a \in Nat, NEW b \in Nat, 1 .. a = 1 .. b, a < b PROVE FALSE
  OBVIOUS
<1>1. b \in 1 .. b /\ b \notin 1 .. a
  OBVIOUS
<1> QED
  BY <1>1

LEMMA Listed ==
  ASSUME NEW S, IsFiniteSet(S)
  PROVE  Len(SetToSeq(S)) \in Nat
<1> DEFINE n == Cardinality(S)
           k == SetToSeq(S)
<1>1. n \in Nat /\ ExistsBijection(1 .. n, S)
  BY FS_CardinalityType
<1>2. \E f \in [1 .. n -> S] : IsInjective(f)
  BY <1>1 DEF ExistsBijection, Bijection, Injection
<1>3. k \in [1 .. n -> S]
  BY <1>2 DEF SetToSeq
<1> HIDE DEF k
<1>4. k \in Seq(S)
  BY <1>1, <1>3, SeqDef
<1>5. Len(k) \in Nat
  BY <1>4, LenProperties
<1> QED
  BY <1>5 DEF k

LEMMA OneSeq ==
  ASSUME NEW S, NEW x \in S
  PROVE  <<x>> \in Seq(S) /\ Len(<<x>>) = 1 /\ <<x>>[1] = x
OBVIOUS

LEMMA Framed ==
  ASSUME NEW S, NEW x \in S, NEW y \in S, NEW b \in Seq(S)
  PROVE  LET g == <<x>> \o b \o <<y>>
         IN  /\ g \in Seq(S) /\ Len(g) \in Nat /\ Len(g) # 0 /\ g[1] = x
             /\ \A n \in 1 .. Len(g) : g[n] \in {x, y} \cup {b[m] : m \in 1 .. Len(b)}
<1> DEFINE h == <<x>>
           e == <<y>>
<1>1. h \in Seq(S) /\ Len(h) = 1 /\ h[1] = x /\ e \in Seq(S) /\ Len(e) = 1 /\ e[1] = y
  BY OneSeq
<1>2. Len(b) \in Nat
  BY LenProperties
<1> DEFINE a == h \o b
           g == a \o e
<1> HIDE DEF h, e
<1>3. /\ a \in Seq(S) /\ Len(a) = 1 + Len(b)
      /\ \A m \in 1 .. 1 + Len(b) : a[m] = IF m <= 1 THEN h[m] ELSE b[m - 1]
  <2>1. /\ a \in Seq(S) /\ Len(a) = Len(h) + Len(b)
        /\ \A m \in 1 .. Len(h) + Len(b) : a[m] = IF m <= Len(h) THEN h[m] ELSE b[m - Len(h)]
    BY <1>1, ConcatProperties
  <2> QED
    BY <1>1, <2>1
<1> HIDE DEF a
<1>4. /\ g \in Seq(S) /\ Len(g) = 1 + Len(b) + 1
      /\ \A m \in 1 .. 1 + Len(b) + 1 : g[m] = IF m <= 1 + Len(b) THEN a[m] ELSE e[m - (1 + Len(b))]
  <2>1. /\ g \in Seq(S) /\ Len(g) = Len(a) + Len(e)
        /\ \A m \in 1 .. Len(a) + Len(e) : g[m] = IF m <= Len(a) THEN a[m] ELSE e[m - Len(a)]
    BY <1>1, <1>3, ConcatProperties
  <2> QED
    BY <1>1, <1>3, <2>1
<1> HIDE DEF g
<1>5. g[1] = x
  <2>1. 1 \in 1 .. 1 + Len(b) + 1 /\ 1 <= 1 + Len(b) /\ 1 \in 1 .. 1 + Len(b)
    BY <1>2
  <2> QED
    BY <1>1, <1>3, <1>4, <2>1
<1>6. ASSUME NEW n \in 1 .. Len(g) PROVE g[n] \in {x, y} \cup {b[m] : m \in 1 .. Len(b)}
  <2>1. CASE n = 1
    BY <1>5, <2>1
  <2>2. CASE n = Len(b) + 2
    <3>1. n \in 1 .. 1 + Len(b) + 1 /\ ~(n <= 1 + Len(b)) /\ n - (1 + Len(b)) = 1
      BY <1>2, <2>2
    <3> QED
      BY <1>1, <1>4, <3>1
  <2>3. CASE n # 1 /\ n # Len(b) + 2
    <3>1. n \in 1 .. 1 + Len(b) + 1 /\ n <= 1 + Len(b) /\ n \in 1 .. 1 + Len(b) /\ ~(n <= 1)
          /\ n - 1 \in 1 .. Len(b)
      BY <1>2, <1>4, <2>3
    <3>2. g[n] = b[n - 1]
      BY <1>3, <1>4, <3>1
    <3> QED
      BY <3>1, <3>2
  <2> QED
    BY <2>1, <2>2, <2>3
<1>7. Len(g) \in Nat /\ Len(g) # 0
  BY <1>2, <1>4
<1> QED
  BY <1>4, <1>5, <1>6, <1>7 DEF g, a, h, e

LEMMA NoMessages == \A p : MessagesTyped(p, << >>)
BY DEF MessagesTyped

LEMMA OneMessage ==
  ASSUME NEW p, NEW m, MessageTyped(p, m)
  PROVE  MessagesTyped(p, <<m>>)
<1>1. Len(<<m>>) = 1 /\ <<m>>[1] = m
  OBVIOUS
<1> QED
  BY <1>1 DEF MessagesTyped

(* The first message of a sequence, and the others. *)
LEMMA Split ==
  ASSUME NEW s, \E S : s \in Seq(S), s # << >>, NEW p, MessagesTyped(p, s)
  PROVE  /\ MessagesTyped(p, <<Head(s)>>) /\ MessagesTyped(p, Tail(s))
         /\ \E S : Tail(s) \in Seq(S)
<1>1. PICK S : s \in Seq(S)
  OBVIOUS
<1>2. Len(s) \in Nat /\ Len(s) # 0
  BY <1>1, EmptySeq
<1>3. /\ Head(s) = s[1] /\ Tail(s) \in Seq(S) /\ Len(Tail(s)) = Len(s) - 1
      /\ \A i \in 1 .. Len(Tail(s)) : Tail(s)[i] = s[i + 1]
  BY <1>1, HeadTailProperties
<1>4. MessageTyped(p, Head(s))
  BY <1>2, <1>3 DEF MessagesTyped
<1>5. \A i \in 1 .. Len(s) - 1 : i + 1 \in 1 .. Len(s)
  BY <1>2
<1>6. MessagesTyped(p, Tail(s))
  BY <1>2, <1>3, <1>5 DEF MessagesTyped
<1> QED
  BY <1>3, <1>4, <1>6, OneMessage

LEMMA GroupTyped ==
  ASSUME PubTyped, NEW i \in Instruments
  PROVE  /\ MessagesTyped("snapshot", Group(i)) /\ Group(i) # << >>
         /\ \E S : Group(i) \in Seq(S)
<1> DEFINE orders == SetToSeq(now[i])
           anchor == IF awaiting[i] # Nil THEN awaiting[i] ELSE sent["mktdata"] - 1
           id == groups[i] + 1
           n == Len(orders)
           x == [type |-> "begin", instr |-> i, id |-> id, anchor |-> anchor,
                 total |-> n, lastK |-> SeqNow(i)]
           b == [m \in 1 .. n |->
                   [type |-> "order", instr |-> i, id |-> id, order |-> orders[m].order,
                    side |-> orders[m].side, left |-> orders[m].left,
                    hidden |-> orders[m].hidden]]
           y == [type |-> "end", instr |-> i, id |-> id, anchor |-> anchor]
           S == {x, y} \cup {b[m] : m \in 1 .. n}
           g == <<x>> \o b \o <<y>>
<1>1. Group(i) = g
  BY DEF Group
<1>2. n \in Nat
  BY Listed DEF PubTyped
<1>3. SnapshotTyped(x) /\ SnapshotTyped(y) /\ \A m \in 1 .. n : SnapshotTyped(b[m])
  BY DEF SnapshotTyped
<1> HIDE DEF orders, n, x, y
<1>4. b \in Seq(S) /\ Len(b) = n
  <2>1. b \in [1 .. n -> S] /\ DOMAIN b = 1 .. n
    OBVIOUS
  <2> HIDE DEF S, b
  <2>2. b \in Seq(S)
    BY <1>2, <2>1, SeqDef
  <2>3. DOMAIN b = 1 .. Len(b) /\ Len(b) \in Nat
    BY <2>2, LenProperties
  <2> QED
    BY <1>2, <2>1, <2>2, <2>3, SameTop
<1>5. x \in S /\ y \in S
  OBVIOUS
<1> HIDE DEF S, b
<1>6. /\ g \in Seq(S) /\ Len(g) \in Nat /\ Len(g) # 0 /\ g[1] = x
      /\ \A k \in 1 .. Len(g) : g[k] \in {x, y} \cup {b[m] : m \in 1 .. Len(b)}
  BY <1>4, <1>5, Framed
<1> HIDE DEF g
<1>7. \A k \in 1 .. Len(g) : MessageTyped("snapshot", g[k])
  BY <1>3, <1>4, <1>6 DEF MessageTyped
<1>8. g # << >>
  <2>1. Len(<< >>) = 0
    OBVIOUS
  <2> QED
    BY <1>6, <2>1
<1> QED
  BY <1>1, <1>6, <1>7, <1>8 DEF MessagesTyped

-----------------------------------------------------------------------------
(* The publisher's frames.                                                 *)
LEMMA CountsNat == CountsDiffer /\ PubTyped => /\ feedEra \in Nat /\ plan.resets \in Nat
                                               /\ plan.deltas \in Nat
BY PlansAssumption, MboPlansAssumption DEF PubTyped

(* A Reset Count tells the era. *)
LEMMA SameCount ==
  ASSUME CountsDiffer, PubTyped, NEW a \in 0 .. feedEra, NEW b \in 0 .. feedEra,
         ResetCountOf(a) = ResetCountOf(b)
  PROVE  a = b
<1>1. a \in 0 .. plan.resets /\ b \in 0 .. plan.resets
  BY CountsNat DEF PubTyped
<1> QED
  BY <1>1 DEF CountsDiffer, PubTyped

LEMMA NewCount ==
  ASSUME CountsDiffer, PubTyped, feedEra < plan.resets, NEW e \in 0 .. feedEra
  PROVE  ResetCountOf(e) # ResetCountOf(feedEra + 1)
<1>1. e \in 0 .. plan.resets /\ feedEra + 1 \in 0 .. plan.resets /\ e # feedEra + 1
  BY CountsNat DEF PubTyped
<1> QED
  BY <1>1 DEF CountsDiffer, PubTyped

(* A sent frame stays one while the publisher goes on. *)
Onward ==
  /\ plan' = plan
  /\ \/ feedEra' = feedEra /\ \A q \in Ports : sent'[q] \in Nat /\ sent[q] <= sent'[q]
     \/ feedEra' = feedEra + 1

LEMMA FrameStays ==
  ASSUME Onward, feedEra \in Nat, sent \in [Ports -> Nat], NEW q \in Ports, NEW x, FrameFrom(q, x)
  PROVE  FrameFrom(q, x)'
<1>1. /\ x.seq \in 0 .. MaxSeq /\ Era(x) \in 0 .. feedEra /\ x.rc = ResetCountOf(Era(x))
      /\ Era(x) = feedEra => x.seq < sent[q]
  BY DEF FrameFrom, Numbered
<1>2. x.seq \in 0 .. MaxSeq /\ Era(x) \in 0 .. feedEra' /\ (Era(x) = feedEra' => x.seq < sent'[q])
  <2>1. CASE feedEra' = feedEra /\ sent'[q] \in Nat /\ sent[q] <= sent'[q]
    BY <1>1, <2>1
  <2>2. CASE feedEra' = feedEra + 1
    BY <1>1, <2>2
  <2> QED
    BY <2>1, <2>2 DEF Onward
<1>3. Numbered(q, x)'
  BY <1>1, <1>2 DEF Numbered
<1>4. MessagesTyped(q, x.body.msgs)'
  BY DEF FrameFrom, Onward, MessagesTyped, MessageTyped, MktdataTyped, SnapshotTyped
<1> QED
  BY <1>3, <1>4 DEF FrameFrom

(* What a port has not classified was sent. *)
LEMMA PendingSent ==
  ASSUME FlowInv, PubTyped, NEW q \in Ports, NEW x \in Pending(q)
  PROVE  /\ x.seq \in Nat /\ x.era \in 0 .. feedEra /\ (x.era = feedEra => x.seq < sent[q])
         /\ MessagesTyped(q, x.msgs)
<1>1. PICK y : FrameFrom(q, y) /\ x = Frame(y)
  BY DEF Pending, OfPort, FlowInv, NetInv, BufferInv
<1>2. x.era = Era(y) /\ x.seq = y.seq /\ x.msgs = y.body.msgs
  BY <1>1 DEF Frame
<1> QED
  BY <1>1, <1>2 DEF FrameFrom, Numbered

(* Nothing is sent. *)
LEMMA NothingSent ==
  ASSUME FlowInv, Onward, PubTyped, CountsDiffer, sent' \in [Ports -> Nat],
         feedEra' # feedEra => feedEra < plan.resets,
         UNCHANGED <<vars, net>>
  PROVE  FlowInv' /\ \A q : Pending(q)' = Pending(q)
<1>0. feedEra \in Nat /\ sent \in [Ports -> Nat]
  BY CountsNat DEF FlowInv, NetInv
<1>1. \A q \in Ports : \A x : FrameFrom(q, x) => FrameFrom(q, x)'
  BY <1>0, FrameStays
<1>2. pt' = pt /\ pos' = pos /\ next' = next /\ net' = net
  BY DEF vars
<1>3. {"mktdata", "snapshot"} \subseteq Ports
  BY PlansAssumption, MboPlansAssumption
<1>4. NetInv'
  BY <1>1, <1>2, <1>3 DEF FlowInv, NetInv
<1>5. BufferInv'
  BY <1>1, <1>2 DEF FlowInv, BufferInv, OfPort
<1>6. IntakeInv'
  <2>1. ASSUME NEW q \in Ports
        PROVE  /\ pt[q].eraPos # 0 => \E e \in 0 .. feedEra' : pt[q].era = ResetCountOf(e)
               /\ \A a \in pt[q].accepted :
                    a.seq \in Nat /\ (pt[q].era = ResetCountOf(feedEra') => a.seq < sent'[q])
    <3>1. /\ pt[q].eraPos # 0 => \E e \in 0 .. feedEra : pt[q].era = ResetCountOf(e)
          /\ pt[q].eraPos = 0 => pt[q].accepted = {}
          /\ \A a \in pt[q].accepted :
               a.seq \in Nat /\ (pt[q].era = ResetCountOf(feedEra) => a.seq < sent[q])
      BY DEF FlowInv, IntakeInv
    <3>2. CASE feedEra' = feedEra /\ sent'[q] \in Nat /\ sent[q] <= sent'[q]
      BY <1>0, <3>1, <3>2
    <3>3. CASE feedEra' = feedEra + 1
      <4>1. feedEra < plan.resets /\ 0 .. feedEra \subseteq 0 .. feedEra'
        BY <1>0, <3>3
      <4>2. \A e \in 0 .. feedEra : ResetCountOf(e) # ResetCountOf(feedEra')
        BY <3>3, <4>1, NewCount
      <4> QED
        BY <3>1, <4>1, <4>2
    <3> QED
      BY <3>2, <3>3 DEF Onward
  <2> QED
    BY <1>2, <2>1 DEF FlowInv, IntakeInv, OfPort
<1>7. \A q : Pending(q)' = Pending(q)
  BY <1>2 DEF Pending, OfPort
<1> QED
  BY <1>4, <1>5, <1>6, <1>7 DEF FlowInv

NewFrame(p, msgs) == [era |-> feedEra, seq |-> sent[p], msgs |-> msgs]

Grows(p, fr) ==
  \A q \in Ports : Pending(q)' = IF q = p THEN Pending(q) \cup {fr} ELSE Pending(q)

LEMMA Sent ==
  ASSUME FlowInv, PubTyped, CountsDiffer, NEW p \in {"mktdata", "snapshot"}, NEW msgs,
         Put(p, msgs), UNCHANGED <<vars, plan>>, MessagesTyped(p, msgs)
  PROVE  FlowInv' /\ Grows(p, NewFrame(p, msgs))
<1>1. PICK f : /\ net' = Append(net, f) /\ f.port = p /\ f.rc = ResetCountOf(feedEra)
               /\ f.seq = sent[p] /\ f.body.msgs = msgs /\ Era(f) = feedEra
  <2> DEFINE f == [port |-> p, rc |-> ResetCountOf(feedEra),
                   seq |-> sent[p], body |-> [msgs |-> msgs, at |-> Now]]
  <2>1. /\ f.port = p /\ f.rc = ResetCountOf(feedEra) /\ f.seq = sent[p] /\ f.body.msgs = msgs
        /\ Era(f) = feedEra
    BY DEF Era, Now
  <2>2. net' = Append(net, f)
    BY DEF Put
  <2> HIDE DEF f
  <2> QED
    BY <2>1, <2>2
<1> DEFINE k == Len(net) + 1
<1>2. sent \in [Ports -> Nat] /\ feedEra \in Nat /\ p \in Ports
      /\ \E S : net \in Seq(S)
  BY CountsNat, PlansAssumption, MboPlansAssumption DEF FlowInv, NetInv
<1>3. /\ DOMAIN net = 1 .. Len(net) /\ Len(net) \in Nat /\ DOMAIN net' = 1 .. k
      /\ net'[k] = f /\ \A n \in DOMAIN net : net'[n] = net[n]
      /\ \E S : net' \in Seq(S)
  <2>1. /\ \E S : Append(net, f) \in Seq(S)
        /\ Len(net) \in Nat /\ Len(Append(net, f)) = k /\ Append(net, f)[k] = f
        /\ \A n \in 1 .. Len(net) : Append(net, f)[n] = net[n]
    BY <1>2, Lengthened
  <2> QED
    BY <1>1, <1>2, <2>1, LenProperties
<1>4. net' \in Seq({net'[n] : n \in DOMAIN net'})
  BY <1>3, OwnRange
<1>5. sent' = [sent EXCEPT ![p] = sent[p] + 1] /\ feedEra' = feedEra
  BY DEF Put
<1>6. Onward
  BY <1>2, <1>5 DEF Onward
<1>7. \A q \in Ports : \A x : FrameFrom(q, x) => FrameFrom(q, x)'
  BY <1>2, <1>6, FrameStays
<1>8. FrameFrom(p, f)'
  <2>1. f.seq \in 0 .. MaxSeq /\ f.seq < sent'[p] /\ feedEra \in 0 .. feedEra'
    BY <1>1, <1>2, <1>5, SeqAssumption DEF Put
  <2>2. Numbered(p, f)'
    BY <1>1, <1>5, <2>1 DEF Numbered
  <2>3. MessagesTyped(p, f.body.msgs)'
    BY <1>1 DEF MessagesTyped, MessageTyped, MktdataTyped, SnapshotTyped
  <2> QED
    BY <2>2, <2>3 DEF FrameFrom
<1>9. \A x : Numbered(p, x) => Earlier(x, f)
  BY <1>1, <1>2 DEF Numbered, Earlier
<1>10. OfPort(p)' = OfPort(p) \cup {k} /\ \A q : q # p => OfPort(q)' = OfPort(q)
  BY <1>1, <1>3 DEF OfPort
<1>11. NetInv'
  <2>1. sent' \in [Ports -> Nat]
    BY <1>2, <1>5
  <2>2. \A n \in DOMAIN net' : net'[n].port \in {"mktdata", "snapshot"} /\ FrameFrom(net[n].port, net[n])'
    <3>1. ASSUME NEW n \in DOMAIN net
          PROVE  net'[n].port \in {"mktdata", "snapshot"} /\ FrameFrom(net[n].port, net[n])'
      <4>1. PICK x, q : x = net[n] /\ q = net[n].port
        OBVIOUS
      <4>2. q \in {"mktdata", "snapshot"} /\ FrameFrom(q, x) /\ q \in Ports
        BY <4>1, PlansAssumption, MboPlansAssumption DEF FlowInv, NetInv
      <4>3. net'[n] = net[n]
        BY <1>3
      <4>4. FrameFrom(q, x)'
        BY <1>7, <4>2
      <4> QED
        BY <4>1, <4>2, <4>3, <4>4
    <3>2. ASSUME NEW n, n = k
          PROVE  net'[n].port \in {"mktdata", "snapshot"} /\ FrameFrom(net[n].port, net[n])'
      <4>1. net'[n] = f
        BY <1>3, <3>2
      <4> QED
        BY <1>1, <1>8, <4>1
    <3> QED
      BY <1>3, <3>1, <3>2
  <2>3. ASSUME NEW m \in DOMAIN net', NEW n \in DOMAIN net', m < n, net'[m].port = net'[n].port
        PROVE  Earlier(net'[m], net'[n])
    <3>1. CASE n \in DOMAIN net
      <4>1. m \in DOMAIN net
        BY <1>3, <2>3, <3>1
      <4> QED
        BY <1>3, <2>3, <3>1, <4>1 DEF FlowInv, NetInv
    <3>2. CASE n = k
      <4>1. m \in DOMAIN net
        BY <1>3, <2>3, <3>2
      <4>2. net'[m] = net[m] /\ net[m].port = p /\ Numbered(p, net[m])
        BY <1>1, <1>3, <2>3, <3>2, <4>1 DEF FlowInv, NetInv, FrameFrom
      <4> QED
        BY <1>3, <1>9, <3>2, <4>2
    <3> QED
      BY <1>3, <3>1, <3>2
  <2> QED
    BY <1>4, <2>1, <2>2, <2>3 DEF NetInv, Earlier, Era
<1>12. BufferInv'
  <2>1. pt' = pt
    BY DEF vars
  <2> SUFFICES ASSUME NEW q \in Ports, NEW i \in pt[q].buf
               PROVE  FrameFrom(q, i)' /\ \A n \in OfPort(q)' : Earlier(i, net'[n])
    BY <2>1 DEF FlowInv, BufferInv, Earlier, Era
  <2>2. FrameFrom(q, i) /\ \A n \in OfPort(q) : Earlier(i, net[n])
    BY DEF FlowInv, BufferInv
  <2>3. q = p => Earlier(i, f)
    BY <1>9, <2>2 DEF FrameFrom
  <2>4. \A n \in OfPort(q) : net'[n] = net[n]
    BY <1>3 DEF OfPort
  <2> QED
    BY <1>3, <1>7, <1>10, <2>2, <2>3, <2>4
<1>13. IntakeInv'
  <2>1. ASSUME NEW q \in Ports, NEW a \in pt[q].accepted
        PROVE  /\ pt[q].era = ResetCountOf(feedEra) => a.seq < sent'[q]
               /\ \A n \in OfPort(q)' : net'[n].rc = pt[q].era => a.seq < net'[n].seq
    <3>1. /\ a.seq \in Nat /\ (pt[q].era = ResetCountOf(feedEra) => a.seq < sent[q])
          /\ \A n \in OfPort(q) : net[n].rc = pt[q].era => a.seq < net[n].seq
      BY DEF FlowInv, IntakeInv
    <3>2. \A n \in OfPort(q) : net'[n] = net[n]
      BY <1>3 DEF OfPort
    <3>3. CASE q = p
      <4>1. /\ pt[q].era = ResetCountOf(feedEra) => a.seq < sent[p] /\ sent'[q] = sent[p] + 1
            /\ sent[p] \in Nat
        BY <1>2, <1>5, <3>1, <3>3
      <4>2. net'[k].rc = pt[q].era => a.seq < net'[k].seq
        BY <1>1, <1>3, <3>1, <3>3
      <4>3. OfPort(q)' = OfPort(q) \cup {k}
        BY <1>10, <3>3
      <4> QED
        BY <3>1, <3>2, <4>1, <4>2, <4>3
    <3>4. CASE q # p
      <4>1. sent'[q] = sent[q] /\ OfPort(q)' = OfPort(q)
        BY <1>2, <1>5, <1>10, <3>4
      <4> QED
        BY <3>1, <3>2, <4>1
    <3> QED
      BY <3>3, <3>4
  <2> QED
    BY <1>5, <2>1 DEF FlowInv, IntakeInv, vars, OfPort
<1>14. Grows(p, NewFrame(p, msgs))
  <2>1. \A q : Pending(q)' = {Frame(i) : i \in pt'[q].buf} \cup {Frame(net'[n]) : n \in OfPort(q)'}
    BY DEF Pending, Frame, Era
  <2>2. pt' = pt
    BY DEF vars
  <2>3. \A q : OfPort(q) \subseteq DOMAIN net
    BY DEF OfPort
  <2>4. \A n \in DOMAIN net : Frame(net'[n]) = Frame(net[n])
    BY <1>3
  <2>5. Frame(net'[k]) = NewFrame(p, msgs)
    BY <1>1, <1>3 DEF Frame, NewFrame
  <2>6. ASSUME NEW q \in Ports, q # p PROVE Pending(q)' = Pending(q)
    <3>1. OfPort(q)' = OfPort(q)
      BY <1>10, <2>6
    <3>2. {Frame(net'[n]) : n \in OfPort(q)'} = {Frame(net[n]) : n \in OfPort(q)}
      BY <2>3, <2>4, <3>1
    <3> QED
      BY <2>1, <2>2, <3>2 DEF Pending
  <2>7. Pending(p)' = Pending(p) \cup {NewFrame(p, msgs)}
    <3>1. OfPort(p)' = OfPort(p) \cup {k}
      BY <1>10
    <3>2. {Frame(net'[n]) : n \in OfPort(p)'}
            = {Frame(net[n]) : n \in OfPort(p)} \cup {NewFrame(p, msgs)}
      BY <2>3, <2>4, <2>5, <3>1
    <3> QED
      BY <2>1, <2>2, <3>2 DEF Pending
  <2> QED
    BY <2>6, <2>7 DEF Grows
<1> QED
  BY <1>11, <1>12, <1>13, <1>14 DEF FlowInv

(* What a frame of mktdata adds to what was published. *)
Published(fr) ==
  /\ fr.era = feedEra /\ fr.seq = sent["mktdata"] /\ Riding(fr.msgs)
  /\ feedEra' = feedEra /\ sent'["mktdata"] = sent["mktdata"] + 1
  /\ UNCHANGED <<vars, plan, v, crossed>>
  /\ \A i \in Instruments :
       /\ Len(books'[i]) \in Nat /\ Len(books[i]) <= Len(books'[i])
       /\ \A s \in 1 .. Len(books[i]) : books'[i][s] = books[i][s]
       /\ Tells(fr, i) =>
            /\ Number(fr) = Len(books[i]) /\ Len(books'[i]) = Len(books[i]) + 1
            /\ now'[i] = books'[i][Len(books[i]) + 1]
            /\ now[i] = books[i][Len(books[i])] =>
                 Leads(fr.msgs[1].body, books[i][Len(books[i])], books'[i][Len(books[i]) + 1])
       /\ Resets(fr, i) => plan.correcting # "never" /\ SeqNow(i) >= 1
       /\ ~Tells(fr, i) => books'[i] = books[i]
       /\ ~Tells(fr, i) /\ ~Resets(fr, i) => now'[i] = now[i]

LEMMA LengthsNat ==
  ASSUME PubTyped, NEW i \in Instruments
  PROVE  Len(books[i]) \in Nat /\ Len(books[i]) >= 1 /\ SeqNow(i) \in Nat
         /\ SeqNow(i) + 1 = Len(books[i])
<1>1. Len(books[i]) \in 1 .. plan.deltas + 1 /\ plan.deltas \in Nat
  BY MboPlansAssumption DEF PubTyped
<1> QED
  BY <1>1 DEF SeqNow

LEMMA SayingsGrow ==
  ASSUME PubTyped, NEW D, NEW fr, Published(fr), Sayings(D), sent["mktdata"] \in Nat,
         \A x \in D : x.seq \in Nat /\ (x.era = feedEra => x.seq < sent["mktdata"]),
         Pending("mktdata")' = D \cup {fr}
  PROVE  Sayings(Pending("mktdata"))'
<1> DEFINE E == D \cup {fr}
<1>1. \A x : \A i \in Instruments : (Tells(x, i)' <=> Tells(x, i)) /\ (Resets(x, i)' <=> Resets(x, i))
  BY DEF Tells, Resets, Published
<1>2. \A i \in Instruments : SeqNow(i) \in Nat /\ SeqNow(i)' \in Int /\ SeqNow(i) <= SeqNow(i)'
        /\ SeqNow(i)' = Len(books'[i]) - 1 /\ SeqNow(i) + 1 = Len(books[i])
  BY LengthsNat DEF Published, SeqNow
<1>3. \A x \in E : Riding(x.msgs)
  BY DEF Sayings, Published
<1>4. ASSUME NEW x \in E, NEW i \in Instruments
      PROVE  /\ Tells(x, i) => Number(x) \in 1 .. SeqNow(i)'
             /\ Resets(x, i) => plan.correcting # "never" /\ SeqNow(i)' >= 1
  <2>1. CASE x \in D
    <3>1. /\ Tells(x, i) => Number(x) \in 1 .. SeqNow(i)
          /\ Resets(x, i) => plan.correcting # "never" /\ SeqNow(i) >= 1
      BY <2>1 DEF Sayings
    <3>2. SeqNow(i) \in Nat /\ SeqNow(i)' \in Int /\ SeqNow(i) <= SeqNow(i)'
      BY <1>2
    <3> QED
      BY <3>1, <3>2
  <2>2. CASE x = fr
    <3>1. /\ Tells(fr, i) => Number(fr) = Len(books[i]) /\ Len(books'[i]) = Len(books[i]) + 1
          /\ Resets(fr, i) => plan.correcting # "never" /\ SeqNow(i) >= 1
      BY DEF Published
    <3>2. /\ SeqNow(i) \in Nat /\ SeqNow(i)' \in Int /\ SeqNow(i) <= SeqNow(i)'
          /\ SeqNow(i)' = Len(books'[i]) - 1 /\ SeqNow(i) + 1 = Len(books[i])
      BY <1>2
    <3> QED
      BY <2>2, <3>1, <3>2
  <2> QED
    BY <2>1, <2>2
<1>5. ASSUME NEW x \in E, NEW y \in E, NEW i \in Instruments, Tells(x, i)
      PROVE  /\ Tells(y, i) /\ x.seq < y.seq => Number(x) < Number(y)
             /\ Resets(y, i) /\ Number(x) = 1 => x.seq < y.seq
  <2>1. SeqNow(i) \in Nat /\ SeqNow(i) + 1 = Len(books[i])
    BY <1>2
  <2>2. x.era = feedEra /\ (Tells(y, i) \/ Resets(y, i) => y.era = feedEra)
    BY <1>5 DEF Tells, Resets
  <2>3. CASE x \in D /\ y \in D
    BY <1>5, <2>3 DEF Sayings
  <2>4. CASE x \in D /\ y = fr
    <3>1. Number(x) \in 1 .. SeqNow(i) /\ x.seq < fr.seq
      BY <1>5, <2>2, <2>4 DEF Sayings, Published
    <3>2. Tells(fr, i) => Number(fr) = Len(books[i])
      BY DEF Published
    <3> QED
      BY <2>1, <2>4, <3>1, <3>2
  <2>5. CASE x = fr /\ y \in D
    <3>1. Number(fr) = Len(books[i]) /\ fr.seq = sent["mktdata"]
      BY <1>5, <2>5 DEF Published
    <3>2. Tells(y, i) => ~(fr.seq < y.seq)
      BY <2>2, <2>5, <3>1
    <3>3. Resets(y, i) => SeqNow(i) >= 1
      BY <2>5 DEF Sayings
    <3>4. Resets(y, i) => Number(fr) # 1
      <4>1. SeqNow(i) >= 1 => SeqNow(i) + 1 # 1
        BY <2>1
      <4> QED
        BY <2>1, <3>1, <3>3, <4>1
    <3>5. x = fr
      BY <2>5
    <3> QED
      BY <3>2, <3>4, <3>5
  <2>6. CASE x = fr /\ y = fr
    <3>1. ~(fr.seq < fr.seq) /\ ~Resets(fr, i)
      BY <1>5, <2>6 DEF Published, Tells, Resets, Says
    <3> QED
      BY <2>6, <3>1
  <2> QED
    BY <2>3, <2>4, <2>5, <2>6
<1> HIDE DEF E
<1>6. Pending("mktdata")' = E
  BY DEF E
<1>7. plan' = plan
  BY DEF Published
<1> QED
  BY <1>1, <1>3, <1>4, <1>5, <1>6, <1>7 DEF Sayings, Number

LEMMA CutGrows ==
  ASSUME NEW w, NEW D, NEW i, NEW q, NEW fr, Cut(w, D, i, q), Tells(fr, i) => Number(fr) # 1
  PROVE  Cut(w, D \cup {fr}, i, q)
BY DEF Cut

LEMMA TruthGrows ==
  ASSUME PubTyped, Followed(plan), NEW D, NEW fr, Published(fr), Sayings(D), sent["mktdata"] \in Nat,
         \A x \in D : x.seq \in Nat /\ (x.era = feedEra => x.seq < sent["mktdata"]),
         Pending("mktdata") = D, Pending("mktdata")' = D \cup {fr}, StateTyped(v), Truth
  PROVE  Truth'
<1>1. PICK E : E = D \cup {fr}
  OBVIOUS
<1>2. /\ v' = v /\ feedEra' = feedEra /\ pt' = pt /\ plan' = plan
      /\ sent'["mktdata"] = sent["mktdata"] + 1 /\ fr.seq = sent["mktdata"] /\ fr.era = feedEra
  BY DEF Published, vars
<1>3. \A x, i : (Tells(x, i)' <=> Tells(x, i)) /\ (Resets(x, i)' <=> Resets(x, i))
  BY <1>2 DEF Tells, Resets
<1>4. (In(v)' <=> In(v)) /\ (Lossless' <=> Lossless)
  BY <1>2 DEF In, Lossless
<1>5. TruthOn(v, D)
  BY DEF Truth
<1>6. ASSUME NEW i \in Instruments
      PROVE  TrueBook(v, E, i)' /\ TrueDeltas(v, E, i)' /\ TrueNow(v, E, i)'
  <2>1. /\ SeqNow(i) \in Nat /\ SeqNow(i) + 1 = Len(books[i])
        /\ SeqNow(i)' = Len(books'[i]) - 1 /\ Len(books'[i]) \in Nat
        /\ Len(books[i]) <= Len(books'[i])
        /\ \A s \in 1 .. Len(books[i]) : books'[i][s] = books[i][s]
    BY LengthsNat DEF Published, SeqNow
  <2>2. TrueBook(v, D, i) /\ TrueDeltas(v, D, i) /\ TrueNow(v, D, i)
    BY <1>5 DEF TruthOn
  <2>3. /\ Tells(fr, i) =>
             /\ Number(fr) = Len(books[i]) /\ Len(books'[i]) = Len(books[i]) + 1
             /\ now'[i] = books'[i][Len(books[i]) + 1]
             /\ now[i] = books[i][Len(books[i])] =>
                  Leads(fr.msgs[1].body, books[i][Len(books[i])], books'[i][Len(books[i]) + 1])
        /\ Resets(fr, i) => plan.correcting # "never" /\ SeqNow(i) >= 1
        /\ ~Tells(fr, i) => books'[i] = books[i]
        /\ ~Tells(fr, i) /\ ~Resets(fr, i) => now'[i] = now[i]
    BY DEF Published
  <2>4. v.instr[i].last \in Int
    BY MboPlansAssumption DEF StateTyped, InstrTyped, Nil, PubTyped
  <2>5. ASSUME NEW q, Cut(v, D, i, q), SeqNow(i) >= 1 PROVE Cut(v, E, i, q)
    BY <1>1, <2>1, <2>3, <2>5, CutGrows
  <2>6. \A q : Cut(v, E, i, q)' <=> Cut(v, E, i, q)
    BY <1>2, <1>3, <1>4 DEF Cut, Number
  <2>7. TrueBook(v, E, i)'
    <3>1. /\ v.instr[i].last = Nil => Blank(v.books[i])
          /\ In(v) => v.instr[i].last <= SeqNow(i)
                       /\ \A x \in D : Tells(x, i) => v.instr[i].last < Number(x)
          /\ In(v) /\ v.instr[i].trusted =>
               /\ v.instr[i].last \in 1 .. SeqNow(i)
               /\ Mirror(v.books[i], books[i][v.instr[i].last + 1])
      BY <2>2 DEF TrueBook
    <3>2. In(v) => v.instr[i].last <= SeqNow(i)' /\ \A x \in E : Tells(x, i) => v.instr[i].last < Number(x)
      <4>1. In(v) => v.instr[i].last <= SeqNow(i) /\ (Tells(fr, i) => v.instr[i].last < Number(fr))
        BY <2>1, <2>3, <2>4, <3>1
      <4>2. In(v) => v.instr[i].last <= SeqNow(i)'
        BY <2>1, <2>4, <4>1
      <4> QED
        BY <1>1, <3>1, <4>1, <4>2
    <3>3. In(v) /\ v.instr[i].trusted =>
            /\ v.instr[i].last \in 1 .. SeqNow(i)'
            /\ Mirror(v.books[i], books'[i][v.instr[i].last + 1])
      <4>1. v.instr[i].last \in 1 .. SeqNow(i) =>
              v.instr[i].last \in 1 .. SeqNow(i)' /\ v.instr[i].last + 1 \in 1 .. Len(books[i])
        BY <2>1
      <4> QED
        BY <2>1, <3>1, <4>1
    <3> QED
      BY <1>2, <1>3, <1>4, <3>1, <3>2, <3>3 DEF TrueBook, Blank, Mirror, Live, Number
  <2>8. TrueDeltas(v, E, i)'
    <3>1. ASSUME NEW x \in E, Tells(x, i)
          PROVE  \/ Leads(x.msgs[1].body, books'[i][Number(x)], books'[i][Number(x) + 1])
                 \/ Lossless /\ Cut(v, E, i, x.seq)
      <4>1. CASE x \in D
        <5>1. Number(x) \in 1 .. SeqNow(i)
          BY <3>1, <4>1 DEF Sayings
        <5>2. SeqNow(i) >= 1 /\ Number(x) \in 1 .. Len(books[i]) /\ Number(x) + 1 \in 1 .. Len(books[i])
          BY <2>1, <5>1
        <5> QED
          BY <2>1, <2>2, <2>5, <3>1, <4>1, <5>2 DEF TrueDeltas
      <4>2. CASE x = fr
        <5>1. Number(fr) = Len(books[i]) /\ Len(books[i]) \in 1 .. Len(books[i])
          BY <2>1, <2>3, <3>1, <4>2
        <5> QED
          BY <1>2, <2>1, <2>2, <2>3, <2>5, <3>1, <4>2, <5>1 DEF TrueNow
      <4> QED
        BY <1>1, <4>1, <4>2
    <3> QED
      BY <1>3, <1>4, <2>6, <3>1 DEF TrueDeltas, Number, Leads
  <2>9. TrueNow(v, E, i)'
    <3>1. \/ now'[i] = books'[i][Len(books'[i])]
          \/ Lossless /\ SeqNow(i)' >= 1 /\ Cut(v, E, i, sent["mktdata"] + 1)
      <4>1. CASE Tells(fr, i)
        BY <2>3, <4>1
      <4>2. CASE Resets(fr, i)
        <5>1. Lossless
          BY <2>3, <4>2 DEF Followed, Lossless
        <5>2. Cut(v, E, i, sent["mktdata"] + 1)
          BY <1>1, <1>2, <4>2 DEF Cut
        <5>3. SeqNow(i)' >= 1
          BY <2>1, <2>3, <4>2
        <5> QED
          BY <5>1, <5>2, <5>3
      <4>3. CASE ~Tells(fr, i) /\ ~Resets(fr, i)
        <5>1. now'[i] = now[i] /\ books'[i] = books[i]
          BY <2>3, <4>3
        <5>2. ASSUME Cut(v, D, i, sent["mktdata"]), SeqNow(i) >= 1
              PROVE  Cut(v, E, i, sent["mktdata"] + 1)
          <6>1. Cut(v, D, i, sent["mktdata"] + 1)
            BY <5>2 DEF Cut, Resets
          <6> QED
            BY <2>5, <5>2, <6>1
        <5>3. SeqNow(i)' = SeqNow(i)
          BY <2>1, <5>1
        <5> QED
          BY <2>2, <5>1, <5>2, <5>3 DEF TrueNow
      <4> QED
        BY <4>1, <4>2, <4>3
    <3> QED
      BY <1>2, <1>4, <2>6, <3>1 DEF TrueNow
  <2> QED
    BY <2>7, <2>8, <2>9
<1>7. TruthOn(v, E)'
  <2>1. /\ v.resetEra = Nil \/ \E e \in 0 .. feedEra : v.resetEra = ResetCountOf(e)
        /\ In(v) => \A x \in D : x.era = feedEra
    BY <1>5 DEF TruthOn
  <2> QED
    BY <1>1, <1>2, <1>4, <1>6, <2>1 DEF TruthOn
<1>8. TruthOn(v, Pending("mktdata"))'
  <2>1. Pending("mktdata")' = E
    BY <1>1
  <2> QED
    BY <1>7, <2>1
<1> QED
  BY <1>2, <1>4, <1>8 DEF Truth, Unheard

LEMMA SameState ==
  ASSUME v' = v, plan' = plan, StateTyped(v)
  PROVE  StateTyped(v)'
BY DEF StateTyped, InstrTyped, BookTyped, OpenTyped

LEMMA PortsAre == "mktdata" \in Ports /\ "snapshot" \in Ports
BY PlansAssumption, MboPlansAssumption

(* A frame of mktdata keeps the invariant. *)
LEMMA MktdataStep ==
  ASSUME MboInv, CountsDiffer, NEW msgs, PublisherOnly, Put("mktdata", msgs),
         MessagesTyped("mktdata", msgs), Published(NewFrame("mktdata", msgs)), PubTyped'
  PROVE  MboInv'
<1>1. PICK D : D = Pending("mktdata")
  OBVIOUS
<1>2. PICK fr : fr = NewFrame("mktdata", msgs)
  OBVIOUS
<1>3. /\ v' = v /\ plan' = plan /\ crossed' = crossed /\ running' = running
      /\ UNCHANGED <<vars, plan>>
  BY DEF PublisherOnly
<1>4. PubTyped /\ FlowInv /\ Sayings(D) /\ StateTyped(v)
  BY <1>1 DEF MboInv, PublisherOnly
<1>5. FlowInv' /\ Grows("mktdata", NewFrame("mktdata", msgs))
  BY <1>3, <1>4, Sent
<1>6. Pending("mktdata")' = D \cup {fr}
  BY <1>1, <1>2, <1>5, PortsAre DEF Grows
<1>7. \A x \in D : x.seq \in Nat /\ (x.era = feedEra => x.seq < sent["mktdata"])
  BY <1>1, <1>4, PendingSent, PortsAre
<1>8. sent["mktdata"] \in Nat
  BY <1>4, PortsAre DEF FlowInv, NetInv
<1>9. Published(fr)
  BY <1>2
<1>10. Sayings(Pending("mktdata"))'
  BY <1>4, <1>6, <1>7, <1>8, <1>9, SayingsGrow
<1>11. Followed(plan)' /\ crossed' \subseteq {"overlap"} => Truth'
  <2>1. ASSUME Followed(plan), crossed \subseteq {"overlap"} PROVE Truth'
    <3>1. Truth
      BY <2>1 DEF MboInv
    <3> QED
      BY <1>1, <1>4, <1>6, <1>7, <1>8, <1>9, <2>1, <3>1, TruthGrows
  <2> QED
    BY <1>3, <2>1 DEF Followed
<1>12. StateTyped(v)'
  BY <1>3, <1>4, SameState
<1> QED
  BY <1>3, <1>5, <1>10, <1>11, <1>12 DEF MboInv

(* What a frame of the snapshot port says is of no account to the truth. *)
LEMMA SnapshotStep ==
  ASSUME MboInv, CountsDiffer, NEW msgs, PublisherOnly, Put("snapshot", msgs),
         MessagesTyped("snapshot", msgs), UNCHANGED <<now, books>>, PubTyped'
  PROVE  MboInv'
<1>1. PICK D : D = Pending("mktdata")
  OBVIOUS
<1>2. /\ v' = v /\ plan' = plan /\ crossed' = crossed /\ running' = running
      /\ UNCHANGED <<vars, plan>> /\ pt' = pt
  BY DEF PublisherOnly, vars
<1>3. PubTyped /\ FlowInv /\ Sayings(D) /\ StateTyped(v)
  BY <1>1 DEF MboInv, PublisherOnly
<1>4. FlowInv' /\ Grows("snapshot", NewFrame("snapshot", msgs))
  BY <1>2, <1>3, Sent
<1>5. Pending("mktdata")' = D
  BY <1>1, <1>4, PortsAre DEF Grows
<1>6. feedEra' = feedEra /\ sent'["mktdata"] = sent["mktdata"]
  BY <1>3, PortsAre DEF Put, FlowInv, NetInv
<1>7. Sayings(Pending("mktdata"))'
  <2>1. Sayings(D)'
    BY <1>2, <1>3, <1>6 DEF Sayings, Tells, Resets, Number, SeqNow
  <2> QED
    BY <1>5, <2>1
<1>8. Followed(plan)' /\ crossed' \subseteq {"overlap"} => Truth'
  <2>1. ASSUME Followed(plan), crossed \subseteq {"overlap"} PROVE Truth'
    <3>1. TruthOn(v, D) /\ (In(v) /\ Unheard(pt["mktdata"]) => \A i \in Instruments : v.instr[i].last = Nil)
      BY <1>1, <2>1 DEF MboInv, Truth
    <3>2. TruthOn(v, D)'
      <4>1. \A i : TrueBook(v, D, i) => TrueBook(v, D, i)'
        BY <1>2, <1>6 DEF TrueBook, Blank, Mirror, Live, In, Tells, Number, SeqNow
      <4>2. \A i, q : Cut(v, D, i, q) => Cut(v, D, i, q)'
        BY <1>2, <1>6 DEF Cut, In, Tells, Resets, Number
      <4>3. \A i : TrueDeltas(v, D, i) => TrueDeltas(v, D, i)'
        <5>1. \A i, x : Tells(x, i)' <=> Tells(x, i)
          BY <1>6 DEF Tells
        <5>2. \A m, S, T : Leads(m, S, T)' <=> Leads(m, S, T)
          BY DEF Leads
        <5>3. Lossless' <=> Lossless
          BY <1>2 DEF Lossless
        <5> QED
          BY <4>2, <5>1, <5>2, <5>3 DEF TrueDeltas, Number, Leads
      <4>4. \A i : TrueNow(v, D, i) => TrueNow(v, D, i)'
        <5>1. Lossless' <=> Lossless
          BY <1>2 DEF Lossless
        <5> QED
          BY <1>6, <4>2, <5>1 DEF TrueNow, SeqNow
      <4> QED
        BY <1>2, <1>6, <3>1, <4>1, <4>3, <4>4 DEF TruthOn, In
    <3>3. TruthOn(v, Pending("mktdata"))'
      BY <1>5, <3>2
    <3> QED
      BY <1>2, <1>6, <3>1, <3>3 DEF Truth, Unheard, In
  <2> QED
    BY <1>2, <2>1 DEF Followed
<1>9. StateTyped(v)'
  BY <1>2, <1>3, SameState
<1> QED
  BY <1>2, <1>4, <1>7, <1>8, <1>9 DEF MboInv

(* A message and what rides with it. *)
HeadedBy(s, h, r) ==
  /\ Len(s) = Len(r) + 1 /\ Len(r) \in Nat /\ s[1] = h
  /\ \A n \in 2 .. Len(s) : n - 1 \in 1 .. Len(r) /\ s[n] = r[n - 1]

LEMMA HeadOn ==
  ASSUME NEW h, NEW r, \E S : r \in Seq(S)
  PROVE  HeadedBy(<<h>> \o r, h, r)
<1>1. PICK S : r \in Seq(S)
  OBVIOUS
<1> DEFINE T == S \cup {h}
           e == <<h>>
<1>2. r \in Seq(T) /\ h \in T
  BY <1>1
<1> HIDE DEF T
<1>3. e \in Seq(T) /\ Len(e) = 1 /\ e[1] = h
  BY <1>2, OneSeq
<1>4. Len(r) \in Nat
  BY <1>2, LenProperties
<1> HIDE DEF e
<1> DEFINE s == e \o r
<1>5. /\ s \in Seq(T) /\ Len(s) = Len(e) + Len(r)
      /\ \A m \in 1 .. Len(e) + Len(r) : s[m] = IF m <= Len(e) THEN e[m] ELSE r[m - Len(e)]
  BY <1>2, <1>3, ConcatProperties
<1> HIDE DEF s
<1>6. s[1] = h
  BY <1>3, <1>4, <1>5
<1>7. \A n \in 2 .. Len(s) : n - 1 \in 1 .. Len(r) /\ s[n] = r[n - 1]
  BY <1>3, <1>4, <1>5
<1>8. HeadedBy(s, h, r)
  BY <1>3, <1>4, <1>5, <1>6, <1>7 DEF HeadedBy
<1> QED
  BY <1>8 DEF s, e

LEMMA DeltaStep ==
  ASSUME MboInv, CountsDiffer, NEW i \in plan.instruments, NEW body, NEW riders, NEW after,
         SendDelta(i, body, riders, after), BodyTyped(body),
         \E S : riders \in Seq(S), \A n \in 1 .. Len(riders) : riders[n].type \in {"trade", "batch"},
         RestTyped(after), IsFiniteSet(after),
         now[i] = books[i][Len(books[i])] => Leads(body, books[i][Len(books[i])], after)
  PROVE  MboInv'
<1>0. PICK h : h = [type |-> "delta", instr |-> i, seq |-> SeqNow(i) + 1, body |-> body]
  OBVIOUS
<1>1. h.type = "delta" /\ h.instr = i /\ h.seq = SeqNow(i) + 1 /\ h.body = body
  BY <1>0
<1>2. PICK msgs : msgs = <<h>> \o riders
  OBVIOUS
<1>3. /\ Len(msgs) = Len(riders) + 1 /\ Len(riders) \in Nat /\ msgs[1] = h
      /\ \A n \in 2 .. Len(msgs) : n - 1 \in 1 .. Len(riders) /\ msgs[n] = riders[n - 1]
  <2>1. HeadedBy(<<h>> \o riders, h, riders)
    BY HeadOn
  <2> QED
    BY <1>2, <2>1 DEF HeadedBy
<1>4. PubTyped /\ PublisherOnly /\ running
  BY DEF MboInv, SendDelta, PublisherOnly
<1>5. i \in Instruments /\ plan.deltas \in Nat
  BY <1>4, MboPlansAssumption DEF PubTyped
<1>6. /\ SeqNow(i) \in Nat /\ SeqNow(i) < plan.deltas /\ SeqNow(i) + 1 = Len(books[i])
      /\ Len(books[i]) \in Nat
  BY <1>4, <1>5, LengthsNat DEF SendDelta
<1>7. /\ Put("mktdata", msgs)
      /\ now' = [now EXCEPT ![i] = after] /\ books' = [books EXCEPT ![i] = Append(books[i], after)]
      /\ UNCHANGED <<groups, rest, awaiting>>
  BY <1>0, <1>2 DEF SendDelta
<1>8. Riding(msgs)
  BY <1>3 DEF Riding
<1>9. MessagesTyped("mktdata", msgs)
  <2>1. MktdataTyped(h)
    BY <1>1, <1>5, <1>6 DEF MktdataTyped
  <2>2. \A m : m.type \in {"trade", "batch"} => MktdataTyped(m)
    BY DEF MktdataTyped
  <2>3. \A n \in 1 .. Len(msgs) : n = 1 \/ n \in 2 .. Len(msgs)
    BY <1>3
  <2>4. \A n \in 1 .. Len(msgs) : MktdataTyped(msgs[n])
    BY <1>3, <1>8, <2>1, <2>2, <2>3 DEF Riding
  <2>5. Len(msgs) \in Nat
    BY <1>3
  <2> QED
    BY <1>3, <2>4, <2>5 DEF MessagesTyped, MessageTyped
<1>10. /\ \E S : books'[i] \in Seq(S)
       /\ Len(books'[i]) = Len(books[i]) + 1 /\ books'[i][Len(books[i]) + 1] = after
       /\ \A s \in 1 .. Len(books[i]) : books'[i][s] = books[i][s]
  <2>1. books'[i] = Append(books[i], after) /\ \E S : books[i] \in Seq(S)
    BY <1>4, <1>5, <1>7 DEF PubTyped
  <2>2. PICK b : b = books[i]
    OBVIOUS
  <2>3. /\ \E S : Append(b, after) \in Seq(S)
        /\ Len(Append(b, after)) = Len(b) + 1 /\ Append(b, after)[Len(b) + 1] = after
        /\ \A s \in 1 .. Len(b) : Append(b, after)[s] = b[s]
    <3>1. \E S : b \in Seq(S)
      BY <2>1, <2>2
    <3> QED
      BY <3>1, Lengthened
  <2> QED
    BY <2>1, <2>2, <2>3
<1>11. now'[i] = after /\ \A j \in Instruments \ {i} : now'[j] = now[j] /\ books'[j] = books[j]
  BY <1>4, <1>5, <1>7 DEF PubTyped
<1>12. Published(NewFrame("mktdata", msgs))
  <2>1. PICK fr : fr = NewFrame("mktdata", msgs)
    OBVIOUS
  <2>2. fr.era = feedEra /\ fr.seq = sent["mktdata"] /\ fr.msgs = msgs
    BY <2>1 DEF NewFrame
  <2>3. feedEra' = feedEra /\ sent'["mktdata"] = sent["mktdata"] + 1
    BY <1>4, <1>7, PortsAre DEF Put, MboInv, FlowInv, NetInv
  <2>4. \A j : ~Resets(fr, j) /\ (Tells(fr, j) <=> j = i)
    BY <1>1, <1>3, <2>2 DEF Resets, Tells, Says
  <2>5. Number(fr) = Len(books[i])
    BY <1>1, <1>3, <1>6, <2>2 DEF Number
  <2>6. fr.msgs[1].body = body
    BY <1>1, <1>3, <2>2
  <2>7. \A j \in Instruments : Len(books[j]) \in Nat
    BY <1>4, LengthsNat
  <2>8. UNCHANGED <<vars, plan, v, crossed>>
    BY <1>4 DEF PublisherOnly
  <2>9. ASSUME NEW j \in Instruments, j # i
        PROVE  Len(books'[j]) \in Nat /\ Len(books[j]) <= Len(books'[j])
               /\ ~Tells(fr, j) /\ now'[j] = now[j] /\ books'[j] = books[j] /\ ~Resets(fr, j)
    BY <1>11, <2>4, <2>7, <2>9
  <2>10. /\ Len(books'[i]) \in Nat /\ Len(books[i]) <= Len(books'[i]) /\ Tells(fr, i) /\ ~Resets(fr, i)
         /\ now'[i] = books'[i][Len(books[i]) + 1]
         /\ now[i] = books[i][Len(books[i])] =>
              Leads(fr.msgs[1].body, books[i][Len(books[i])], books'[i][Len(books[i]) + 1])
    BY <1>6, <1>10, <1>11, <2>4, <2>6
  <2> QED
    BY <1>8, <1>10, <2>1, <2>2, <2>3, <2>5, <2>8, <2>9, <2>10 DEF Published
<1>13. PubTyped'
  <2>1. plan' = plan /\ feedEra' = feedEra /\ rest' = rest
    BY <1>4, <1>7 DEF PublisherOnly, Put
  <2>2. DOMAIN now' = Instruments /\ DOMAIN books' = Instruments
    BY <1>4, <1>7 DEF PubTyped
  <2>3. ASSUME NEW j \in Instruments, j # i
        PROVE  /\ \E S : books'[j] \in Seq(S)
               /\ Len(books'[j]) \in 1 .. plan.deltas + 1 /\ books'[j][1] = {}
               /\ \A s \in 1 .. Len(books'[j]) : RestTyped(books'[j][s])
               /\ now'[j] \subseteq books'[j][Len(books'[j])] /\ IsFiniteSet(now'[j])
    BY <1>4, <1>11, <2>3 DEF PubTyped
  <2>4. /\ Len(books'[i]) \in 1 .. plan.deltas + 1 /\ books'[i][1] = {}
        /\ \A s \in 1 .. Len(books'[i]) : RestTyped(books'[i][s])
        /\ now'[i] \subseteq books'[i][Len(books'[i])] /\ IsFiniteSet(now'[i])
    <3>0. 1 \in 1 .. Len(books[i])
      BY <1>6
    <3>1. books[i][1] = {} /\ \A s \in 1 .. Len(books[i]) : RestTyped(books[i][s])
      BY <1>4, <1>5 DEF PubTyped
    <3>2. Len(books'[i]) \in 1 .. plan.deltas + 1
          /\ \A s \in 1 .. Len(books'[i]) : s \in 1 .. Len(books[i]) \/ s = Len(books[i]) + 1
      BY <1>5, <1>6, <1>10
    <3> QED
      BY <1>10, <1>11, <3>0, <3>1, <3>2
  <2>5. /\ \A s : RestTyped(s)' <=> RestTyped(s)
        /\ MessagesTyped("snapshot", rest)' <=> MessagesTyped("snapshot", rest)
    BY <2>1 DEF RestTyped, MessagesTyped, MessageTyped, SnapshotTyped
  <2>6. /\ plan \in Plans /\ feedEra \in 0 .. plan.resets
        /\ (\E S : rest \in Seq(S)) /\ MessagesTyped("snapshot", rest)
    BY <1>4 DEF PubTyped
  <2>7. \A j \in Instruments :
          /\ \E S : books'[j] \in Seq(S)
          /\ Len(books'[j]) \in 1 .. plan.deltas + 1 /\ books'[j][1] = {}
          /\ \A s \in 1 .. Len(books'[j]) : RestTyped(books'[j][s])
          /\ now'[j] \subseteq books'[j][Len(books'[j])] /\ IsFiniteSet(now'[j])
    BY <1>10, <2>3, <2>4
  <2> QED
    BY <2>1, <2>2, <2>5, <2>6, <2>7 DEF PubTyped, RestTyped
<1> QED
  BY <1>4, <1>7, <1>9, <1>12, <1>13, MktdataStep

LEMMA RestsIn ==
  ASSUME PubTyped, NEW i \in Instruments
  PROVE  /\ books[i][Len(books[i])] \in ToSet(books[i]) /\ RestTyped(books[i][Len(books[i])])
         /\ now[i] \subseteq books[i][Len(books[i])] /\ RestTyped(now[i]) /\ IsFiniteSet(now[i])
<1>1. Len(books[i]) \in 1 .. Len(books[i])
  BY LengthsNat
<1>2. DOMAIN books[i] = 1 .. Len(books[i])
  <2>1. \E S : books[i] \in Seq(S)
    BY DEF PubTyped
  <2> QED
    BY <2>1, LenProperties
<1>3. books[i][Len(books[i])] \in ToSet(books[i])
  BY <1>1, <1>2 DEF ToSet
<1>4. RestTyped(books[i][Len(books[i])]) /\ now[i] \subseteq books[i][Len(books[i])] /\ IsFiniteSet(now[i])
  BY <1>1 DEF PubTyped
<1>5. RestTyped(now[i])
  BY <1>4 DEF RestTyped
<1> QED
  BY <1>3, <1>4, <1>5

LEMMA AddStep ==
  ASSUME MboInv, CountsDiffer, NEW i \in plan.instruments, NEW o \in plan.orders,
         NEW q \in 1 .. MaxLots, NEW h \in Hidings, SendAdd(i, o, q, h)
  PROVE  MboInv'
<1> DEFINE r == [order |-> o, side |-> "bid", left |-> q, hidden |-> h]
           body == [type |-> "add", order |-> o, side |-> "bid", source |-> 1, qty |-> q,
                    hidden |-> h]
           top == books[i][Len(books[i])]
<1>1. PubTyped /\ i \in Instruments /\ o \in OrderIds /\ h \in BOOLEAN /\ MaxLots \in Nat
  BY MboPlansAssumption, FeedAssumption DEF PubTyped, MboInv
<1>2. /\ top \in ToSet(books[i]) /\ RestTyped(top)
      /\ now[i] \subseteq top /\ RestTyped(now[i]) /\ IsFiniteSet(now[i])
  BY <1>1, RestsIn
<1>3. SendDelta(i, body, << >>, now[i] \cup {r})
  BY DEF SendAdd
<1>4. \A s \in top : s.order # o
  BY <1>2 DEF SendAdd
<1>5. BodyTyped(body)
  BY <1>1 DEF BodyTyped
<1>6. RestTyped(now[i] \cup {r})
  <2>1. r \in [order : OrderIds, side : {"bid"}, left : 1 .. MaxLots, hidden : BOOLEAN] /\ r.order = o
    BY <1>1
  <2> HIDE DEF r, top
  <2> QED
    BY <1>2, <1>4, <2>1 DEF RestTyped
<1>7. IsFiniteSet(now[i] \cup {r})
  BY <1>2, FS_AddElement
<1>8. now[i] = top => Leads(body, top, now[i] \cup {r})
  <2>1. body.type = "add" /\ body.order = o /\ body.side = "bid" /\ body.qty = q /\ body.hidden = h
    OBVIOUS
  <2> HIDE DEF body, top
  <2> QED
    BY <1>4, <2>1 DEF Leads
<1>9. (\E S : << >> \in Seq(S)) /\ \A n \in 1 .. Len(<< >>) : << >>[n].type \in {"trade", "batch"}
  <2>1. << >> \in Seq({}) /\ 1 .. Len(<< >>) = {}
    OBVIOUS
  <2> QED
    BY <2>1
<1> HIDE DEF body, r
<1> QED
  BY <1>3, <1>5, <1>6, <1>7, <1>8, <1>9, DeltaStep

LEMMA CancelStep ==
  ASSUME MboInv, CountsDiffer, NEW i \in plan.instruments, NEW r, SendCancel(i, r)
  PROVE  MboInv'
<1> DEFINE body == [type |-> "cancel", order |-> r.order, source |-> 0]
           top == books[i][Len(books[i])]
<1>1. PubTyped /\ i \in Instruments
  BY MboPlansAssumption DEF PubTyped, MboInv
<1>2. now[i] \subseteq top /\ RestTyped(now[i]) /\ IsFiniteSet(now[i])
  BY <1>1, RestsIn
<1>3. SendDelta(i, body, << >>, now[i] \ {r}) /\ r \in now[i]
  BY DEF SendCancel
<1>4. BodyTyped(body)
  BY <1>2, <1>3 DEF BodyTyped, RestTyped
<1>5. RestTyped(now[i] \ {r})
  BY <1>2 DEF RestTyped
<1>6. IsFiniteSet(now[i] \ {r})
  BY <1>2, FS_RemoveElement
<1>7. now[i] = top => Leads(body, top, now[i] \ {r})
  <2>1. body.type = "cancel" /\ body.order = r.order
    OBVIOUS
  <2> HIDE DEF body, top
  <2> QED
    BY <1>3, <2>1 DEF Leads
<1>8. (\E S : << >> \in Seq(S)) /\ \A n \in 1 .. Len(<< >>) : << >>[n].type \in {"trade", "batch"}
  <2>1. << >> \in Seq({}) /\ 1 .. Len(<< >>) = {}
    OBVIOUS
  <2> QED
    BY <2>1
<1> HIDE DEF body
<1> QED
  BY <1>3, <1>4, <1>5, <1>6, <1>7, <1>8, DeltaStep

LEMMA ExecuteStep ==
  ASSUME MboInv, CountsDiffer, NEW i \in plan.instruments, NEW r, SendExecute(i, r)
  PROVE  MboInv'
<1> DEFINE body == [type |-> "execute", order |-> r.order, source |-> 1, aggressor |-> "unknown",
                    qty |-> 1, full |-> r.left = 1, trade |-> r.order]
           riders == << [type |-> "trade", instr |-> i, body |-> [type |-> "trade", trade |-> r.order]],
                        [type |-> "batch", id |-> sent["mktdata"]] >>
           kept == IF r.left = 1 THEN {} ELSE {[r EXCEPT !.left = @ - 1]}
           top == books[i][Len(books[i])]
<1>1. PubTyped /\ i \in Instruments /\ MaxLots \in Nat
  BY MboPlansAssumption, FeedAssumption DEF PubTyped, MboInv
<1>2. now[i] \subseteq top /\ RestTyped(now[i]) /\ IsFiniteSet(now[i])
  BY <1>1, RestsIn
<1>3. SendDelta(i, body, riders, (now[i] \ {r}) \cup kept) /\ r \in now[i]
  BY DEF SendExecute
<1>4. BodyTyped(body)
  BY <1>2, <1>3 DEF BodyTyped, RestTyped
<1>5. \A s \in kept : /\ s \in [order : OrderIds, side : {"bid"}, left : 1 .. MaxLots, hidden : BOOLEAN]
                      /\ s.order = r.order
  <2>1. r \in [order : OrderIds, side : {"bid"}, left : 1 .. MaxLots, hidden : BOOLEAN]
    BY <1>2, <1>3 DEF RestTyped
  <2>2. r.left # 1 => r.left - 1 \in 1 .. MaxLots
    BY <1>1, <2>1
  <2>3. \A k \in 1 .. MaxLots :
          /\ [r EXCEPT !.left = k] \in [order : OrderIds, side : {"bid"}, left : 1 .. MaxLots, hidden : BOOLEAN]
          /\ [r EXCEPT !.left = k].order = r.order
    BY <2>1
  <2> QED
    BY <2>2, <2>3
<1>6. \A s, t \in kept : s = t
  OBVIOUS
<1>7. RestTyped((now[i] \ {r}) \cup kept)
  <2> HIDE DEF kept, top
  <2>1. \A s \in now[i] \ {r} : s.order # r.order
    BY <1>2, <1>3 DEF RestTyped
  <2> QED
    BY <1>2, <1>5, <1>6, <2>1 DEF RestTyped
<1>8. IsFiniteSet((now[i] \ {r}) \cup kept)
  <2>1. IsFiniteSet(now[i] \ {r})
    BY <1>2, FS_RemoveElement
  <2>2. IsFiniteSet(kept)
    BY FS_EmptySet, FS_Singleton
  <2> HIDE DEF kept
  <2> QED
    BY <2>1, <2>2, FS_Union
<1>9. now[i] = top => Leads(body, top, (now[i] \ {r}) \cup kept)
  <2>1. body.type = "execute" /\ body.order = r.order /\ body.qty = 1 /\ (body.full <=> r.left = 1)
    OBVIOUS
  <2> HIDE DEF body, top
  <2> QED
    BY <1>3, <2>1 DEF Leads
<1>10. (\E S : riders \in Seq(S)) /\ \A n \in 1 .. Len(riders) : riders[n].type \in {"trade", "batch"}
  <2> DEFINE a == [type |-> "trade", instr |-> i, body |-> [type |-> "trade", trade |-> r.order]]
             b == [type |-> "batch", id |-> sent["mktdata"]]
  <2>1. riders = <<a, b>> /\ a.type = "trade" /\ b.type = "batch"
    OBVIOUS
  <2> HIDE DEF a, b
  <2>2. <<a, b>> \in Seq({a, b}) /\ Len(<<a, b>>) = 2 /\ <<a, b>>[1] = a /\ <<a, b>>[2] = b
    OBVIOUS
  <2>3. riders \in Seq({a, b}) /\ Len(riders) = 2 /\ riders[1] = a /\ riders[2] = b
    BY <2>1, <2>2
  <2> HIDE DEF riders
  <2>4. \A n \in 1 .. 2 : riders[n].type \in {"trade", "batch"}
    <3>1. \A n \in 1 .. 2 : n = 1 \/ n = 2
      OBVIOUS
    <3> QED
      BY <2>1, <2>3, <3>1
  <2> QED
    BY <2>3, <2>4
<1> HIDE DEF body, riders, kept
<1> QED
  BY <1>3, <1>4, <1>7, <1>8, <1>9, <1>10, DeltaStep

LEMMA HeartbeatStep ==
  ASSUME MboInv, CountsDiffer, Heartbeat
  PROVE  MboInv'
<1>1. PubTyped /\ PublisherOnly /\ Put("mktdata", << >>) /\ now' = now /\ books' = books
      /\ rest' = rest /\ plan' = plan /\ FlowInv
  BY DEF MboInv, Heartbeat, PublisherOnly
<1>2. MessagesTyped("mktdata", << >>)
  BY NoMessages
<1>3. PubTyped'
  BY <1>1 DEF PubTyped, Put, RestTyped, MessagesTyped, MessageTyped, SnapshotTyped
<1>4. PICK fr : fr = NewFrame("mktdata", << >>)
  OBVIOUS
<1>5. fr.era = feedEra /\ fr.seq = sent["mktdata"] /\ fr.msgs = << >>
  BY <1>4 DEF NewFrame
<1>6. Len(fr.msgs) = 0
  BY <1>5
<1>7. \A i : ~Tells(fr, i) /\ ~Resets(fr, i)
  BY <1>6 DEF Tells, Resets, Says
<1>8. Riding(fr.msgs)
  BY <1>6 DEF Riding
<1>9. feedEra' = feedEra /\ sent'["mktdata"] = sent["mktdata"] + 1
  BY <1>1, PortsAre DEF Put, FlowInv, NetInv
<1>10. \A i \in Instruments : Len(books[i]) \in Nat
  BY <1>1, LengthsNat
<1>11. Published(fr)
  BY <1>1, <1>5, <1>7, <1>8, <1>9, <1>10 DEF Published, PublisherOnly
<1> QED
  BY <1>1, <1>2, <1>3, <1>4, <1>11, MktdataStep

LEMMA InstrumentResetStep ==
  ASSUME MboInv, CountsDiffer, NEW i \in plan.instruments, NEW r, SendInstrumentReset(i, r)
  PROVE  MboInv'
<1> DEFINE m == [type |-> "reset", instr |-> i, anchor |-> sent["mktdata"]]
<1>1. /\ PubTyped /\ PublisherOnly /\ Put("mktdata", <<m>>) /\ r \in now[i] /\ FlowInv
      /\ now' = [now EXCEPT ![i] = now[i] \ {r}] /\ books' = books /\ rest' = rest /\ plan' = plan
      /\ plan.correcting # "never"
  BY DEF MboInv, SendInstrumentReset, PublisherOnly
<1>2. i \in Instruments
  BY <1>1, MboPlansAssumption DEF PubTyped
<1>3. /\ m.type = "reset" /\ m.instr = i
      /\ Len(<<m>>) = 1 /\ <<m>>[1] = m
  OBVIOUS
<1> HIDE DEF m
<1>4. MessagesTyped("mktdata", <<m>>)
  <2>1. MessageTyped("mktdata", m)
    BY <1>2, <1>3 DEF MessageTyped, MktdataTyped
  <2> QED
    BY <2>1, OneMessage
<1>5. now'[i] = now[i] \ {r} /\ \A j \in Instruments \ {i} : now'[j] = now[j]
  BY <1>1, <1>2 DEF PubTyped
<1>6. PubTyped'
  <2>1. \A j \in Instruments : now'[j] \subseteq books[j][Len(books[j])] /\ IsFiniteSet(now'[j])
    <3>1. \A j \in Instruments : now[j] \subseteq books[j][Len(books[j])] /\ IsFiniteSet(now[j])
      BY <1>1, RestsIn
    <3>2. IsFiniteSet(now[i] \ {r})
      BY <1>2, <3>1, FS_RemoveElement
    <3> QED
      BY <1>5, <3>1, <3>2
  <2>2. DOMAIN now' = Instruments /\ feedEra' = feedEra
    BY <1>1 DEF PubTyped, Put
  <2>3. /\ MessagesTyped("snapshot", rest)' <=> MessagesTyped("snapshot", rest)
        /\ \A s : RestTyped(s)' <=> RestTyped(s)
    BY <1>1 DEF RestTyped, MessagesTyped, MessageTyped, SnapshotTyped
  <2>4. \A j \in Instruments :
          /\ \E S : books[j] \in Seq(S)
          /\ Len(books[j]) \in 1 .. plan.deltas + 1 /\ books[j][1] = {}
          /\ \A s \in 1 .. Len(books[j]) : RestTyped(books[j][s])
          /\ now'[j] \subseteq books[j][Len(books[j])] /\ IsFiniteSet(now'[j])
    BY <1>1, <2>1 DEF PubTyped
  <2>5. /\ plan \in Plans /\ feedEra \in 0 .. plan.resets /\ DOMAIN books = Instruments
        /\ (\E S : rest \in Seq(S)) /\ MessagesTyped("snapshot", rest)
    BY <1>1 DEF PubTyped
  <2>6. \A j \in Instruments :
          /\ \E S : books'[j] \in Seq(S)
          /\ Len(books'[j]) \in 1 .. plan'.deltas + 1 /\ books'[j][1] = {}
          /\ now'[j] \subseteq books'[j][Len(books'[j])] /\ IsFiniteSet(now'[j])
    BY <1>1, <2>4
  <2>7. \A j \in Instruments : \A s \in 1 .. Len(books'[j]) : RestTyped(books'[j][s])
    BY <1>1, <2>4
  <2>8. \A j \in Instruments : (\A s \in 1 .. Len(books[j]) : RestTyped(books[j][s]))'
    BY <2>7 DEF RestTyped
  <2>9. /\ plan' \in Plans /\ feedEra' \in 0 .. plan'.resets
        /\ DOMAIN now' = Instruments /\ DOMAIN books' = Instruments
        /\ (\E S : rest' \in Seq(S)) /\ MessagesTyped("snapshot", rest)'
    BY <1>1, <2>2, <2>3, <2>5
  <2> QED
    BY <2>6, <2>9, <2>8 DEF PubTyped
<1>7. PICK fr : fr = NewFrame("mktdata", <<m>>)
  OBVIOUS
<1>8. fr.era = feedEra /\ fr.seq = sent["mktdata"] /\ fr.msgs = <<m>>
  BY <1>7 DEF NewFrame
<1>9. \A j : ~Tells(fr, j) /\ (Resets(fr, j) <=> j = i)
  BY <1>3, <1>8 DEF Tells, Resets, Says
<1>10. Riding(fr.msgs)
  BY <1>3, <1>8 DEF Riding
<1>11. feedEra' = feedEra /\ sent'["mktdata"] = sent["mktdata"] + 1
  BY <1>1, PortsAre DEF Put, FlowInv, NetInv
<1>12. \A j \in Instruments : Len(books[j]) \in Nat
  BY <1>1, LengthsNat
<1>13. SeqNow(i) >= 1
  <2>1. SeqNow(i) \in Nat /\ SeqNow(i) + 1 = Len(books[i])
    BY <1>1, <1>2, LengthsNat
  <2>2. books[i][1] = {} /\ r \in books[i][Len(books[i])]
    BY <1>1, <1>2, RestsIn DEF PubTyped
  <2>3. Len(books[i]) # 1
    BY <2>2
  <2>4. SeqNow(i) # 0
    <3>1. SeqNow(i) = 0 => SeqNow(i) + 1 = 1
      OBVIOUS
    <3> QED
      BY <2>1, <2>3, <3>1
  <2> QED
    BY <2>1, <2>4
<1>14. Published(fr)
  <2>1. UNCHANGED <<vars, plan, v, crossed>>
    BY <1>1 DEF PublisherOnly
  <2>2. \A j \in Instruments : ~Resets(fr, j) => now'[j] = now[j]
    BY <1>5, <1>9
  <2>3. \A j \in Instruments : Resets(fr, j) => plan.correcting # "never" /\ SeqNow(j) >= 1
    BY <1>1, <1>9, <1>13
  <2> QED
    BY <1>1, <1>8, <1>9, <1>10, <1>11, <1>12, <2>1, <2>2, <2>3 DEF Published
<1> QED
  BY <1>1, <1>4, <1>6, <1>7, <1>14, MktdataStep

LEMMA GroupStep ==
  ASSUME MboInv, CountsDiffer, NEW i \in plan.instruments, SendGroup(i)
  PROVE  MboInv'
<1> DEFINE msgs == IF plan.packed THEN Group(i) ELSE <<Head(Group(i))>>
           left == IF plan.packed THEN << >> ELSE Tail(Group(i))
<1>1. /\ PubTyped /\ PublisherOnly /\ Put("snapshot", msgs) /\ rest' = left
      /\ UNCHANGED <<now, books>>
  BY DEF MboInv, SendGroup
<1>2. i \in Instruments
  BY <1>1, MboPlansAssumption DEF PubTyped
<1>3. /\ MessagesTyped("snapshot", Group(i)) /\ Group(i) # << >>
      /\ \E S : Group(i) \in Seq(S)
  BY <1>1, <1>2, GroupTyped
<1>4. /\ MessagesTyped("snapshot", <<Head(Group(i))>>) /\ MessagesTyped("snapshot", Tail(Group(i)))
      /\ \E S : Tail(Group(i)) \in Seq(S)
  BY <1>3, Split
<1>5. MessagesTyped("snapshot", << >>) /\ \E S : << >> \in Seq(S)
  <2>1. << >> \in Seq({})
    OBVIOUS
  <2> QED
    BY <2>1, NoMessages
<1>6. MessagesTyped("snapshot", msgs) /\ MessagesTyped("snapshot", left) /\ \E S : left \in Seq(S)
  BY <1>3, <1>4, <1>5
<1> HIDE DEF msgs
<1>7. PubTyped'
  <2>1. PICK l : l = left
    OBVIOUS
  <2>2. rest' = l /\ MessagesTyped("snapshot", l) /\ \E S : l \in Seq(S)
    BY <1>1, <1>6, <2>1
  <2> HIDE DEF left
  <2>3. plan' = plan /\ feedEra' = feedEra /\ now' = now /\ books' = books
    BY <1>1 DEF PublisherOnly, Put
  <2>4. PubTyped
    BY <1>1
  <2> QED
    BY <2>2, <2>3, <2>4 DEF PubTyped, RestTyped, MessagesTyped, MessageTyped, SnapshotTyped
<1> QED
  BY <1>1, <1>6, <1>7, SnapshotStep

LEMMA RestStep ==
  ASSUME MboInv, CountsDiffer, SendRest
  PROVE  MboInv'
<1>1. /\ PubTyped /\ PublisherOnly /\ Put("snapshot", <<Head(rest)>>) /\ rest' = Tail(rest)
      /\ UNCHANGED <<now, books>> /\ rest # << >>
  BY DEF MboInv, SendRest
<1>2. (\E S : rest \in Seq(S)) /\ MessagesTyped("snapshot", rest)
  BY <1>1 DEF PubTyped
<1>3. /\ MessagesTyped("snapshot", <<Head(rest)>>) /\ MessagesTyped("snapshot", Tail(rest))
      /\ \E S : Tail(rest) \in Seq(S)
  BY <1>1, <1>2, Split
<1>4. PubTyped'
  <2>1. PICK l : l = Tail(rest)
    OBVIOUS
  <2>2. rest' = l /\ MessagesTyped("snapshot", l) /\ \E S : l \in Seq(S)
    BY <1>1, <1>3, <2>1
  <2>3. plan' = plan /\ feedEra' = feedEra
    BY <1>1 DEF PublisherOnly, Put
  <2> QED
    BY <1>1, <2>2, <2>3 DEF PubTyped, RestTyped, MessagesTyped, MessageTyped, SnapshotTyped
<1> QED
  BY <1>1, <1>3, <1>4, SnapshotStep

LEMMA NoRcIsNil ==
  ASSUME PubTyped, NEW e \in 0 .. plan.resets
  PROVE  ResetCountOf(e) # Nil /\ ResetCountOf(e) \in Nat
<1>1. ResetCountOf(e) \in Nat
  BY CountsAssumption DEF PubTyped
<1> QED
  BY <1>1 DEF Nil

LEMMA ChannelResetStep ==
  ASSUME MboInv, CountsDiffer, ChannelReset
  PROVE  MboInv'
<1>1. PICK D : D = Pending("mktdata")
  OBVIOUS
<1>2. /\ v' = v /\ plan' = plan /\ crossed' = crossed /\ running' = running /\ pt' = pt
      /\ UNCHANGED <<vars, net>> /\ feedEra < plan.resets /\ feedEra' = feedEra + 1
      /\ sent' = [p \in Ports |-> 0]
      /\ now' = [i \in Instruments |-> {}] /\ books' = [i \in Instruments |-> <<{}>>]
      /\ rest' = << >>
  BY DEF ChannelReset, PublisherOnly, NextEra, FreshEra, vars
<1>3. PubTyped /\ FlowInv /\ Sayings(D) /\ StateTyped(v)
  BY <1>1 DEF MboInv, ChannelReset, PublisherOnly
<1>4. feedEra \in Nat /\ plan.resets \in Nat /\ plan.deltas \in Nat
  BY <1>3, CountsNat
<1>5. FlowInv' /\ Pending("mktdata")' = D
  <2>1. Onward /\ sent' \in [Ports -> Nat]
    BY <1>2 DEF Onward
  <2> QED
    BY <1>1, <1>2, <1>3, <2>1, NothingSent
<1>6. PubTyped'
  <2>1. << {} >> \in Seq({{}}) /\ Len(<< {} >>) = 1 /\ << {} >>[1] = {}
    OBVIOUS
  <2>2. plan \in Plans /\ feedEra + 1 \in 0 .. plan.resets /\ 1 \in 1 .. plan.deltas + 1
    BY <1>2, <1>3, <1>4 DEF PubTyped
  <2>3. RestTyped({})' /\ IsFiniteSet({}) /\ \A s \in 1 .. 1 : s = 1
    BY FS_EmptySet DEF RestTyped
  <2>4. MessagesTyped("snapshot", << >>)' /\ << >> \in Seq({})
    BY NoMessages DEF MessagesTyped, MessageTyped, SnapshotTyped
  <2>5. \A i \in Instruments :
          /\ \E S : books'[i] \in Seq(S)
          /\ Len(books'[i]) \in 1 .. plan.deltas + 1 /\ books'[i][1] = {}
          /\ Len(books'[i]) = 1
          /\ now'[i] \subseteq books'[i][Len(books'[i])] /\ IsFiniteSet(now'[i])
    <3> SUFFICES ASSUME NEW i \in Instruments
                 PROVE  /\ \E S : books'[i] \in Seq(S)
                        /\ Len(books'[i]) \in 1 .. plan.deltas + 1 /\ books'[i][1] = {}
                        /\ Len(books'[i]) = 1
                        /\ now'[i] \subseteq books'[i][Len(books'[i])] /\ IsFiniteSet(now'[i])
      OBVIOUS
    <3>1. books'[i] = << {} >> /\ now'[i] = {}
      BY <1>2
    <3> QED
      BY <2>1, <2>2, <2>3, <3>1
  <2>6. \A i \in Instruments : \A s \in 1 .. Len(books'[i]) : RestTyped(books'[i][s])
    <3>1. RestTyped({})
      BY DEF RestTyped
    <3> QED
      BY <2>3, <2>5, <3>1
  <2>7. DOMAIN now' = Instruments /\ DOMAIN books' = Instruments
    BY <1>2
  <2> QED
    BY <1>2, <2>2, <2>4, <2>5, <2>6, <2>7 DEF PubTyped, RestTyped
<1>7. \A x \in D : x.era \in 0 .. feedEra
  BY <1>1, <1>3, PendingSent, PortsAre
<1>8. \A x \in D : \A i : ~Tells(x, i)' /\ ~Resets(x, i)'
  BY <1>2, <1>4, <1>7 DEF Tells, Resets
<1>9. Sayings(Pending("mktdata"))'
  <2>1. \A x \in D : Riding(x.msgs)
    BY <1>3 DEF Sayings
  <2> QED
    BY <1>5, <1>8, <2>1 DEF Sayings
<1>10. Followed(plan)' /\ crossed' \subseteq {"overlap"} => Truth'
  <2> SUFFICES ASSUME Followed(plan), crossed \subseteq {"overlap"} PROVE Truth'
    BY <1>2 DEF Followed
  <2>1. /\ v.resetEra = Nil \/ \E e \in 0 .. feedEra : v.resetEra = ResetCountOf(e)
        /\ \A i \in Instruments : TrueBook(v, D, i)
    BY <1>1 DEF MboInv, Truth, TruthOn
  <2>2. ~In(v)'
    <3>1. v.resetEra # ResetCountOf(feedEra + 1)
      <4>1. feedEra + 1 \in 0 .. plan.resets
        BY <1>2, <1>4
      <4> QED
        BY <1>2, <1>3, <2>1, <4>1, NewCount, NoRcIsNil
    <3> QED
      BY <1>2, <1>4, <3>1 DEF In
  <2>3. \A i \in Instruments : TrueBook(v, D, i)'
    BY <1>2, <2>1, <2>2 DEF TrueBook, Blank, Live
  <2>4. \A i \in Instruments : TrueDeltas(v, D, i)' /\ TrueNow(v, D, i)'
    <3>1. \A i \in Instruments : now'[i] = books'[i][Len(books'[i])]
      BY <1>2
    <3> QED
      BY <1>8, <3>1 DEF TrueDeltas, TrueNow
  <2>5. v'.resetEra = Nil \/ \E e \in 0 .. feedEra' : v'.resetEra = ResetCountOf(e)
    <3>1. 0 .. feedEra \subseteq 0 .. feedEra + 1
      BY <1>4
    <3> QED
      BY <1>2, <2>1, <3>1
  <2>6. TruthOn(v, D)'
    BY <2>2, <2>3, <2>4, <2>5 DEF TruthOn
  <2>7. TruthOn(v, Pending("mktdata"))'
    BY <1>5, <2>6
  <2> QED
    BY <2>2, <2>7 DEF Truth
<1>11. StateTyped(v)'
  BY <1>2, <1>3, SameState
<1> QED
  BY <1>2, <1>5, <1>6, <1>9, <1>10, <1>11 DEF MboInv

-----------------------------------------------------------------------------
(* The first frame of mktdata that is not classified is read.              *)
LEMMA MirrorLed ==
  ASSUME NEW bk, BookTyped(bk), NEW m, BodyTyped(m), NEW S, RestTyped(S), NEW T, RestTyped(T),
         Mirror(bk, S), Leads(m, S, T)
  PROVE  Mirror(OnOrderMessage(bk, m).book, T)
<1>1. PICK b : b = OnOrderMessage(bk, m).book
  OBVIOUS
<1>2. TookEffect(b, bk, m)
  BY <1>1, OrderMessageDoes
<1> DEFINE o == m.order
<1>3. /\ o \in OrderIds
      /\ \A p \in OrderIds \ {o} : b.live[p] = bk.live[p]
      /\ b.live[o] = IF m.type = "add" \/ Live(bk, o) THEN Outcome(bk, m) ELSE bk.live[o]
  BY <1>2 DEF TookEffect, BodyTyped
<1>4. \A r \in S \cup T : r.order \in OrderIds /\ r.left \in 1 .. MaxLots /\ r.hidden \in BOOLEAN
  BY DEF RestTyped
<1>5. /\ \A r \in S : ~r.hidden => Live(bk, r.order) /\ bk.live[r.order].left = r.left
      /\ \A p \in OrderIds : Live(bk, p) => \E r \in S : r.order = p /\ ~r.hidden
  BY DEF Mirror
<1>6. \A p \in OrderIds \ {o} : Live(b, p) <=> Live(bk, p)
  BY <1>3 DEF Live
<1>7. \A x : x.left # 0 => x # NoOrder
  BY DEF NoOrder
<1>8. CASE m.type = "add"
  <2>1. PICK n : /\ n = [order |-> m.order, side |-> m.side, left |-> m.qty, hidden |-> m.hidden]
                 /\ T = S \cup {n}
    BY <1>8 DEF Leads
  <2>2. n.order = o /\ n.left = m.qty /\ n.hidden = m.hidden
    BY <2>1
  <2>3. \A r \in S : r.order # o
    BY <1>8 DEF Leads
  <2>4. ~Live(bk, o)
    BY <1>3, <1>5, <2>3
  <2>5. b.live[o] = IF m.hidden THEN bk.live[o]
                                ELSE [side |-> m.side, source |-> m.source, left |-> m.qty]
    BY <1>3, <1>8 DEF Outcome
  <2>6. ~n.hidden => b.live[o].left = n.left /\ n.left # 0
    BY <1>4, <2>1, <2>2, <2>5
  <2>7. ~n.hidden => Live(b, o) /\ b.live[o].left = n.left
    BY <1>7, <2>6 DEF Live
  <2>8. n.hidden => ~Live(b, o)
    BY <2>2, <2>4, <2>5 DEF Live
  <2>9. \A r \in T : ~r.hidden => Live(b, r.order) /\ b.live[r.order].left = r.left
    BY <1>3, <1>4, <1>5, <1>6, <2>1, <2>2, <2>3, <2>7
  <2>10. \A p \in OrderIds : Live(b, p) => \E r \in T : r.order = p /\ ~r.hidden
    <3>1. SUFFICES ASSUME NEW p \in OrderIds, Live(b, p) PROVE \E r \in T : r.order = p /\ ~r.hidden
      OBVIOUS
    <3>2. CASE p = o
      BY <1>4, <2>1, <2>2, <2>8, <3>1, <3>2
    <3>3. CASE p # o
      BY <1>5, <1>6, <2>1, <3>1, <3>3
    <3> QED
      BY <3>2, <3>3
  <2> QED
    BY <1>1, <2>9, <2>10 DEF Mirror
<1>9. CASE m.type = "cancel"
  <2>1. PICK r \in S : r.order = o /\ T = S \ {r}
    BY <1>9 DEF Leads
  <2>2. ~Live(b, o)
    BY <1>3, <1>9 DEF Outcome, Removes, Live
  <2>3. \A s \in T : s \in S /\ s.order # o
    BY <2>1 DEF RestTyped
  <2>4. \A s \in T : ~s.hidden => Live(b, s.order) /\ b.live[s.order].left = s.left
    BY <1>3, <1>4, <1>5, <1>6, <2>3
  <2>5. \A p \in OrderIds : Live(b, p) => \E s \in T : s.order = p /\ ~s.hidden
    <3>1. SUFFICES ASSUME NEW p \in OrderIds, Live(b, p) PROVE \E s \in T : s.order = p /\ ~s.hidden
      OBVIOUS
    <3>2. p # o /\ Live(bk, p)
      BY <1>6, <2>2, <3>1
    <3> QED
      BY <1>5, <2>1, <3>2
  <2> QED
    BY <1>1, <2>4, <2>5 DEF Mirror
<1>10. CASE m.type = "execute"
  <2>1. PICK r \in S : /\ r.order = o /\ m.qty = 1 /\ (m.full <=> r.left = 1)
                       /\ T = (S \ {r}) \cup IF r.left = 1 THEN {} ELSE {[r EXCEPT !.left = @ - 1]}
    BY <1>10 DEF Leads
  <2>2. r.left \in 1 .. MaxLots /\ r.hidden \in BOOLEAN
        /\ DOMAIN r = {"order", "side", "left", "hidden"}
    BY DEF RestTyped
  <2>3. PICK n : n = [r EXCEPT !.left = @ - 1]
    OBVIOUS
  <2>4. n.order = o /\ n.left = r.left - 1 /\ n.hidden = r.hidden
    BY <2>1, <2>2, <2>3
  <2>5. \A s \in S \ {r} : s.order # o
    BY <2>1 DEF RestTyped
  <2>6. T = (S \ {r}) \cup IF r.left = 1 THEN {} ELSE {n}
    BY <2>1, <2>3
  <2>7. r.hidden => ~Live(b, o)
    <3>1. r.hidden => ~Live(bk, o)
      BY <1>3, <1>5, <2>5
    <3> QED
      BY <1>3, <1>10, <3>1 DEF Live
  <2>8. ~r.hidden => IF r.left = 1 THEN ~Live(b, o) ELSE Live(b, o) /\ b.live[o].left = n.left
    <3>1. SUFFICES ASSUME ~r.hidden
                   PROVE  IF r.left = 1 THEN ~Live(b, o) ELSE Live(b, o) /\ b.live[o].left = n.left
      OBVIOUS
    <3>2. Live(bk, o) /\ bk.live[o].left = r.left /\ "left" \in DOMAIN bk.live[o]
      BY <1>3, <1>5, <2>1, <3>1 DEF BookTyped, OrderFields
    <3>3. b.live[o] = Outcome(bk, m)
      BY <1>3, <3>2
    <3>4. Removes(bk, m) <=> r.left = 1
      BY <1>10, <2>1, <2>2, <3>2 DEF Removes, FillsUp
    <3>5. CASE r.left = 1
      BY <1>10, <3>3, <3>4, <3>5 DEF Outcome, Live
    <3>6. CASE r.left # 1
      <4>1. m.qty < bk.live[o].left /\ m.qty = 1
        BY <2>1, <2>2, <3>2, <3>6
      <4>2. b.live[o] = [bk.live[o] EXCEPT !.left = @ - m.qty]
        BY <1>10, <3>3, <3>4, <3>6, <4>1 DEF Outcome
      <4>3. b.live[o].left = r.left - 1
        BY <3>2, <4>1, <4>2
      <4>4. b.live[o].left # 0
        BY <2>2, <3>6, <4>3
      <4> QED
        BY <1>7, <2>4, <3>6, <4>3, <4>4 DEF Live
    <3> QED
      BY <3>5, <3>6
  <2>9. \A s \in T : ~s.hidden => Live(b, s.order) /\ b.live[s.order].left = s.left
    <3>1. \A s \in S \ {r} : ~s.hidden => Live(b, s.order) /\ b.live[s.order].left = s.left
      BY <1>3, <1>4, <1>5, <1>6, <2>5
    <3> QED
      BY <2>4, <2>6, <2>8, <3>1
  <2>10. \A p \in OrderIds : Live(b, p) => \E s \in T : s.order = p /\ ~s.hidden
    <3>1. SUFFICES ASSUME NEW p \in OrderIds, Live(b, p) PROVE \E s \in T : s.order = p /\ ~s.hidden
      OBVIOUS
    <3>2. CASE p = o
      BY <2>4, <2>6, <2>7, <2>8, <3>1, <3>2
    <3>3. CASE p # o
      <4>1. PICK s \in S : s.order = p /\ ~s.hidden
        BY <1>5, <1>6, <3>1, <3>3
      <4> QED
        BY <2>1, <2>6, <3>3, <4>1
    <3> QED
      BY <3>2, <3>3
  <2> QED
    BY <1>1, <2>9, <2>10 DEF Mirror
<1> QED
  BY <1>8, <1>9, <1>10 DEF BodyTyped

(* What a frame does to an instrument. *)
Unaltered(w, u, i) ==
  /\ u.books[i] = w.books[i] /\ u.instr[i].last = w.instr[i].last
  /\ u.instr[i].trusted <=> w.instr[i].trusted

Advanced(w, u, i, m) ==
  LET last == w.instr[i].last
  IN  /\ BodyTyped(m.body) /\ m.seq \in 1 .. plan.deltas
      /\ u.books[i] = OnOrderMessage(w.books[i], m.body).book
      /\ u.instr[i].last = IF m.seq > last THEN m.seq ELSE last
      /\ u.instr[i].trusted => /\ w.instr[i].trusted \/ (last = Nil /\ m.seq = 1)
                               /\ last = Nil \/ ~(m.seq > last + 1)

Emptied(u, i) == u.books[i] = NewBook /\ u.instr[i].last = Nil /\ ~u.instr[i].trusted

Does(w, u, x) ==
  /\ StateTyped(u) /\ u.resetEra = w.resetEra
  /\ \A i \in Instruments :
       \/ ~Says(x, "delta", i) /\ ~Says(x, "reset", i) /\ Unaltered(w, u, i)
       \/ Says(x, "delta", i) /\ ~Says(x, "reset", i) /\ Advanced(w, u, i, x.msgs[1])
       \/ Says(x, "reset", i) /\ ~Says(x, "delta", i) /\ Emptied(u, i)

LEMMA HeadTold ==
  ASSUME NEW x, MessagesTyped("mktdata", x.msgs), Riding(x.msgs),
         NEW w, StateTyped(w), NEW u, NEW g, Told(w, u, x.msgs, g)
  PROVE  Does(w, u, x)
<1>1. PICK z : /\ Kept(w, z)
               /\ Kept(IF Len(x.msgs) = 0 THEN z ELSE OnMktdata(z, x.msgs[1], g), u)
  BY DEF Told
<1>2. StateTyped(u) /\ StateTyped(z)
  BY <1>1 DEF Told, Kept
<1>3. /\ z.resetEra = w.resetEra /\ z.books = w.books
      /\ \A i \in Instruments : /\ z.instr[i].last = w.instr[i].last
                                /\ z.instr[i].trusted <=> w.instr[i].trusted
  BY <1>1 DEF Kept, Same
<1>4. Len(x.msgs) \in Nat
  BY DEF MessagesTyped
<1>5. CASE Len(x.msgs) = 0
  <2>1. Kept(z, u)
    BY <1>1, <1>5
  <2>2. \A i : ~Says(x, "delta", i) /\ ~Says(x, "reset", i)
    BY <1>5 DEF Says
  <2> QED
    BY <1>2, <1>3, <2>1, <2>2 DEF Does, Unaltered, Kept, Same
<1>6. CASE Len(x.msgs) # 0
  <2>1. PICK m : m = x.msgs[1]
    OBVIOUS
  <2>2. PICK y : y = OnMktdata(z, m, g)
    OBVIOUS
  <2>3. Kept(y, u)
    BY <1>1, <1>6, <2>1, <2>2
  <2>4. MktdataTyped(m)
    BY <1>4, <1>6, <2>1 DEF MessagesTyped, MessageTyped
  <2>5. \A i, t : Says(x, t, i) <=> m.type = t /\ m.instr = i
    BY <1>4, <1>6, <2>1 DEF Says
  <2>6. /\ u.resetEra = y.resetEra /\ u.books = y.books
        /\ \A i \in Instruments : /\ u.instr[i].last = y.instr[i].last
                                  /\ u.instr[i].trusted <=> y.instr[i].trusted
    BY <2>3 DEF Kept, Same
  <2>7. CASE m.type \in {"trade", "batch"}
    <3>1. Kept(z, y)
      BY <1>2, <2>2, <2>7, RiderTold
    <3>2. \A i : ~Says(x, "delta", i) /\ ~Says(x, "reset", i)
      BY <2>5, <2>7
    <3>3. u.resetEra = w.resetEra /\ \A i \in Instruments : Unaltered(w, u, i)
      BY <1>3, <2>6, <3>1 DEF Unaltered, Kept, Same
    <3> QED
      BY <1>2, <3>2, <3>3 DEF Does
  <2>8. CASE m.type = "delta"
    <3>1. PICK j \in Instruments : j = m.instr
      BY <2>4, <2>8 DEF MktdataTyped
    <3>2. y = OnDelta(z, m, g)
      BY <2>2, <2>8 DEF OnMktdata
    <3>3. PICK r, b : r = AfterDelta(z.instr[j], m) /\ b = OnOrderMessage(z.books[j], m.body).book
      OBVIOUS
    <3>4. Changed(z, OnDelta(z, m, g), m.instr, AfterDelta(z.instr[m.instr], m),
                 OnOrderMessage(z.books[m.instr], m.body).book)
      BY <1>2, <2>4, <2>8, DeltaTold
    <3>5. Changed(z, y, j, r, b)
      BY <3>1, <3>2, <3>3, <3>4
    <3>6. m.seq \in 1 .. plan.deltas /\ BodyTyped(m.body)
      BY <2>4, <2>8 DEF MktdataTyped
    <3>7. /\ r.last = IF m.seq > z.instr[j].last THEN m.seq ELSE z.instr[j].last
          /\ r.trusted => /\ z.instr[j].trusted \/ (z.instr[j].last = Nil /\ m.seq = 1)
                          /\ z.instr[j].last = Nil \/ ~(m.seq > z.instr[j].last + 1)
      <4>1. InstrTyped(z.instr[j])
        BY <1>2 DEF StateTyped
      <4> QED
        BY <3>3, <3>6, <4>1, AfterDeltaTyped
    <3>8. Advanced(w, u, j, x.msgs[1])
      <4>1. /\ u.books[j] = OnOrderMessage(w.books[j], m.body).book
            /\ u.instr[j].last = r.last /\ (u.instr[j].trusted <=> r.trusted)
        BY <1>3, <2>6, <3>3, <3>5 DEF Changed
      <4> QED
        BY <1>3, <2>1, <3>6, <3>7, <4>1 DEF Advanced
    <3>9. Says(x, "delta", j) /\ \A i : ~Says(x, "reset", i) /\ (Says(x, "delta", i) => i = j)
      BY <2>5, <2>8, <3>1
    <3>10. \A i \in Instruments \ {j} : Unaltered(w, u, i)
      BY <1>3, <2>6, <3>5 DEF Unaltered, Changed
    <3>11. u.resetEra = w.resetEra
      BY <1>3, <2>6, <3>5 DEF Changed
    <3> QED
      BY <1>2, <3>8, <3>9, <3>10, <3>11 DEF Does
  <2>9. CASE m.type = "reset"
    <3>1. PICK j \in Instruments : j = m.instr
      BY <2>4, <2>9 DEF MktdataTyped
    <3>2. y = OnInstrumentReset(z, m)
      BY <2>2, <2>9 DEF OnMktdata
    <3>3. PICK r : Changed(z, y, j, r, NewBook) /\ r.last = Nil /\ ~r.trusted
      BY <1>2, <2>4, <2>9, <3>1, <3>2, ResetTold
    <3>4. Emptied(u, j)
      BY <2>6, <3>3 DEF Emptied, Changed
    <3>5. Says(x, "reset", j) /\ \A i : ~Says(x, "delta", i) /\ (Says(x, "reset", i) => i = j)
      BY <2>5, <2>9, <3>1
    <3>6. \A i \in Instruments \ {j} : Unaltered(w, u, i)
      BY <1>3, <2>6, <3>3 DEF Unaltered, Changed
    <3>7. u.resetEra = w.resetEra
      BY <1>3, <2>6, <3>3 DEF Changed
    <3> QED
      BY <1>2, <3>4, <3>5, <3>6, <3>7 DEF Does
  <2> QED
    BY <2>4, <2>7, <2>8, <2>9 DEF MktdataTyped
<1> QED
  BY <1>5, <1>6

(* The first of what is not classified: what else is of its era is later. *)
Foremost(x, E) == \A y \in E : x.era = y.era => x.seq < y.seq

LEMMA HeadRead ==
  ASSUME PubTyped, NEW E, NEW x, Sayings(E \cup {x}), Foremost(x, E), x.seq \in Nat,
         \A y \in E : y.seq \in Nat,
         NEW w, StateTyped(w), TruthOn(w, E \cup {x}), NEW u, Does(w, u, x)
  PROVE  TruthOn(u, E)
<1> DEFINE D == E \cup {x}
<1>1. /\ x \in D /\ E \subseteq D /\ \A y \in D : y = x \/ y \in E
      /\ Sayings(D) /\ TruthOn(w, D)
  OBVIOUS
<1> HIDE DEF D
<1>2. StateTyped(u) /\ u.resetEra = w.resetEra
  BY DEF Does
<1>3. In(u) <=> In(w)
  BY <1>2 DEF In
<1>4. \A i : (Tells(x, i) <=> x.era = feedEra /\ Says(x, "delta", i))
             /\ (Resets(x, i) <=> x.era = feedEra /\ Says(x, "reset", i))
  BY DEF Tells, Resets
<1>5. In(w) => x.era = feedEra
  BY <1>1 DEF TruthOn
<1>6. \A y \in E : \A i \in Instruments : x.era = feedEra /\ (Tells(y, i) \/ Resets(y, i)) => x.seq < y.seq
  BY DEF Foremost, Tells, Resets
<1>7. ASSUME NEW i \in Instruments
      PROVE  TrueBook(u, E, i) /\ TrueDeltas(u, E, i) /\ TrueNow(u, E, i)
  <2>1. TrueBook(w, D, i) /\ TrueDeltas(w, D, i) /\ TrueNow(w, D, i)
    BY <1>1 DEF TruthOn
  <2>2. PICK in, out : in = w.instr[i] /\ out = u.instr[i]
    OBVIOUS
  <2>3. InstrTyped(in) /\ InstrTyped(out) /\ BookTyped(w.books[i])
    BY <1>2, <2>2 DEF StateTyped
  <2>4. in.last \in Int /\ out.last \in Int /\ (in.trusted => in.last # Nil)
        /\ (out.trusted => out.last # Nil) /\ Nil = -1
        /\ (in.last = Nil \/ in.last >= 1)
    BY <2>3, MboPlansAssumption DEF InstrTyped, Nil, PubTyped
  <2>5. SeqNow(i) \in Nat /\ SeqNow(i) + 1 = Len(books[i])
    BY LengthsNat
  <2>6. /\ in.last = Nil => Blank(w.books[i])
        /\ In(w) => in.last <= SeqNow(i) /\ \A y \in D : Tells(y, i) => in.last < Number(y)
        /\ In(w) /\ in.trusted =>
             in.last \in 1 .. SeqNow(i) /\ Mirror(w.books[i], books[i][in.last + 1])
    BY <2>1, <2>2 DEF TrueBook
  <2>7. \A y \in D : Tells(y, i) => Number(y) \in 1 .. SeqNow(i)
    BY <1>1 DEF Sayings
  <2>8. \/ ~Says(x, "delta", i) /\ ~Says(x, "reset", i) /\ Unaltered(w, u, i)
        \/ Says(x, "delta", i) /\ ~Says(x, "reset", i) /\ Advanced(w, u, i, x.msgs[1])
        \/ Says(x, "reset", i) /\ ~Says(x, "delta", i) /\ Emptied(u, i)
    BY DEF Does
  (* What cut instrument i off before still does. *)
  <2>9. ASSUME NEW q, Cut(w, D, i, q), Lossless
        PROVE  Cut(u, E, i, q)
    <3>1. CASE Says(x, "reset", i)
      <4>1. CASE x.era = feedEra
        <5>1. Resets(x, i)
          BY <1>4, <3>1, <4>1
        <5>2. \A y \in E : Tells(y, i) => Number(y) # 1
          BY <1>1, <1>6, <4>1, <5>1 DEF Sayings
        <5>3. ~out.trusted
          BY <2>2, <2>8, <3>1 DEF Emptied
        <5> QED
          BY <2>2, <5>2, <5>3 DEF Cut
      <4>2. CASE x.era # feedEra
        <5>1. ~Resets(x, i) /\ ~In(u)
          BY <1>3, <1>4, <1>5, <4>2
        <5> QED
          BY <1>1, <2>9, <5>1 DEF Cut
      <4> QED
        BY <4>1, <4>2
    <3>2. CASE ~Says(x, "reset", i)
      <4>1. ~Resets(x, i)
        BY <1>4, <3>2
      <4>2. CASE \E y \in D : Resets(y, i) /\ y.seq < q
        BY <1>1, <4>1, <4>2 DEF Cut
      <4>3. CASE ~\E y \in D : Resets(y, i) /\ y.seq < q
        <5>1. (\A y \in D : Tells(y, i) => Number(y) # 1) /\ (In(w) => ~in.trusted)
          BY <2>2, <2>9, <4>3 DEF Cut
        <5>2. In(u) => ~out.trusted
          <6>1. CASE Unaltered(w, u, i)
            BY <1>3, <2>2, <5>1, <6>1 DEF Unaltered
          <6>2. CASE Says(x, "delta", i) /\ Advanced(w, u, i, x.msgs[1])
            <7>1. In(u) => Number(x) # 1
              BY <1>1, <1>3, <1>4, <1>5, <5>1, <6>2
            <7> QED
              BY <1>3, <2>2, <5>1, <6>2, <7>1 DEF Advanced, Number
          <6> QED
            BY <2>8, <3>2, <6>1, <6>2
        <5> QED
          BY <1>1, <2>2, <5>1, <5>2 DEF Cut
      <4> QED
        BY <4>2, <4>3
    <3> QED
      BY <3>1, <3>2
  <2>10. TrueDeltas(u, E, i)
    BY <1>1, <2>1, <2>9 DEF TrueDeltas
  <2>11. TrueNow(u, E, i)
    BY <2>1, <2>9 DEF TrueNow
  <2>12. TrueBook(u, E, i)
    <3>1. CASE Unaltered(w, u, i)
      BY <1>1, <1>3, <2>2, <2>6, <3>1 DEF Unaltered, TrueBook
    <3>2. CASE Emptied(u, i)
      <4>1. Blank(u.books[i]) /\ out.last = -1 /\ ~out.trusted
        BY <2>2, <2>4, <3>2, NewBookTyped DEF Emptied, Blank
      <4>2. -1 <= SeqNow(i) /\ \A y \in E : Tells(y, i) => -1 < Number(y)
        BY <1>1, <2>5, <2>7
      <4> QED
        BY <2>2, <4>1, <4>2 DEF TrueBook
    <3>3. CASE Says(x, "delta", i) /\ Advanced(w, u, i, x.msgs[1])
      <4>1. PICK m : m = x.msgs[1]
        OBVIOUS
      <4>2. /\ BodyTyped(m.body) /\ m.seq \in 1 .. plan.deltas /\ Number(x) = m.seq
            /\ u.books[i] = OnOrderMessage(w.books[i], m.body).book
            /\ out.last = IF m.seq > in.last THEN m.seq ELSE in.last
            /\ out.trusted => /\ in.trusted \/ (in.last = Nil /\ m.seq = 1)
                              /\ in.last = Nil \/ ~(m.seq > in.last + 1)
        BY <2>2, <3>3, <4>1 DEF Advanced, Number
      <4>3. out.last # Nil
        BY <2>4, <4>2
      <4>4. In(u) => /\ Tells(x, i) /\ m.seq \in 1 .. SeqNow(i) /\ in.last < m.seq /\ out.last = m.seq
        BY <1>1, <1>3, <1>4, <1>5, <2>4, <2>6, <2>7, <3>3, <4>2
      <4>5. In(u) => out.last <= SeqNow(i) /\ \A y \in E : Tells(y, i) => out.last < Number(y)
        <5>1. In(u) => \A y \in E : Tells(y, i) => Number(x) < Number(y)
          BY <1>1, <1>3, <1>5, <1>6, <4>4 DEF Sayings
        <5> QED
          BY <4>2, <4>4, <5>1
      <4>6. ASSUME In(u), out.trusted
            PROVE  out.last \in 1 .. SeqNow(i) /\ Mirror(u.books[i], books[i][out.last + 1])
        <5>1. /\ Tells(x, i) /\ m.seq \in 1 .. SeqNow(i) /\ in.last < m.seq /\ out.last = m.seq
              /\ In(w) /\ x.era = feedEra
          BY <1>3, <1>5, <4>4, <4>6
        <5>2. Leads(m.body, books[i][m.seq], books[i][m.seq + 1])
          <6>1. ~Cut(w, D, i, x.seq)
            <7>1. \A y \in D : ~(Resets(y, i) /\ y.seq < x.seq)
              <8> SUFFICES ASSUME NEW y \in D, Resets(y, i), y.seq < x.seq PROVE FALSE
                OBVIOUS
              <8>1. CASE y \in E
                <9>1. x.seq < y.seq /\ x.seq \in Nat /\ y.seq \in Nat
                  BY <1>6, <5>1, <8>1
                <9> QED
                  BY <9>1
              <8>2. CASE y = x
                BY <8>2
              <8> QED
                BY <1>1, <8>1, <8>2
            <7>2. ~((\A y \in D : Tells(y, i) => Number(y) # 1) /\ (In(w) => ~in.trusted))
              BY <1>1, <4>2, <4>6, <5>1
            <7> QED
              BY <2>2, <7>1, <7>2 DEF Cut
          <6> QED
            BY <1>1, <2>1, <4>1, <4>2, <5>1, <6>1 DEF TrueDeltas
        <5>3. /\ m.seq \in 1 .. Len(books[i]) /\ m.seq + 1 \in 1 .. Len(books[i])
          BY <2>5, <5>1
        <5>4. RestTyped(books[i][m.seq]) /\ RestTyped(books[i][m.seq + 1]) /\ books[i][1] = {}
          BY <5>3 DEF PubTyped
        <5>5. Mirror(w.books[i], books[i][m.seq])
          <6>1. CASE in.last = Nil
            <7>1. m.seq = 1 /\ Blank(w.books[i])
              BY <2>4, <2>6, <4>2, <4>6, <6>1
            <7> QED
              BY <5>4, <7>1 DEF Mirror, Blank
          <6>2. CASE in.last # Nil
            <7>1. in.trusted /\ ~(m.seq > in.last + 1)
              BY <4>2, <4>6, <6>2
            <7>2. in.last + 1 = m.seq
              BY <2>4, <5>1, <7>1
            <7> QED
              BY <2>6, <5>1, <7>1, <7>2
          <6> QED
            BY <6>1, <6>2
        <5>6. Mirror(u.books[i], books[i][m.seq + 1])
          BY <2>3, <4>2, <5>2, <5>4, <5>5, MirrorLed
        <5> QED
          BY <5>1, <5>6
      <4> QED
        BY <2>2, <4>3, <4>5, <4>6 DEF TrueBook
    <3> QED
      BY <2>8, <3>1, <3>2, <3>3
  <2> QED
    BY <2>10, <2>11, <2>12
<1>8. /\ w.resetEra = Nil \/ \E e \in 0 .. feedEra : w.resetEra = ResetCountOf(e)
      /\ In(w) => \A y \in D : y.era = feedEra
  BY <1>1 DEF TruthOn
<1> QED
  BY <1>1, <1>2, <1>3, <1>7, <1>8 DEF TruthOn

LEMMA SayingsLess ==
  ASSUME NEW D, Sayings(D), NEW E, E \subseteq D
  PROVE  Sayings(E)
BY DEF Sayings

(* The first frame is dropped unread, before the validator trusts anything. *)
LEMMA HeadDropped ==
  ASSUME NEW E, NEW x, Sayings(E \cup {x}), Foremost(x, E), x.seq \in Nat,
         \A y \in E : y.seq \in Nat,
         NEW w, TruthOn(w, E \cup {x}), In(w) => \A i \in Instruments : ~w.instr[i].trusted
  PROVE  TruthOn(w, E)
<1> DEFINE D == E \cup {x}
<1>1. /\ x \in D /\ E \subseteq D /\ \A y \in D : y = x \/ y \in E
      /\ Sayings(D) /\ TruthOn(w, D)
  OBVIOUS
<1> HIDE DEF D
<1>2. ASSUME NEW i \in Instruments
      PROVE  TrueBook(w, E, i) /\ TrueDeltas(w, E, i) /\ TrueNow(w, E, i)
  <2>1. TrueBook(w, D, i) /\ TrueDeltas(w, D, i) /\ TrueNow(w, D, i)
    BY <1>1 DEF TruthOn
  <2>2. ASSUME NEW q, Cut(w, D, i, q) PROVE Cut(w, E, i, q)
    <3>1. CASE Resets(x, i)
      <4>1. ASSUME NEW y \in E, Tells(y, i) PROVE Number(y) # 1
        <5>1. x.seq < y.seq
          BY <3>1, <4>1 DEF Foremost, Tells, Resets
        <5>2. Number(y) = 1 => y.seq < x.seq
          BY <1>1, <3>1, <4>1 DEF Sayings
        <5>3. x.seq \in Nat /\ y.seq \in Nat
          OBVIOUS
        <5> QED
          BY <5>1, <5>2, <5>3
      <4> QED
        BY <4>1 DEF Cut
    <3>2. CASE ~Resets(x, i)
      BY <1>1, <2>2, <3>2 DEF Cut
    <3> QED
      BY <3>1, <3>2
  <2> QED
    BY <1>1, <2>1, <2>2 DEF TrueBook, TrueDeltas, TrueNow
<1> QED
  BY <1>1, <1>2 DEF TruthOn

LEMMA LostTruth ==
  ASSUME NEW D, NEW w, TruthOn(w, D), ~Lossless, NEW E, E \subseteq D
  PROVE  TruthOn(w, E)
BY DEF TruthOn, TrueBook, TrueDeltas, TrueNow

LEMMA KeptTruth ==
  ASSUME NEW D, NEW w, TruthOn(w, D), NEW u, Kept(w, u)
  PROVE  TruthOn(u, D)
<1>1. /\ u.resetEra = w.resetEra /\ u.books = w.books
      /\ \A i \in Instruments : /\ u.instr[i].last = w.instr[i].last
                                /\ u.instr[i].trusted <=> w.instr[i].trusted
  BY DEF Kept, Same
<1>2. In(u) <=> In(w)
  BY <1>1 DEF In
<1>3. \A i \in Instruments : \A q : Cut(w, D, i, q) => Cut(u, D, i, q)
  BY <1>1, <1>2 DEF Cut
<1>4. \A i \in Instruments : TrueBook(w, D, i) => TrueBook(u, D, i)
  BY <1>1, <1>2 DEF TrueBook
<1> QED
  BY <1>1, <1>2, <1>3, <1>4 DEF TruthOn, TrueDeltas, TrueNow

LEMMA WipedTruth ==
  ASSUME PubTyped, NEW D, NEW w, TruthOn(w, D), Sayings(D), NEW rc, NEW u,
         u.resetEra = rc, \A i \in Instruments : u.instr[i] = NewInstr /\ u.books[i] = NewBook,
         \E e \in 0 .. feedEra : rc = ResetCountOf(e),
         In(u) => \A y \in D : y.era = feedEra
  PROVE  TruthOn(u, D)
<1>1. \A i \in Instruments : u.instr[i].last = -1 /\ ~u.instr[i].trusted /\ Blank(u.books[i])
  BY NewInstrTyped, NewBookTyped DEF Blank, Nil
<1>2. \A i \in Instruments : \A q : Cut(w, D, i, q) => Cut(u, D, i, q)
  BY <1>1 DEF Cut
<1>3. \A i \in Instruments : TrueBook(u, D, i)
  <2>1. \A i \in Instruments : -1 <= SeqNow(i) /\ \A y \in D : Tells(y, i) => -1 < Number(y)
    <3>1. \A i \in Instruments : SeqNow(i) \in Nat
      BY LengthsNat
    <3> QED
      BY <3>1 DEF Sayings
  <2> QED
    BY <1>1, <2>1 DEF TrueBook
<1> QED
  BY <1>2, <1>3 DEF TruthOn, TrueDeltas, TrueNow

FramesOf(S) == {Frame(i) : i \in S}

(* A batch of mktdata, none of it accepted yet, ahead of the frames E. *)
Batch(S, accepted) ==
  \A i \in S : /\ Whole(i) /\ MessagesTyped("mktdata", i.body.msgs) /\ i.seq \in 0 .. MaxSeq
              /\ \A j \in S : i.seq = j.seq => i = j
              /\ \A c \in accepted : c.seq # i.seq

Ahead(S, E) == \A y \in E : y.seq \in Nat /\ \A i \in S : Era(i) = y.era => i.seq < y.seq

(* All the items of a batch, which come before whatever else is under way. *)
LEMMA BatchIsTrue ==
  ASSUME PubTyped, NEW s, Walking(s), NEW S, Batch(S, s.pt["mktdata"].accepted),
         NEW E, Ahead(S, E), Sayings(E \cup FramesOf(S)), TruthOn(s.v, E \cup FramesOf(S))
  PROVE  /\ TruthOn(Walk("mktdata", s, S).v, E)
         /\ Walk("mktdata", s, S).v.resetEra = s.v.resetEra
<1>a. PICK p : p = "mktdata"
  OBVIOUS
<1>b. /\ Sayings(E \cup {Frame(i) : i \in S}) /\ TruthOn(s.v, E \cup {Frame(i) : i \in S})
  BY DEF FramesOf
<1>c. \A i \in S : /\ Whole(i) /\ MessagesTyped(p, i.body.msgs) /\ i.seq \in 0 .. MaxSeq
                   /\ \A j \in S : i.seq = j.seq => i = j
                   /\ \A a \in s.pt[p].accepted : a.seq # i.seq
  BY <1>a DEF Batch
<1>d. \A y \in E : y.seq \in Nat /\ \A i \in S : Era(i) = y.era => i.seq < y.seq
  BY DEF Ahead
<1> SUFFICES TruthOn(Walk(p, s, S).v, E) /\ Walk(p, s, S).v.resetEra = s.v.resetEra
  BY <1>a
<1> USE <1>a, <1>b, <1>c, <1>d
<1> DEFINE Left(n) == {i \in S : Place(i) > n}
           D(n) == E \cup {Frame(i) : i \in Left(n)}
           Good(u, n) == /\ Walking(u) /\ TruthOn(u.v, D(n)) /\ u.v.resetEra = s.v.resetEra
                         /\ \A a \in u.pt[p].accepted : \A i \in Left(n) : a.seq # i.seq
<1>0. p \in Ports /\ p # "snapshot"
  BY PortsAre
<1>1. PICK f : /\ Walk(p, s, S) = f[LastPlace] /\ f[-1] = s
               /\ \A n \in 0 .. LastPlace : f[n] = WalkStep(p, f[n - 1], S, n)
  BY WalkWalks
<1>2. \A i \in S : Place(i) = i.seq * (W + 1) /\ Place(i) \in Nat /\ i.seq \in Nat
  BY WholeFields, PlaceOrder, WindowAssumption DEF Place
<1>3. \A i, j \in S : Place(i) <= Place(j) => i.seq <= j.seq
  BY <1>2, PlaceOrder
<1>4. \A i \in S : Place(i) <= LastPlace
  <2> SUFFICES ASSUME NEW i \in S PROVE Place(i) <= LastPlace
    OBVIOUS
  <2>1. i.seq \in Nat /\ i.seq <= MaxSeq /\ MaxSeq \in Nat /\ Place(i) = i.seq * (W + 1)
    BY <1>2, SeqAssumption
  <2>2. i.seq * (W + 1) \in Nat /\ MaxSeq * (W + 1) \in Nat
        /\ (MaxSeq * (W + 1) <= i.seq * (W + 1) => MaxSeq <= i.seq)
    BY <2>1, PlaceOrder
  <2>3. i.seq * (W + 1) <= MaxSeq * (W + 1)
    <3>1. CASE MaxSeq * (W + 1) <= i.seq * (W + 1)
      <4>1. i.seq = MaxSeq
        BY <2>1, <2>2, <3>1
      <4> QED
        BY <2>2, <4>1
    <3>2. CASE ~(MaxSeq * (W + 1) <= i.seq * (W + 1))
      BY <2>2, <3>2
    <3> QED
      BY <3>1, <3>2
  <2> QED
    BY <2>1, <2>2, <2>3, WindowAssumption DEF LastPlace
<1> DEFINE T == {n \in 0 .. LastPlace + 1 : Good(f[n - 1], n - 1)}
<1>5. 0 \in T
  <2>1. 0 - 1 = -1 /\ 0 \in 0 .. LastPlace + 1
    BY LastPlaceNat
  <2>2. Left(-1) = S
    BY <1>2
  <2>3. Good(s, -1)
    BY <2>2
  <2> QED
    BY <1>1, <2>1, <2>3
<1>6. ASSUME NEW n \in 1 .. LastPlace + 1, n - 1 \in T
      PROVE  n \in T
  <2> DEFINE k == n - 1
             b == f[k - 1]
             u == f[k]
  <2>1. k \in 0 .. LastPlace /\ n \in 0 .. LastPlace + 1
    BY LastPlaceNat
  <2>2. u = WalkStep(p, b, S, k) /\ Good(b, k - 1)
    BY <1>1, <1>6, <2>1
  <2> HIDE DEF k, b, u
  <2>3. \A i \in S : Place(i) > k - 1 <=> Place(i) = k \/ Place(i) > k
    BY <1>2, <2>1
  <2>4. CASE At(S, k) = {}
    <3>1. Left(k) = Left(k - 1)
      BY <2>3, <2>4 DEF At
    <3>2. u = b
      BY <2>2, <2>4 DEF WalkStep
    <3>3. Good(u, k)
      BY <2>2, <3>1, <3>2
    <3> QED
      BY <2>1, <3>3 DEF k, u
  <2>5. CASE At(S, k) # {}
    <3>1. PICK item : item = CHOOSE i \in At(S, k) : TRUE
      OBVIOUS
    <3>2. item \in S /\ Place(item) = k
      BY <2>5, <3>1 DEF At
    <3>3. u = ClassifyItem(p, b, item)
      BY <2>2, <2>5, <3>1 DEF WalkStep
    <3>4. \A i \in S : Place(i) = k => i = item
      <4> SUFFICES ASSUME NEW i \in S, Place(i) = k PROVE i = item
        OBVIOUS
      <4>1. i.seq <= item.seq /\ item.seq <= i.seq /\ i.seq \in Nat /\ item.seq \in Nat
        BY <1>2, <1>3, <3>2
      <4> QED
        BY <3>2, <4>1
    <3>5. Left(k - 1) = Left(k) \cup {item} /\ item \in Left(k - 1)
      BY <2>1, <2>3, <3>2, <3>4
    <3>6. Walking(b) /\ TruthOn(b.v, D(k - 1)) /\ b.v.resetEra = s.v.resetEra
          /\ \A a \in b.pt[p].accepted : \A i \in Left(k - 1) : a.seq # i.seq
      BY <2>2
    <3>7. ItemStep(p, b, u, item)
      BY <1>0, <3>2, <3>3, <3>6, ItemSteps
    <3>8. Walking(u) /\ Accepts(p, b, u, {item})
      BY <3>7 DEF ItemStep
    <3>9. \A a \in u.pt[p].accepted : \A i \in Left(k) : a.seq # i.seq
      <4>1. \A i \in Left(k) : i # item /\ i \in S /\ i \in Left(k - 1)
        BY <2>1, <3>2, <3>5
      <4>2. \A i \in Left(k) : i.seq # item.seq
        BY <3>2, <4>1
      <4> QED
        BY <3>6, <3>8, <4>1, <4>2 DEF Accepts
    <3>10. PICK g : u.v = OnFrame(p, b.v, item, g)
      <4>1. Fresh(b.pt[p], item)
        BY <3>5, <3>6 DEF Fresh
      <4> QED
        BY <3>7, <4>1 DEF ItemStep
    <3>11. PICK x : x = Frame(item)
      OBVIOUS
    <3>12. x.era = Era(item) /\ x.seq = item.seq /\ x.msgs = item.body.msgs
      BY <3>11 DEF Frame
    <3>13. D(k - 1) = D(k) \cup {x}
      BY <3>5, <3>11
    <3>14. D(k - 1) \subseteq E \cup {Frame(i) : i \in S}
      OBVIOUS
    <3>15. Sayings(D(k) \cup {x})
      BY <3>13, <3>14, SayingsLess
    <3>16. Foremost(x, D(k))
      <4>1. \A y \in E : x.era = y.era => x.seq < y.seq
        BY <3>2, <3>12
      <4>2. ASSUME NEW i \in Left(k) PROVE x.seq < Frame(i).seq
        <5>1. i \in S /\ Place(i) > Place(item) /\ i # item
          BY <2>1, <3>2
        <5>2. item.seq <= i.seq /\ item.seq # i.seq /\ item.seq \in Nat /\ i.seq \in Nat
          BY <1>2, <1>3, <3>2, <5>1
        <5>3. Frame(i).seq = i.seq
          BY DEF Frame
        <5> QED
          BY <3>12, <5>2, <5>3
      <4> QED
        BY <4>1, <4>2 DEF Foremost
    <3>17. x.seq \in Nat /\ \A y \in D(k) : y.seq \in Nat
      BY <1>2, <3>2, <3>12 DEF Frame
    <3>18. Does(b.v, u.v, x)
      <4>1. MessagesTyped(p, item.body.msgs) /\ StateTyped(b.v)
        BY <3>2, <3>6 DEF Walking
      <4>2. Told(b.v, OnFrame(p, b.v, item, g), item.body.msgs, g)
        BY <1>0, <4>1, FrameTold
      <4>3. Told(b.v, u.v, x.msgs, g)
        BY <3>10, <3>12, <4>2
      <4>4. MessagesTyped("mktdata", x.msgs) /\ Riding(x.msgs)
        BY <3>12, <3>15, <4>1 DEF Sayings
      <4> QED
        BY <4>1, <4>3, <4>4, HeadTold
    <3>19. TruthOn(b.v, D(k) \cup {x}) /\ StateTyped(b.v)
      BY <3>6, <3>13 DEF Walking
    <3> HIDE DEF D
    <3>20. TruthOn(u.v, D(k))
      BY <3>15, <3>16, <3>17, <3>18, <3>19, HeadRead
    <3>21. u.v.resetEra = s.v.resetEra
      BY <3>6, <3>18 DEF Does
    <3>22. Good(u, k)
      BY <3>8, <3>9, <3>20, <3>21
    <3> QED
      BY <2>1, <3>22 DEF k, u
  <2> QED
    BY <2>4, <2>5
<1> HIDE DEF T, Good, D
<1>7. LastPlace + 1 \in T
  BY <1>5, <1>6, LastPlaceNat, UpTo
<1>8. (LastPlace + 1) - 1 = LastPlace
  BY LastPlaceNat
<1>9. Good(f[LastPlace], LastPlace)
  BY <1>7, <1>8 DEF T
<1>10. D(LastPlace) = E
  <2>1. Left(LastPlace) = {}
    BY <1>2, <1>4, LastPlaceNat
  <2> QED
    BY <2>1 DEF D
<1> QED
  BY <1>1, <1>9, <1>10 DEF Good

-----------------------------------------------------------------------------
(* The steps of the receiver and of the network: the publisher rests.      *)
Quiet == UNCHANGED <<plan, feedEra, sent, now, books, rest>>

LEMMA QuietKeeps ==
  ASSUME Quiet
  PROVE  /\ PubTyped => PubTyped'
         /\ \A q, x : FrameFrom(q, x) <=> FrameFrom(q, x)'
         /\ \A x, y : Earlier(x, y) <=> Earlier(x, y)'
         /\ \A x : Frame(x) = Frame(x)'
         /\ \A D : Sayings(D) => Sayings(D)'
         /\ \A w, D : TruthOn(w, D) => TruthOn(w, D)'
         /\ \A w : In(w) <=> In(w)'
         /\ \A w : StateTyped(w) => StateTyped(w)'
         /\ \A t : Unheard(t) <=> Unheard(t)'
<1>1. UNCHANGED <<plan, feedEra, sent, now, books, rest>>
  BY DEF Quiet
<1>2. PubTyped => PubTyped'
  BY <1>1 DEF PubTyped, RestTyped, MessagesTyped, MessageTyped, MktdataTyped, SnapshotTyped
<1>3. \A x : Era(x) = Era(x)' /\ Frame(x) = Frame(x)'
  BY DEF Era, Frame
<1>4. \A q, msgs : MessagesTyped(q, msgs) <=> MessagesTyped(q, msgs)'
  BY <1>1 DEF MessagesTyped, MessageTyped, MktdataTyped, SnapshotTyped
<1>5. \A q, x : FrameFrom(q, x) <=> FrameFrom(q, x)'
  BY <1>1, <1>3, <1>4 DEF FrameFrom, Numbered
<1>6. \A x, i : (Tells(x, i) <=> Tells(x, i)') /\ (Resets(x, i) <=> Resets(x, i)')
                /\ Number(x) = Number(x)' /\ SeqNow(i) = SeqNow(i)'
  BY <1>1 DEF Tells, Resets, Number, SeqNow
<1>7. \A D : Sayings(D) => Sayings(D)'
  BY <1>1, <1>6 DEF Sayings
<1>8. \A w : In(w) <=> In(w)'
  BY <1>1 DEF In
<1>9. \A w, D, i, q : Cut(w, D, i, q) <=> Cut(w, D, i, q)'
  BY <1>1, <1>6, <1>8 DEF Cut
<1>10. \A w, D : TruthOn(w, D) => TruthOn(w, D)'
  <2> SUFFICES ASSUME NEW w, NEW D, TruthOn(w, D) PROVE TruthOn(w, D)'
    OBVIOUS
  <2>1. Lossless <=> Lossless'
    BY <1>1 DEF Lossless
  <2>2. \A i \in Instruments : TrueBook(w, D, i)'
    BY <1>1, <1>6, <1>8 DEF TruthOn, TrueBook, Mirror, Blank, Live
  <2>3. \A i \in Instruments : TrueDeltas(w, D, i)'
    BY <1>1, <1>6, <1>9, <2>1 DEF TruthOn, TrueDeltas, Leads
  <2>4. \A i \in Instruments : TrueNow(w, D, i)'
    BY <1>1, <1>6, <1>9, <2>1 DEF TruthOn, TrueNow
  <2> QED
    BY <1>1, <1>8, <2>2, <2>3, <2>4 DEF TruthOn
<1>11. \A w : StateTyped(w) => StateTyped(w)'
  BY <1>1 DEF StateTyped, InstrTyped, BookTyped, OpenTyped
<1>12. \A t : Unheard(t) <=> Unheard(t)'
  BY <1>1 DEF Unheard
<1>13. \A x, y : Earlier(x, y) <=> Earlier(x, y)'
  BY <1>3 DEF Earlier
<1> QED
  BY <1>2, <1>3, <1>5, <1>7, <1>8, <1>10, <1>11, <1>12, <1>13

LEMMA Stutters ==
  ASSUME MboInv, UNCHANGED allVars
  PROVE  MboInv'
<1>1. /\ UNCHANGED <<pt, pos, next, v, running, net, crossed>> /\ Quiet
  BY DEF allVars, vars, netVars, pubVars, Quiet
<1>2. PubTyped' /\ StateTyped(v)'
  BY <1>1, QuietKeeps DEF MboInv
<1>3. FlowInv => FlowInv'
  <2>1. \A q, x : FrameFrom(q, x) <=> FrameFrom(q, x)'
    BY <1>1, QuietKeeps
  <2>2. NetInv => NetInv'
    BY <1>1, <2>1 DEF NetInv, Quiet
  <2>3. BufferInv => BufferInv'
    BY <1>1, <2>1 DEF BufferInv, OfPort
  <2>4. IntakeInv => IntakeInv'
    BY <1>1 DEF IntakeInv, OfPort, Quiet
  <2> QED
    BY <2>2, <2>3, <2>4 DEF FlowInv
<1>4. \A q : Pending(q)' = Pending(q)
  BY <1>1 DEF Pending, OfPort
<1>5. Sayings(Pending("mktdata")) => Sayings(Pending("mktdata"))'
  BY <1>1, <1>4, QuietKeeps
<1>6. Truth => Truth'
  <2>1. TruthOn(v, Pending("mktdata")) => TruthOn(v, Pending("mktdata"))'
    BY <1>1, <1>4, QuietKeeps
  <2>2. (In(v) <=> In(v)') /\ (Unheard(pt["mktdata"]) <=> Unheard(pt["mktdata"])')
    BY <1>1, QuietKeeps
  <2> QED
    BY <1>1, <2>1, <2>2 DEF Truth
<1> QED
  BY <1>1, <1>2, <1>3, <1>5, <1>6 DEF MboInv, Followed, Quiet

LEMMA StartsRight ==
  ASSUME MboInit
  PROVE  MboInv
<1>1. /\ Init /\ plan \in Plans /\ feedEra = 0 /\ sent = [p \in Ports |-> 0] /\ net = << >>
      /\ crossed = {}
      /\ now = [i \in Instruments |-> {}] /\ books = [i \in Instruments |-> <<{}>>]
      /\ rest = << >> /\ v = NewConsumer
  BY DEF MboInit, NetInit
<1>2. plan.resets \in Nat /\ plan.deltas \in Nat
  BY <1>1, PlansAssumption, MboPlansAssumption
<1>3. PubTyped
  <2>1. << {} >> \in Seq({{}}) /\ Len(<< {} >>) = 1 /\ << {} >>[1] = {}
    OBVIOUS
  <2>2. RestTyped({}) /\ IsFiniteSet({}) /\ \A s \in 1 .. 1 : s = 1
    BY FS_EmptySet DEF RestTyped
  <2>3. MessagesTyped("snapshot", << >>) /\ << >> \in Seq({})
    BY NoMessages
  <2>4. \A i \in Instruments :
          /\ \E S : books[i] \in Seq(S)
          /\ Len(books[i]) \in 1 .. plan.deltas + 1 /\ books[i][1] = {}
          /\ Len(books[i]) = 1
          /\ now[i] \subseteq books[i][Len(books[i])] /\ IsFiniteSet(now[i])
    <3> SUFFICES ASSUME NEW i \in Instruments
                 PROVE  /\ \E S : books[i] \in Seq(S)
                        /\ Len(books[i]) \in 1 .. plan.deltas + 1 /\ books[i][1] = {}
                        /\ Len(books[i]) = 1
                        /\ now[i] \subseteq books[i][Len(books[i])] /\ IsFiniteSet(now[i])
      OBVIOUS
    <3>1. books[i] = << {} >> /\ now[i] = {} /\ 1 \in 1 .. plan.deltas + 1
      BY <1>1, <1>2
    <3> QED
      BY <2>1, <2>2, <3>1
  <2>5. \A i \in Instruments : \A s \in 1 .. Len(books[i]) : RestTyped(books[i][s])
    BY <2>2, <2>4
  <2>6. DOMAIN now = Instruments /\ DOMAIN books = Instruments /\ feedEra \in 0 .. plan.resets
    BY <1>1, <1>2
  <2> QED
    BY <1>1, <2>3, <2>4, <2>5, <2>6 DEF PubTyped
<1>4. /\ DOMAIN pt = Ports
      /\ \A q \in Ports : /\ DOMAIN pt[q] = TrackerFields /\ pt[q].eraPos = 0 /\ pt[q].buf = {}
                          /\ pt[q].accepted = {}
      /\ pos \in [ResetCounts -> Nat] /\ next \in Nat
  BY <1>1 DEF Init, NewTracker, TrackerFields
<1>5. FlowInv
  <2>1. NetInv
    <3>1. net \in Seq({net[n] : n \in DOMAIN net}) /\ DOMAIN net = {}
      BY <1>1
    <3> QED
      BY <1>1, <3>1 DEF NetInv
  <2> QED
    BY <1>4, <2>1 DEF FlowInv, BufferInv, IntakeInv, TrackerTyped
<1>6. Pending("mktdata") = {}
  BY <1>1, <1>4, PortsAre DEF Pending, OfPort
<1>7. Sayings(Pending("mktdata"))
  BY <1>6 DEF Sayings
<1>8. /\ DOMAIN v = StateFields /\ v.resetEra = Nil
      /\ v.instr = [i \in Instruments |-> NewInstr] /\ v.books = [i \in Instruments |-> NewBook]
      /\ v.suspects = [i \in Instruments |-> NoSuspect] /\ v.open = NoGroup
  BY <1>1 DEF NewConsumer, StateFields
<1>9. \A i \in Instruments : v.instr[i] = NewInstr /\ v.books[i] = NewBook
  BY <1>8
<1>10. StateTyped(v)
  <2>1. DOMAIN v.instr = Instruments /\ DOMAIN v.books = Instruments /\ DOMAIN v.suspects = Instruments
    BY <1>8
  <2> QED
    BY <1>8, <1>9, <2>1, NewInstrTyped, NewBookTyped DEF StateTyped, OpenTyped
<1>11. Truth
  <2>1. \A i \in Instruments : v.instr[i].last = -1 /\ ~v.instr[i].trusted /\ Blank(v.books[i])
    BY <1>9, NewInstrTyped, NewBookTyped DEF Blank, Nil
  <2>2. \A i \in Instruments : now[i] = {} /\ books[i] = << {} >> /\ Len(<< {} >>) = 1 /\ << {} >>[1] = {}
    BY <1>1
  <2>3. \A i \in Instruments : TrueBook(v, {}, i) /\ TrueDeltas(v, {}, i) /\ TrueNow(v, {}, i)
    <3> SUFFICES ASSUME NEW i \in Instruments
                 PROVE  TrueBook(v, {}, i) /\ TrueDeltas(v, {}, i) /\ TrueNow(v, {}, i)
      OBVIOUS
    <3>1. SeqNow(i) = 0 /\ now[i] = books[i][Len(books[i])]
      <4>1. PICK b : b = << {} >>
        OBVIOUS
      <4>2. Len(b) = 1 /\ b[1] = {}
        BY <4>1
      <4>3. books[i] = b /\ now[i] = {}
        BY <2>2, <4>1
      <4>4. SeqNow(i) = 0
        BY <4>2, <4>3 DEF SeqNow
      <4>5. now[i] = b[1]
        BY <4>2, <4>3
      <4>6. b[1] = books[i][Len(books[i])]
        BY <4>2, <4>3, Zenon
      <4> QED
        BY <4>4, <4>5, <4>6
    <3>2. TrueBook(v, {}, i)
      BY <2>1, <3>1 DEF TrueBook
    <3>3. TrueDeltas(v, {}, i)
      BY DEF TrueDeltas
    <3> QED
      BY <3>1, <3>2, <3>3 DEF TrueNow
  <2> QED
    BY <1>6, <1>8, <2>1, <2>3 DEF Truth, TruthOn, Nil
<1> QED
  BY <1>1, <1>3, <1>5, <1>7, <1>10, <1>11 DEF MboInv

(* The network loses or hands over frame n. *)
Others(q, n) == {Frame(net[j]) : j \in OfPort(q) \ {n}}

LEMMA NetShrinks ==
  ASSUME NetInv, NEW n \in DOMAIN net, net' = RemoveAt(net, n), Quiet
  PROVE  /\ NetInv'
         /\ \A m \in DOMAIN net' : \E j \in DOMAIN net : j # n /\ net'[m] = net[j]
         /\ \A q : {Frame(net'[m]) : m \in OfPort(q)'} = Others(q, n)
<1> DEFINE S == {net[m] : m \in DOMAIN net}
           at(i) == IF i < n THEN i ELSE i + 1
<1>1. net \in Seq(S) /\ Len(net) \in Nat /\ DOMAIN net = 1 .. Len(net)
  <2>1. net \in Seq(S)
    BY DEF NetInv
  <2> HIDE DEF S
  <2> QED
    BY <2>1, LenProperties
<1> HIDE DEF S
<1>2. /\ net' \in Seq(S) /\ DOMAIN net' = 1 .. Len(net) - 1
      /\ \A i \in DOMAIN net' : net'[i] = net[at(i)]
  BY <1>1, OneRemoved
<1>3. \A i \in DOMAIN net' : at(i) \in DOMAIN net /\ at(i) # n
  BY <1>1, <1>2
<1>4. \A i, j \in DOMAIN net' : i < j => at(i) < at(j)
  BY <1>1, <1>2
<1>5. \A j \in DOMAIN net : j # n => \E m \in DOMAIN net' : net'[m] = net[j]
  <2> SUFFICES ASSUME NEW j \in DOMAIN net, j # n
               PROVE  \E m \in DOMAIN net' : net'[m] = net[j]
    OBVIOUS
  <2>1. CASE j < n
    <3>1. j \in DOMAIN net' /\ at(j) = j
      BY <1>1, <1>2, <2>1
    <3> QED
      BY <1>2, <3>1
  <2>2. CASE j > n
    <3>1. j - 1 \in DOMAIN net' /\ at(j - 1) = j
      BY <1>1, <1>2, <2>2
    <3> QED
      BY <1>2, <3>1
  <2> QED
    BY <1>1, <2>1, <2>2
<1> HIDE DEF at
<1>6. (\A q, x : FrameFrom(q, x) <=> FrameFrom(q, x)') /\ \A x, y : Earlier(x, y) <=> Earlier(x, y)'
  BY QuietKeeps
<1>7. NetInv'
  <2>1. (net \in Seq({net[m] : m \in DOMAIN net}))'
    BY <1>2, OwnRange
  <2>2. \A m \in DOMAIN net' : /\ net'[m].port \in {"mktdata", "snapshot"}
                               /\ FrameFrom(net[m].port, net[m])'
    BY <1>2, <1>3, <1>6 DEF NetInv
  <2>3. ASSUME NEW i \in DOMAIN net', NEW j \in DOMAIN net', i < j, net'[i].port = net'[j].port
        PROVE  Earlier(net[i], net[j])'
    <3>1. at(i) \in DOMAIN net /\ at(j) \in DOMAIN net
      BY <1>3
    <3>2. net'[i] = net[at(i)] /\ net'[j] = net[at(j)]
      BY <1>2
    <3>3. at(i) < at(j)
      BY <1>4, <2>3
    <3>4. Earlier(net[at(i)], net[at(j)])
      BY <2>3, <3>1, <3>2, <3>3 DEF NetInv
    <3> QED
      BY <3>2, <3>4 DEF Earlier, Era
  <2>4. sent' \in [Ports -> Nat]
    BY DEF NetInv, Quiet
  <2> QED
    BY <2>1, <2>2, <2>3, <2>4 DEF NetInv
<1>8. \A m \in DOMAIN net' : \E j \in DOMAIN net : j # n /\ net'[m] = net[j]
  BY <1>2, <1>3
<1>9. \A q : {Frame(net'[m]) : m \in OfPort(q)'} = Others(q, n)
  BY <1>5, <1>8 DEF Others, OfPort
<1> QED
  BY <1>7, <1>8, <1>9

LEMMA PendingAfter ==
  ASSUME NEW n, \A q : {Frame(net'[m]) : m \in OfPort(q)'} = Others(q, n)
  PROVE  \A q : Pending(q)' = {Frame(i) : i \in pt'[q].buf} \cup Others(q, n)
<1>1. \A q : Pending(q)' = {Frame(i) : i \in pt'[q].buf} \cup {Frame(net'[m]) : m \in OfPort(q)'}
  BY DEF Pending, Frame, Era
<1> QED
  BY <1>1

LEMMA LoseStep ==
  ASSUME MboInv, NEW n \in DOMAIN net, Lose(n)
  PROVE  MboInv'
<1>1. /\ running /\ net[n].port \in plan.lossy /\ net' = RemoveAt(net, n) /\ Quiet
      /\ UNCHANGED <<pt, pos, next, v, running, crossed>>
  BY DEF Lose, Dropping, vars, pubVars, Quiet
<1>2. PubTyped /\ FlowInv /\ StateTyped(v) /\ Sayings(Pending("mktdata"))
  BY <1>1 DEF MboInv
<1>3. PubTyped' /\ StateTyped(v)'
  BY <1>1, <1>2, QuietKeeps
<1>4. /\ NetInv'
      /\ \A m \in DOMAIN net' : \E j \in DOMAIN net : j # n /\ net'[m] = net[j]
      /\ \A q : {Frame(net'[m]) : m \in OfPort(q)'} = Others(q, n)
  BY <1>1, <1>2, NetShrinks DEF FlowInv
<1>5. (\A q, x : FrameFrom(q, x) <=> FrameFrom(q, x)') /\ \A x, y : Earlier(x, y) <=> Earlier(x, y)'
  BY <1>1, QuietKeeps
<1>6. \A q : \A m \in OfPort(q)' : \E j \in OfPort(q) : net'[m] = net[j]
  BY <1>4 DEF OfPort
<1>7. BufferInv'
  <2>1. \A q \in Ports : \A i \in pt[q].buf : \A m \in OfPort(q)' : Earlier(i, net'[m])
    BY <1>2, <1>6 DEF FlowInv, BufferInv
  <2> QED
    BY <1>1, <1>2, <1>5, <2>1 DEF FlowInv, BufferInv, Earlier, Era
<1>8. IntakeInv'
  BY <1>1, <1>2, <1>6 DEF FlowInv, IntakeInv, Quiet
<1>9. PICK E : E = Pending("mktdata")'
  OBVIOUS
<1>10. PICK D : D = Pending("mktdata")
  OBVIOUS
<1>11. \A q : Pending(q)' = {Frame(i) : i \in pt'[q].buf} \cup Others(q, n)
  BY <1>4, PendingAfter
<1>12. /\ E = {Frame(i) : i \in pt["mktdata"].buf} \cup Others("mktdata", n)
       /\ D = {Frame(i) : i \in pt["mktdata"].buf}
                \cup {Frame(net[m]) : m \in OfPort("mktdata")}
       /\ E \subseteq D
  <2>1. Others("mktdata", n) \subseteq {Frame(net[m]) : m \in OfPort("mktdata")}
    BY DEF Others
  <2>2. E = {Frame(i) : i \in pt'["mktdata"].buf} \cup Others("mktdata", n)
    BY <1>9, <1>11
  <2>3. D = {Frame(i) : i \in pt["mktdata"].buf}
              \cup {Frame(net[m]) : m \in OfPort("mktdata")}
    BY <1>10 DEF Pending
  <2> QED
    BY <1>1, <2>1, <2>2, <2>3
<1>13. Sayings(Pending("mktdata"))'
  <2>1. Sayings(E)
    BY <1>2, <1>10, <1>12, SayingsLess
  <2> QED
    BY <1>1, <1>9, <2>1, QuietKeeps
<1>14. ASSUME Followed(plan), crossed \subseteq {"overlap"} PROVE Truth'
  <2>1. TruthOn(v, D)
    BY <1>10, <1>14 DEF MboInv, Truth
  <2>2. TruthOn(v, E)
    <3>1. CASE net[n].port = "mktdata"
      BY <1>1, <1>12, <2>1, <3>1, LostTruth DEF Lossless
    <3>2. CASE net[n].port # "mktdata"
      <4>1. E = D
        <5>1. OfPort("mktdata") \ {n} = OfPort("mktdata")
          BY <3>2 DEF OfPort
        <5> QED
          BY <1>12, <5>1 DEF Others
      <4> QED
        BY <2>1, <4>1
    <3> QED
      BY <3>1, <3>2
  <2>3. TruthOn(v, Pending("mktdata"))'
    BY <1>1, <1>9, <2>2, QuietKeeps
  <2>4. (In(v) <=> In(v)') /\ (Unheard(pt["mktdata"]) <=> Unheard(pt["mktdata"])')
    BY <1>1, QuietKeeps
  <2> QED
    BY <1>1, <1>14, <2>3, <2>4 DEF Truth, MboInv
<1> QED
  BY <1>1, <1>2, <1>3, <1>4, <1>7, <1>8, <1>13, <1>14 DEF MboInv, FlowInv, Followed, Quiet

-----------------------------------------------------------------------------
(* Engine.Process of a frame under way, step by step.                      *)
Buffered(d) == [rc |-> d.rc, seq |-> d.seq, body |-> d.body, copy |-> 0]

Leaving(p, d) == IF Advances(p, d) THEN pt[p].buf ELSE {}   \* the old era's items
Stays(p, d) == (pt[p].buf \ Leaving(p, d)) \cup {Buffered(d)}

Cleared(p, d) == Walk(p, [pt |-> pt, v |-> v], Leaving(p, d))
Entered(p, d)  == Entering(p, d, Cleared(p, d))
Pushed(p, d)   == Push(Opened(p, d), d)
Popped(p, d)   == IF Overflows(Pushed(p, d)) THEN {HeadOf(Pushed(p, d))} ELSE {}
Filled(p, d)   == IF Overflows(Pushed(p, d)) THEN Without(Pushed(p, d), HeadOf(Pushed(p, d)))
                                             ELSE Pushed(p, d)
Ready(p, d)    == [Entered(p, d) EXCEPT !.pt[p] = Filled(p, d)]

LEMMA ProcessedAs == \A p, d : Processed(p, d) = Walk(p, Ready(p, d), Popped(p, d))
<1> SUFFICES ASSUME NEW p, NEW d PROVE Processed(p, d) = Walk(p, Ready(p, d), Popped(p, d))
  OBVIOUS
<1>1. Processed(p, d) = IF Overflows(Pushed(p, d))
                          THEN Walk(p, [Entered(p, d) EXCEPT !.pt[p] = Without(Pushed(p, d), HeadOf(Pushed(p, d)))],
                                    {HeadOf(Pushed(p, d))})
                          ELSE [Entered(p, d) EXCEPT !.pt[p] = Pushed(p, d)]
  BY DEF Processed, Entered, Pushed, Cleared, Leaving
<1>2. CASE Overflows(Pushed(p, d))
  BY <1>1, <1>2 DEF Ready, Filled, Popped
<1>3. CASE ~Overflows(Pushed(p, d))
  BY <1>1, <1>3, WalkNothing DEF Ready, Filled, Popped
<1> QED
  BY <1>2, <1>3

(* The tracker the frame is pushed into. *)
LEMMA OpenedAs ==
  ASSUME NEW p, DOMAIN pt[p] = TrackerFields, pt[p].eraPos \in Nat,
         pt[p].eraPos = 0 => pt[p].buf = {} /\ pt[p].accepted = {},
         NEW d, pos[d.rc] \in Nat, next \in Nat, ~Quarantines(p, d)
  PROVE  LET o == Opened(p, d)
         IN  /\ TrackerTyped(o) /\ o.era = d.rc /\ o.eraPos # 0
             /\ o.buf = pt[p].buf \ Leaving(p, d)
             /\ o.accepted = IF Advances(p, d) THEN {} ELSE pt[p].accepted
             /\ ~Advances(p, d) /\ pt[p].eraPos # 0 => pt[p].era = d.rc
<1> DEFINE t == pt[p]
           o == Opened(p, d)
<1>1. /\ DOMAIN t = TrackerFields /\ t.eraPos \in Nat
      /\ pos[d.rc] \in Nat /\ next \in Nat
  OBVIOUS
<1>2. \A from \in Nat : OrdinalFor(d.rc, from) \in Nat /\ OrdinalFor(d.rc, from) # 0
  BY <1>1 DEF OrdinalFor, Joins
<1>3. CASE Seeds(p, d)
  <2>1. o = Seeded(t, d.rc) /\ t.buf = {} /\ t.accepted = {} /\ ~Advances(p, d) /\ t.eraPos = 0
    <3>1. ~Advances(p, d) /\ t.eraPos = 0
      BY <1>3 DEF Seeds, Advances
    <3>2. o = Seeded(t, d.rc)
      BY <1>3, <3>1 DEF Opened
    <3> QED
      BY <3>1, <3>2
  <2> HIDE DEF t, o
  <2>2. /\ o.era = d.rc /\ o.eraPos = OrdinalFor(d.rc, 0) /\ o.buf = t.buf /\ DOMAIN o = DOMAIN t
        /\ o.accepted = t.accepted
    BY <1>1, <2>1 DEF Seeded, TrackerFields
  <2>3. TrackerTyped(o) /\ o.eraPos # 0
    BY <1>1, <1>2, <2>2 DEF TrackerTyped
  <2> QED
    BY <2>1, <2>2, <2>3 DEF t, o, Leaving
<1>4. CASE Advances(p, d)
  <2> DEFINE u == Drained(t)
             a == AdvanceEra(u, d.rc)
  <2>1. o = [a EXCEPT !.dirty = Late(t, d)]
    BY <1>4 DEF Opened, Advances, Seeds
  <2>2. DOMAIN u = TrackerFields /\ u.buf = {} /\ u.eraPos = t.eraPos
    <3> HIDE DEF t
    <3> QED
      BY <1>1 DEF Drained, Classify, TrackerFields
  <2> HIDE DEF t, u
  <2>3. /\ DOMAIN a = TrackerFields /\ a.buf = {} /\ a.era = d.rc /\ a.accepted = {}
        /\ a.eraPos = OrdinalFor(d.rc, u.eraPos)
    BY <2>2 DEF AdvanceEra, TrackerFields
  <2> HIDE DEF a, o
  <2>4. DOMAIN o = TrackerFields /\ o.buf = {} /\ o.era = d.rc /\ o.eraPos = a.eraPos /\ o.accepted = {}
    BY <2>1, <2>3 DEF TrackerFields
  <2>5. o.eraPos \in Nat /\ o.eraPos # 0
    BY <1>1, <1>2, <2>2, <2>3, <2>4
  <2> QED
    BY <1>4, <2>4, <2>5 DEF o, Leaving, TrackerTyped
<1>5. CASE ~Seeds(p, d) /\ ~Advances(p, d)
  <2>1. o = [t EXCEPT !.stragglers = 0]
    BY <1>5 DEF Opened
  <2>2. t.eraPos # 0 /\ d.rc = t.era
    BY <1>5 DEF Seeds, Advances, OtherEra
  <2> HIDE DEF t, o
  <2>3. /\ DOMAIN o = TrackerFields /\ o.era = t.era /\ o.eraPos = t.eraPos /\ o.buf = t.buf
        /\ o.accepted = t.accepted
    BY <1>1, <2>1 DEF TrackerFields
  <2>4. TrackerTyped(o) /\ o.eraPos # 0
    BY <1>1, <2>2, <2>3 DEF TrackerTyped
  <2> QED
    BY <1>5, <2>2, <2>3, <2>4 DEF t, o, Leaving
<1> QED
  BY <1>3, <1>4, <1>5

(* The buffer without its head, of items that have a number each. *)
LEMMA PoppedNew ==
  ASSUME NEW t, "buf" \in DOMAIN t, NEW h \in t.buf,
         \A i \in t.buf : i.seq = h.seq => i = h
  PROVE  Without(t, h) = [t EXCEPT !.buf = t.buf \ {h}]
<1> DEFINE B == {IF i.seq = h.seq THEN [i EXCEPT !.copy = @ - 1] ELSE i : i \in t.buf \ {h}}
<1>1. B = t.buf \ {h}
  OBVIOUS
<1> HIDE DEF B
<1>2. Without(t, h) = [t EXCEPT !.buf = B]
  BY DEF Without, B
<1> QED
  BY <1>1, <1>2

(* A frame that is handed over. *)
Arrival(p, n, d) ==
  /\ p \in {"mktdata", "snapshot"} /\ p \in Ports /\ FrameFrom(p, d) /\ d.rc \in ResetCounts
  /\ \A i \in pt[p].buf : Earlier(i, d) /\ (i.rc = d.rc => i.seq < d.seq)
  /\ \A j \in OfPort(p) \ {n} : Earlier(d, net[j])
  /\ \A a \in pt[p].accepted : d.rc = pt[p].era => a.seq < d.seq

LEMMA SameEra ==
  ASSUME CountsDiffer, PubTyped, NEW p, NEW q, NEW x, FrameFrom(p, x), NEW y, FrameFrom(q, y),
         x.rc = y.rc
  PROVE  Era(x) = Era(y)
<1>1. Era(x) \in 0 .. feedEra /\ Era(y) \in 0 .. feedEra
      /\ ResetCountOf(Era(x)) = ResetCountOf(Era(y))
  BY DEF FrameFrom, Numbered
<1> QED
  BY <1>1, SameCount

LEMMA SeqLess ==
  ASSUME CountsDiffer, PubTyped, NEW p, NEW q, NEW x, FrameFrom(p, x), NEW y, FrameFrom(q, y),
         x.rc = y.rc, Earlier(x, y)
  PROVE  x.seq < y.seq
<1>1. Era(x) = Era(y)
  BY SameEra
<1>2. Era(x) \in Int /\ Era(y) \in Int
  <2>1. Era(x) \in 0 .. feedEra
    BY DEF FrameFrom, Numbered
  <2> QED
    BY <1>1, <2>1
<1> QED
  BY <1>1, <1>2 DEF Earlier

LEMMA HandedOver ==
  ASSUME CountsDiffer, PubTyped, FlowInv, NEW n \in DOMAIN net, Arriving(n),
         NEW p, p = net[n].port,
         NEW d, d.rc = net[n].rc, d.seq = net[n].seq, d.body = net[n].body
  PROVE  Arrival(p, n, d)
<1>1. p \in {"mktdata", "snapshot"} /\ p \in Ports /\ FrameFrom(p, net[n])
  BY PortsAre DEF FlowInv, NetInv
<1>2. Era(d) = Era(net[n])
  BY DEF Era
<1>3. FrameFrom(p, d)
  BY <1>1, <1>2 DEF FrameFrom, Numbered
<1>4. d.rc \in ResetCounts
  <2>1. \E e \in 0 .. feedEra : d.rc = ResetCountOf(e)
    BY <1>3 DEF FrameFrom, Numbered
  <2>2. plan \in Plans /\ feedEra \in 0 .. plan.resets /\ plan.resets \in Nat
    BY PlansAssumption DEF PubTyped
  <2> QED
    BY <2>1, <2>2, CountsAssumption
<1>5. n \in OfPort(p)
  BY DEF OfPort
<1>6. \A i \in pt[p].buf : Earlier(i, d) /\ (i.rc = d.rc => i.seq < d.seq)
  <2> SUFFICES ASSUME NEW i \in pt[p].buf PROVE Earlier(i, d) /\ (i.rc = d.rc => i.seq < d.seq)
    OBVIOUS
  <2>1. Earlier(i, net[n]) /\ FrameFrom(p, i)
    BY <1>1, <1>5 DEF FlowInv, BufferInv
  <2>2. Earlier(i, d)
    BY <1>2, <2>1 DEF Earlier
  <2> QED
    BY <1>3, <2>1, <2>2, SeqLess
<1>7. \A j \in OfPort(p) \ {n} : Earlier(d, net[j])
  <2> SUFFICES ASSUME NEW j \in OfPort(p), j # n PROVE Earlier(d, net[j])
    OBVIOUS
  <2>1. Len(net) \in Nat /\ DOMAIN net = 1 .. Len(net)
    BY LenProperties DEF FlowInv, NetInv
  <2>2. \A m \in DOMAIN net : m < n => net[m].port # net[n].port
    BY <2>1 DEF Arriving
  <2>3. j \in DOMAIN net /\ n < j /\ net[j].port = p
    BY <2>1, <2>2 DEF OfPort
  <2>4. Earlier(net[n], net[j])
    BY <2>3 DEF FlowInv, NetInv
  <2> QED
    BY <1>2, <2>4 DEF Earlier
<1>8. \A a \in pt[p].accepted : d.rc = pt[p].era => a.seq < d.seq
  <2>1. \A a \in pt[p].accepted : \A j \in OfPort(p) : net[j].rc = pt[p].era => a.seq < net[j].seq
    BY <1>1 DEF FlowInv, IntakeInv
  <2> QED
    BY <1>5, <2>1
<1> QED
  BY <1>1, <1>3, <1>4, <1>6, <1>7, <1>8 DEF Arrival

LEMMA BufferedIs ==
  ASSUME NEW p, NEW d, FrameFrom(p, d)
  PROVE  LET i == Buffered(d)
         IN  /\ i.rc = d.rc /\ i.seq = d.seq /\ i.body = d.body /\ i.copy = 0
             /\ Whole(i) /\ Era(i) = Era(d) /\ Frame(i) = Frame(d) /\ FrameFrom(p, i)
<1> DEFINE i == Buffered(d)
<1>1. i.rc = d.rc /\ i.seq = d.seq /\ i.body = d.body /\ i.copy = 0
  BY DEF Buffered
<1>2. Whole(i)
  BY <1>1 DEF Whole, Buffered
<1> HIDE DEF i
<1>3. Era(i) = Era(d)
  BY <1>1 DEF Era
<1>4. Frame(i) = Frame(d)
  BY <1>1, <1>3 DEF Frame
<1>5. FrameFrom(p, i)
  BY <1>1, <1>3 DEF FrameFrom, Numbered
<1> QED
  BY <1>1, <1>2, <1>3, <1>4, <1>5 DEF i

(* What a port holds when it comes to the frame the window pops. *)
LEMMA Filling ==
  ASSUME CountsDiffer, PubTyped, FlowInv, NEW p, NEW n, NEW d, Arrival(p, n, d),
         ~Quarantines(p, d)
  PROVE  LET t == Filled(p, d)
         IN  /\ TrackerTyped(t) /\ t.era = d.rc /\ t.eraPos # 0
             /\ t.accepted = IF Advances(p, d) THEN {} ELSE pt[p].accepted
             /\ Popped(p, d) \subseteq Stays(p, d) /\ t.buf = Stays(p, d) \ Popped(p, d)
             /\ \A h \in Popped(p, d) : \A i \in t.buf : h.seq < i.seq
             /\ \A i, j \in Stays(p, d) : i.seq = j.seq => i = j
             /\ \A i \in Stays(p, d) : FrameFrom(p, i) /\ Whole(i) /\ i.rc = d.rc
             /\ \A a \in t.accepted : \A i \in Stays(p, d) : a.seq < i.seq
<1> DEFINE o == Opened(p, d)
           item == Buffered(d)
           stay == pt[p].buf \ Leaving(p, d)
           pushed == Pushed(p, d)
           h == HeadOf(pushed)
           t == Filled(p, d)
<1>1. /\ p \in Ports /\ FrameFrom(p, d) /\ d.rc \in ResetCounts
      /\ \A i \in pt[p].buf : Earlier(i, d) /\ (i.rc = d.rc => i.seq < d.seq)
      /\ \A a \in pt[p].accepted : d.rc = pt[p].era => a.seq < d.seq
  BY DEF Arrival
<1>2. /\ TrackerTyped(pt[p]) /\ (pt[p].eraPos = 0 => pt[p].buf = {} /\ pt[p].accepted = {})
      /\ pos[d.rc] \in Nat /\ next \in Nat
      /\ \A a \in pt[p].accepted : \A i \in pt[p].buf : a.seq < i.seq
  BY <1>1 DEF FlowInv, IntakeInv
<1>3. /\ TrackerTyped(o) /\ o.era = d.rc /\ o.eraPos # 0 /\ o.buf = stay
      /\ o.accepted = IF Advances(p, d) THEN {} ELSE pt[p].accepted
      /\ ~Advances(p, d) /\ pt[p].eraPos # 0 => pt[p].era = d.rc
  BY <1>1, <1>2, OpenedAs DEF TrackerTyped
<1>4. /\ item.rc = d.rc /\ item.seq = d.seq /\ item.copy = 0
      /\ Whole(item) /\ FrameFrom(p, item)
  BY <1>1, BufferedIs
<1>5. \A i \in pt[p].buf : /\ FrameFrom(p, i) /\ Whole(i) /\ i.rc = pt[p].era
                           /\ i.seq \in Nat /\ i.copy = 0
                           /\ \A j \in pt[p].buf : i.seq = j.seq => i = j
  BY <1>1, WholeFields DEF FlowInv, BufferInv, FrameFrom, Numbered
<1>6. d.seq \in Nat
  BY <1>1 DEF FrameFrom, Numbered
<1>7. \A i \in stay : i.rc = d.rc /\ i.seq < d.seq
  <2>1. Advances(p, d) => stay = {}
    BY DEF Leaving
  <2>2. pt[p].eraPos = 0 => stay = {}
    BY <1>2
  <2> QED
    BY <1>1, <1>3, <1>5, <2>1, <2>2
<1>8. Stays(p, d) = stay \cup {item}
  BY DEF Stays
<1>9. \A i \in Stays(p, d) : FrameFrom(p, i) /\ Whole(i) /\ i.rc = d.rc /\ i.seq \in Nat /\ i.copy = 0
  BY <1>4, <1>5, <1>6, <1>7, <1>8
<1>10. \A i, j \in Stays(p, d) : i.seq = j.seq => i = j
  <2>1. \A i \in stay : i.seq # item.seq
    BY <1>4, <1>5, <1>6, <1>7
  <2> QED
    BY <1>5, <1>8, <2>1
<1>11. \A a \in o.accepted : \A i \in Stays(p, d) : a.seq < i.seq
  <2>1. ASSUME NEW a \in o.accepted
        PROVE  a \in pt[p].accepted /\ pt[p].era = d.rc
    BY <1>2, <1>3, <2>1
  <2>2. \A i \in stay : i \in pt[p].buf
    OBVIOUS
  <2> HIDE DEF o, item, stay
  <2>3. item.seq = d.seq /\ \A a \in pt[p].accepted : d.rc = pt[p].era => a.seq < d.seq
    BY <1>1, <1>4
  <2> QED
    BY <1>2, <1>8, <2>1, <2>2, <2>3
<1>12. pushed = [o EXCEPT !.buf = o.buf \cup {item}]
  <2>1. \A i \in o.buf : i.seq # d.seq
    BY <1>3, <1>5, <1>6, <1>7
  <2>2. "buf" \in DOMAIN o
    BY <1>3 DEF TrackerTyped, TrackerFields
  <2> HIDE DEF o
  <2> QED
    BY <2>1, <2>2, PushedNew DEF Pushed, Buffered, o
<1> HIDE DEF item, stay
<1>13. /\ TrackerTyped(pushed) /\ pushed.era = d.rc /\ pushed.eraPos # 0
       /\ pushed.buf = Stays(p, d) /\ pushed.accepted = o.accepted
  <2> HIDE DEF o, pushed
  <2> QED
    BY <1>3, <1>8, <1>12 DEF TrackerTyped, TrackerFields
<1> HIDE DEF o, pushed
<1>14. h \in pushed.buf /\ IsHead(pushed, h)
  <2>1. pushed.buf # {} /\ \A i \in pushed.buf : i.seq \in Nat /\ i.copy = 0
    BY <1>8, <1>9, <1>13
  <2> QED
    BY <2>1, HeadIn
<1> HIDE DEF h
<1>15. \A i \in pushed.buf : h.seq <= i.seq /\ (i.seq = h.seq => i = h)
  BY <1>10, <1>13, <1>14 DEF IsHead
<1>16. Without(pushed, h) = [pushed EXCEPT !.buf = pushed.buf \ {h}]
  <2>1. "buf" \in DOMAIN pushed
    BY <1>13 DEF TrackerTyped, TrackerFields
  <2> QED
    BY <1>14, <1>15, <2>1, PoppedNew
<1>17. /\ Popped(p, d) = IF Overflows(pushed) THEN {h} ELSE {}
       /\ t = IF Overflows(pushed) THEN Without(pushed, h) ELSE pushed
  BY DEF Popped, Filled, pushed, h
<1>18. /\ TrackerTyped(t) /\ t.era = d.rc /\ t.eraPos # 0 /\ t.accepted = o.accepted
       /\ t.buf = Stays(p, d) \ Popped(p, d) /\ Popped(p, d) \subseteq Stays(p, d)
  <2>1. CASE Overflows(pushed)
    <3>1. t = [pushed EXCEPT !.buf = pushed.buf \ {h}] /\ Popped(p, d) = {h}
      BY <1>16, <1>17, <2>1
    <3> HIDE DEF t
    <3> QED
      BY <1>13, <1>14, <3>1 DEF TrackerTyped, TrackerFields
  <2>2. CASE ~Overflows(pushed)
    BY <1>13, <1>17, <2>2
  <2> QED
    BY <2>1, <2>2
<1>19. \A g \in Popped(p, d) : \A i \in t.buf : g.seq < i.seq
  <2>1. \A g \in Popped(p, d) : g = h
    BY <1>17
  <2>2. \A i \in t.buf : i \in pushed.buf /\ i \notin Popped(p, d) /\ i.seq \in Nat
    BY <1>9, <1>13, <1>18
  <2> HIDE DEF t
  <2> QED
    BY <1>9, <1>13, <1>14, <1>15, <2>1, <2>2
<1> HIDE DEF t
<1>20. t.accepted = IF Advances(p, d) THEN {} ELSE pt[p].accepted
  BY <1>3, <1>18
<1>21. \A a \in t.accepted : \A i \in Stays(p, d) : a.seq < i.seq
  BY <1>11, <1>18
<1> QED
  BY <1>9, <1>10, <1>18, <1>19, <1>20, <1>21 DEF t

(* Trackers that differ in their dirty flag at most. *)
Alike(t, u) ==
  /\ u.era = t.era /\ u.eraPos = t.eraPos /\ u.buf = t.buf /\ u.accepted = t.accepted
  /\ TrackerTyped(t) => TrackerTyped(u)

LEMMA TaintedAlike ==
  ASSUME NEW trackers, DOMAIN trackers = Ports, \A q \in Ports : TrackerTyped(trackers[q]), NEW led
  PROVE  LET u == WithTaint(trackers, led)
         IN  DOMAIN u = Ports /\ \A q \in Ports : Alike(trackers[q], u[q])
<1> DEFINE u == [trackers EXCEPT !["snapshot"].dirty = TRUE]
<1>1. WithTaint(trackers, led) \in {trackers, u}
  BY DEF WithTaint
<1>2. DOMAIN u = Ports /\ \A q \in Ports : Alike(trackers[q], u[q])
  BY DEF TrackerTyped, TrackerFields, Alike
<1>3. \A q \in Ports : Alike(trackers[q], trackers[q])
  BY DEF Alike
<1> HIDE DEF u
<1> QED
  BY <1>1, <1>2, <1>3

(* What waits is a batch for the port's handler. *)
LEMMA BufferReadable ==
  ASSUME FlowInv, NEW p \in Ports, NEW S, S \subseteq pt[p].buf
  PROVE  \A i \in S : Whole(i) /\ MessagesTyped(p, i.body.msgs)
BY DEF FlowInv, BufferInv, FrameFrom

Start == [pt |-> pt, v |-> v]

LEMMA StartIs ==
  ASSUME FlowInv, StateTyped(v)
  PROVE  Walking(Start) /\ Start.pt = pt /\ Start.v = v
BY DEF Start, Walking, FlowInv, IntakeInv

LEMMA ReadyIs ==
  ASSUME CountsDiffer, PubTyped, FlowInv, StateTyped(v), NEW p, NEW n, NEW d, Arrival(p, n, d),
         ~Quarantines(p, d)
  PROVE  LET a == Cleared(p, d)
             r == Ready(p, d)
         IN  /\ a = Walk(p, Start, Leaving(p, d))
             /\ Walking(a) /\ (p = "snapshot" => Kept(v, a.v))
             /\ Walking(r) /\ r.pt[p] = Filled(p, d)
             /\ \A q \in Ports : q # p => Alike(pt[q], r.pt[q])
             /\ \/ r.v = a.v
                \/ Advances(p, d) /\ Wipes(a.v, d.rc) /\ r.v = Wipe(a.v, d.rc)
<1> DEFINE a == Cleared(p, d)
           e == Entered(p, d)
           t == Filled(p, d)
           r == Ready(p, d)
<1>1. p \in Ports
  BY DEF Arrival
<1>2. Walking(Start) /\ Start.pt = pt /\ Start.v = v
  BY StartIs
<1>3. a = Walk(p, Start, Leaving(p, d))
  BY DEF Cleared, Start
<1>4. Walking(a) /\ Beside(p, Start, a)
  <2>1. \A i \in Leaving(p, d) : Whole(i) /\ MessagesTyped(p, i.body.msgs)
    <3>1. Leaving(p, d) \subseteq pt[p].buf
      BY DEF Leaving
    <3> QED
      BY <1>1, <3>1, BufferReadable
  <2> HIDE DEF a
  <2> QED
    BY <1>1, <1>2, <1>3, <2>1, WalkKeeps
<1> HIDE DEF a
<1>5. /\ \A q \in Ports : q # p => a.pt[q] = pt[q]
      /\ (p = "snapshot" => Kept(v, a.v))
  BY <1>2, <1>4 DEF Beside
<1>6. /\ Walking(e) /\ \A q \in Ports : q # p => Alike(pt[q], e.pt[q])
      /\ \/ e.v = a.v
         \/ Advances(p, d) /\ Wipes(a.v, d.rc) /\ e.v = Wipe(a.v, d.rc)
  <2>1. e = IF Advances(p, d) /\ Wipes(a.v, d.rc)
              THEN [pt |-> WithTaint(a.pt, p # "snapshot"), v |-> Wipe(a.v, d.rc)] ELSE a
    BY DEF Entered, Entering, a
  <2>2. CASE ~(Advances(p, d) /\ Wipes(a.v, d.rc))
    <3>1. e = a
      BY <2>1, <2>2
    <3>2. \A q \in Ports : q # p => Alike(pt[q], a.pt[q])
      BY <1>5 DEF Alike
    <3> QED
      BY <1>4, <3>1, <3>2
  <2>3. CASE Advances(p, d) /\ Wipes(a.v, d.rc)
    <3> DEFINE trackers == WithTaint(a.pt, p # "snapshot")
    <3>1. e.pt = trackers /\ e.v = Wipe(a.v, d.rc) /\ DOMAIN e = {"pt", "v"}
      BY <2>1, <2>3
    <3>2. DOMAIN a.pt = Ports /\ \A q \in Ports : TrackerTyped(a.pt[q])
      BY <1>4 DEF Walking
    <3>3. DOMAIN trackers = Ports /\ \A q \in Ports : Alike(a.pt[q], trackers[q])
      BY <3>2, TaintedAlike
    <3> HIDE DEF trackers
    <3>4. StateTyped(e.v)
      BY <3>1, WipeTold
    <3> HIDE DEF e
    <3>5. Walking(e)
      BY <3>1, <3>2, <3>3, <3>4 DEF Walking, Alike
    <3>6. \A q \in Ports : q # p => Alike(pt[q], e.pt[q])
      BY <1>5, <3>1, <3>3
    <3> QED
      BY <2>3, <3>1, <3>5, <3>6
  <2> QED
    BY <2>2, <2>3
<1> HIDE DEF e
<1>7. TrackerTyped(t)
  BY Filling
<1> HIDE DEF t
<1>8. /\ DOMAIN r = {"pt", "v"} /\ r.v = e.v /\ DOMAIN r.pt = Ports
      /\ r.pt[p] = t /\ \A q \in Ports : q # p => r.pt[q] = e.pt[q]
  <2>1. r = [e EXCEPT !.pt[p] = t]
    BY DEF Ready, e, t
  <2> HIDE DEF r
  <2> QED
    BY <1>1, <1>6, <2>1 DEF Walking
<1> HIDE DEF r
<1>9. Walking(r)
  BY <1>6, <1>7, <1>8 DEF Walking
<1> QED
  BY <1>3, <1>4, <1>5, <1>6, <1>8, <1>9 DEF a, r, t

LEMMA ProcessedIs ==
  ASSUME CountsDiffer, PubTyped, FlowInv, StateTyped(v), NEW p, NEW n, NEW d, Arrival(p, n, d),
         ~Quarantines(p, d)
  PROVE  LET r == Ready(p, d)
             s == Processed(p, d)
         IN  /\ Walking(s) /\ s.pt[p].era = d.rc /\ s.pt[p].eraPos # 0
             /\ s.pt[p].buf = Stays(p, d) \ Popped(p, d)
             /\ \A a \in s.pt[p].accepted :
                  \/ ~Advances(p, d) /\ a \in pt[p].accepted
                  \/ \E h \in Popped(p, d) : h.seq = a.seq
             /\ \A q \in Ports : q # p => Alike(pt[q], s.pt[q])
             /\ p = "snapshot" => Kept(r.v, s.v)
<1> DEFINE r == Ready(p, d)
           s == Processed(p, d)
           t == Filled(p, d)
<1>1. p \in Ports
  BY DEF Arrival
<1>2. /\ Walking(r) /\ r.pt[p] = t
      /\ \A q \in Ports : q # p => Alike(pt[q], r.pt[q])
  BY ReadyIs
<1>3. /\ t.era = d.rc /\ t.eraPos # 0
      /\ t.accepted = IF Advances(p, d) THEN {} ELSE pt[p].accepted
      /\ Popped(p, d) \subseteq Stays(p, d) /\ t.buf = Stays(p, d) \ Popped(p, d)
      /\ \A i \in Stays(p, d) : FrameFrom(p, i) /\ Whole(i) /\ i.rc = d.rc
  BY Filling
<1>4. s = Walk(p, r, Popped(p, d))
  BY ProcessedAs
<1> HIDE DEF r, s, t
<1>5. \A i \in Popped(p, d) : Whole(i) /\ MessagesTyped(p, i.body.msgs)
  BY <1>3 DEF FrameFrom
<1>6. Walking(s) /\ Beside(p, r, s) /\ Accepts(p, r, s, Popped(p, d))
  BY <1>1, <1>2, <1>4, <1>5, WalkKeeps
<1>7. /\ s.pt[p].era = d.rc /\ s.pt[p].eraPos # 0
      /\ s.pt[p].buf = Stays(p, d) \ Popped(p, d)
  BY <1>2, <1>3, <1>6 DEF Beside
<1>8. \A a \in s.pt[p].accepted :
        \/ ~Advances(p, d) /\ a \in pt[p].accepted
        \/ \E h \in Popped(p, d) : h.seq = a.seq
  BY <1>2, <1>3, <1>6 DEF Accepts
<1>9. /\ \A q \in Ports : q # p => Alike(pt[q], s.pt[q])
      /\ p = "snapshot" => Kept(r.v, s.v)
  BY <1>2, <1>6 DEF Beside
<1> QED
  BY <1>6, <1>7, <1>8, <1>9 DEF r, s

(* The era order keeps its types. *)
LEMMA EntersTyped ==
  ASSUME pos \in [ResetCounts -> Nat], next \in Nat, NEW p, NEW d, d.rc \in ResetCounts,
         EntersFor(p, d)
  PROVE  pos' \in [ResetCounts -> Nat] /\ next' \in Nat
<1>1. (\E from : Enter(d.rc, from)) \/ UNCHANGED <<pos, next>>
  BY DEF EntersFor
<1> QED
  BY <1>1 DEF Enter

(* The ports that received nothing, and a port that dropped what it did. *)
LEMMA PortsRest ==
  ASSUME FlowInv, Quiet, NetInv', NEW Q, Q \subseteq Ports,
         \A m \in DOMAIN net' : \E j \in DOMAIN net : net'[m] = net[j],
         \A q \in Q : Alike(pt[q], pt'[q])
  PROVE  \A q \in Q :
           /\ \A i \in pt'[q].buf :
                /\ FrameFrom(q, i)' /\ Whole(i) /\ i.rc = pt'[q].era
                /\ \A m \in OfPort(q)' : Earlier(i, net'[m])
                /\ \A j \in pt'[q].buf : i.seq = j.seq => i = j
           /\ TrackerTyped(pt'[q])
           /\ pt'[q].eraPos = 0 => pt'[q].buf = {} /\ pt'[q].accepted = {}
           /\ pt'[q].eraPos # 0 => \E e \in 0 .. feedEra' : pt'[q].era = ResetCountOf(e)
           /\ \A a \in pt'[q].accepted :
                /\ a.seq \in Nat /\ (pt'[q].era = ResetCountOf(feedEra') => a.seq < sent'[q])
                /\ \A i \in pt'[q].buf : a.seq < i.seq
                /\ \A m \in OfPort(q)' : net'[m].rc = pt'[q].era => a.seq < net'[m].seq
<1> SUFFICES ASSUME NEW q \in Q
             PROVE  /\ \A i \in pt'[q].buf :
                         /\ FrameFrom(q, i)' /\ Whole(i) /\ i.rc = pt'[q].era
                         /\ \A m \in OfPort(q)' : Earlier(i, net'[m])
                         /\ \A j \in pt'[q].buf : i.seq = j.seq => i = j
                    /\ TrackerTyped(pt'[q])
                    /\ pt'[q].eraPos = 0 => pt'[q].buf = {} /\ pt'[q].accepted = {}
                    /\ pt'[q].eraPos # 0 => \E e \in 0 .. feedEra' : pt'[q].era = ResetCountOf(e)
                    /\ \A a \in pt'[q].accepted :
                         /\ a.seq \in Nat /\ (pt'[q].era = ResetCountOf(feedEra') => a.seq < sent'[q])
                         /\ \A i \in pt'[q].buf : a.seq < i.seq
                         /\ \A m \in OfPort(q)' : net'[m].rc = pt'[q].era => a.seq < net'[m].seq
  OBVIOUS
<1>1. q \in Ports /\ feedEra' = feedEra /\ sent' = sent
  BY DEF Quiet
<1>2. PICK t : t = pt'[q]
  OBVIOUS
<1>3. Alike(pt[q], t)
  BY <1>2
<1>4. t.era = pt[q].era /\ t.eraPos = pt[q].eraPos /\ t.buf = pt[q].buf /\ t.accepted = pt[q].accepted
  BY <1>3 DEF Alike
<1>5. \A m \in OfPort(q)' : \E j \in OfPort(q) : net'[m] = net[j]
  BY DEF OfPort
<1>6. \A x : FrameFrom(q, x) <=> FrameFrom(q, x)'
  BY QuietKeeps
<1>7. \A i \in t.buf : /\ FrameFrom(q, i)' /\ Whole(i) /\ i.rc = t.era
                       /\ \A m \in OfPort(q)' : Earlier(i, net'[m])
                       /\ \A j \in t.buf : i.seq = j.seq => i = j
  BY <1>1, <1>4, <1>5, <1>6 DEF FlowInv, BufferInv
<1>8. /\ TrackerTyped(pt[q])
      /\ pt[q].eraPos = 0 => pt[q].buf = {} /\ pt[q].accepted = {}
      /\ pt[q].eraPos # 0 => \E e \in 0 .. feedEra : pt[q].era = ResetCountOf(e)
      /\ \A a \in pt[q].accepted :
           /\ a.seq \in Nat /\ (pt[q].era = ResetCountOf(feedEra) => a.seq < sent[q])
           /\ \A i \in pt[q].buf : a.seq < i.seq
           /\ \A j \in OfPort(q) : net[j].rc = pt[q].era => a.seq < net[j].seq
  BY <1>1 DEF FlowInv, IntakeInv
<1>9. TrackerTyped(t)
  BY <1>3, <1>8 DEF Alike
<1>10. \A a \in t.accepted : \A m \in OfPort(q)' : net'[m].rc = t.era => a.seq < net'[m].seq
  BY <1>4, <1>5, <1>8
<1> QED
  BY <1>1, <1>2, <1>4, <1>7, <1>8, <1>9, <1>10

LEMMA FlowReceived ==
  ASSUME CountsDiffer, PubTyped, FlowInv, StateTyped(v), Quiet,
         NEW n \in DOMAIN net, net' = RemoveAt(net, n),
         NEW p, p = net[n].port, NEW d, Arrival(p, n, d), Receives(p, d)
  PROVE  FlowInv'
<1> DEFINE s == Processed(p, d)
<1>1. ~Quarantines(p, d) /\ pt' = s.pt /\ EntersFor(p, d)
  BY DEF Receives
<1>2. /\ Walking(s) /\ s.pt[p].era = d.rc /\ s.pt[p].eraPos # 0
      /\ s.pt[p].buf = Stays(p, d) \ Popped(p, d)
      /\ \A a \in s.pt[p].accepted :
           \/ ~Advances(p, d) /\ a \in pt[p].accepted
           \/ \E h \in Popped(p, d) : h.seq = a.seq
      /\ \A q \in Ports : q # p => Alike(pt[q], s.pt[q])
  BY <1>1, ProcessedIs
<1> HIDE DEF s
<1>3. PICK t : t = pt'[p]
  OBVIOUS
<1>4. /\ TrackerTyped(t) /\ t.era = d.rc /\ t.eraPos # 0
      /\ t.buf = Stays(p, d) \ Popped(p, d)
      /\ \A a \in t.accepted :
           \/ ~Advances(p, d) /\ a \in pt[p].accepted
           \/ \E h \in Popped(p, d) : h.seq = a.seq
      /\ p \in Ports
  BY <1>1, <1>2, <1>3 DEF Walking, Arrival
<1>5. DOMAIN pt' = Ports /\ \A q \in Ports : q # p => Alike(pt[q], pt'[q])
  BY <1>1, <1>2 DEF Walking
<1>6. /\ NetInv' /\ \A m \in DOMAIN net' : \E j \in DOMAIN net : j # n /\ net'[m] = net[j]
  BY NetShrinks DEF FlowInv
<1>7. /\ Popped(p, d) \subseteq Stays(p, d)
      /\ \A h \in Popped(p, d) : \A i \in Stays(p, d) \ Popped(p, d) : h.seq < i.seq
      /\ \A i, j \in Stays(p, d) : i.seq = j.seq => i = j
      /\ \A i \in Stays(p, d) : FrameFrom(p, i) /\ Whole(i) /\ i.rc = d.rc
      /\ \A a \in pt[p].accepted : ~Advances(p, d) => \A i \in Stays(p, d) : a.seq < i.seq
  BY <1>1, Filling
<1>8. \A m \in OfPort(p)' : /\ \E j \in OfPort(p) \ {n} : net'[m] = net[j]
                            /\ FrameFrom(p, net'[m])
                            /\ Earlier(d, net'[m])
  <2>1. \A m \in OfPort(p)' : \E j \in OfPort(p) \ {n} : net'[m] = net[j]
    BY <1>6 DEF OfPort
  <2>2. \A j \in OfPort(p) : FrameFrom(p, net[j])
    BY DEF FlowInv, NetInv, OfPort
  <2> QED
    BY <2>1, <2>2 DEF Arrival
<1>9. \A i \in Stays(p, d) : \A m \in OfPort(p)' : Earlier(i, net'[m])
  <2>1. \A i \in pt[p].buf : \A j \in OfPort(p) : Earlier(i, net[j])
    BY <1>4 DEF FlowInv, BufferInv
  <2>2. Era(Buffered(d)) = Era(d) /\ Buffered(d).seq = d.seq
    BY BufferedIs DEF Arrival
  <2>3. \A x : Earlier(d, x) => Earlier(Buffered(d), x)
    BY <2>2 DEF Earlier
  <2> QED
    BY <1>8, <2>1, <2>3 DEF Stays
<1>10. feedEra' = feedEra /\ sent' = sent
  BY DEF Quiet
<1>11. \A x : FrameFrom(p, x) <=> FrameFrom(p, x)'
  BY QuietKeeps
<1>12. \A i \in t.buf : /\ FrameFrom(p, i)' /\ Whole(i) /\ i.rc = t.era
                        /\ \A m \in OfPort(p)' : Earlier(i, net'[m])
                        /\ \A j \in t.buf : i.seq = j.seq => i = j
  BY <1>4, <1>7, <1>9, <1>11
<1>13. \E e \in 0 .. feedEra : t.era = ResetCountOf(e)
  BY <1>4 DEF Arrival, FrameFrom, Numbered
<1>14. ASSUME NEW a \in t.accepted
       PROVE  /\ a.seq \in Nat /\ (t.era = ResetCountOf(feedEra) => a.seq < sent[p])
              /\ \A i \in t.buf : a.seq < i.seq
              /\ \A m \in OfPort(p)' : net'[m].rc = t.era => a.seq < net'[m].seq
  <2>1. CASE ~Advances(p, d) /\ a \in pt[p].accepted
    <3>1. pt[p].era = d.rc
      <4>1. pt[p].eraPos # 0
        BY <1>4, <2>1 DEF FlowInv, IntakeInv
      <4> QED
        BY <1>1, <2>1, <4>1 DEF Advances, OtherEra
    <3>2. /\ a.seq \in Nat /\ (pt[p].era = ResetCountOf(feedEra) => a.seq < sent[p])
          /\ \A j \in OfPort(p) : net[j].rc = pt[p].era => a.seq < net[j].seq
      BY <1>4, <2>1 DEF FlowInv, IntakeInv
    <3>3. \A i \in t.buf : a.seq < i.seq
      BY <1>4, <1>7, <2>1
    <3>4. \A m \in OfPort(p)' : net'[m].rc = t.era => a.seq < net'[m].seq
      BY <1>4, <1>8, <3>1, <3>2
    <3> QED
      BY <1>4, <3>1, <3>2, <3>3, <3>4
  <2>2. CASE \E h \in Popped(p, d) : h.seq = a.seq
    <3>1. PICK h \in Popped(p, d) : h.seq = a.seq
      BY <2>2
    <3>2. FrameFrom(p, h) /\ h.rc = d.rc /\ h \in Stays(p, d)
      BY <1>7
    <3>3. h.seq \in Nat /\ h.rc = ResetCountOf(Era(h)) /\ Era(h) \in 0 .. feedEra
          /\ (Era(h) = feedEra => h.seq < sent[p])
      BY <3>2 DEF FrameFrom, Numbered
    <3>4. t.era = ResetCountOf(feedEra) => h.seq < sent[p]
      <4>1. feedEra \in 0 .. feedEra
        BY CountsNat
      <4> QED
        BY <1>4, <3>2, <3>3, <4>1, SameCount
    <3>5. \A i \in t.buf : h.seq < i.seq
      BY <1>4, <1>7
    <3>6. \A m \in OfPort(p)' : net'[m].rc = t.era => h.seq < net'[m].seq
      BY <1>4, <1>8, <1>9, <3>2, SeqLess
    <3> QED
      BY <3>1, <3>3, <3>4, <3>5, <3>6
  <2> QED
    BY <1>4, <2>1, <2>2
<1>15. pos' \in [ResetCounts -> Nat] /\ next' \in Nat
  BY <1>1, EntersTyped DEF FlowInv, IntakeInv, Arrival
<1>16. \A q \in Ports \ {p} :
         /\ \A i \in pt'[q].buf :
              /\ FrameFrom(q, i)' /\ Whole(i) /\ i.rc = pt'[q].era
              /\ \A m \in OfPort(q)' : Earlier(i, net'[m])
              /\ \A j \in pt'[q].buf : i.seq = j.seq => i = j
         /\ TrackerTyped(pt'[q])
         /\ pt'[q].eraPos = 0 => pt'[q].buf = {} /\ pt'[q].accepted = {}
         /\ pt'[q].eraPos # 0 => \E e \in 0 .. feedEra' : pt'[q].era = ResetCountOf(e)
         /\ \A a \in pt'[q].accepted :
              /\ a.seq \in Nat /\ (pt'[q].era = ResetCountOf(feedEra') => a.seq < sent'[q])
              /\ \A i \in pt'[q].buf : a.seq < i.seq
              /\ \A m \in OfPort(q)' : net'[m].rc = pt'[q].era => a.seq < net'[m].seq
  <2>1. \A m \in DOMAIN net' : \E j \in DOMAIN net : net'[m] = net[j]
    BY <1>6
  <2>2. \A q \in Ports \ {p} : Alike(pt[q], pt'[q])
    BY <1>5
  <2> QED
    BY <1>6, <2>1, <2>2, PortsRest
<1>17. BufferInv'
  BY <1>3, <1>12, <1>16 DEF BufferInv, Earlier, Era
<1>18. IntakeInv'
  BY <1>3, <1>4, <1>5, <1>10, <1>13, <1>14, <1>15, <1>16 DEF IntakeInv
<1> QED
  BY <1>6, <1>17, <1>18 DEF FlowInv

LEMMA FlowDropped ==
  ASSUME CountsDiffer, PubTyped, FlowInv, Quiet,
         NEW n \in DOMAIN net, net' = RemoveAt(net, n),
         NEW p \in Ports, NEW d, Quarantine(p, d)
  PROVE  FlowInv' /\ \A q \in Ports : Alike(pt[q], pt'[q])
<1>1. pt' = [pt EXCEPT ![p].stragglers = @ + 1] /\ UNCHANGED <<pos, next>>
  BY DEF Quarantine
<1>2. DOMAIN pt = Ports /\ (\A q \in Ports : TrackerTyped(pt[q]))
      /\ pos \in [ResetCounts -> Nat] /\ next \in Nat
  BY DEF FlowInv, IntakeInv
<1>3. DOMAIN pt' = Ports /\ \A q \in Ports : Alike(pt[q], pt'[q])
  BY <1>1, <1>2 DEF TrackerTyped, TrackerFields, Alike
<1>4. /\ NetInv' /\ \A m \in DOMAIN net' : \E j \in DOMAIN net : net'[m] = net[j]
  BY NetShrinks DEF FlowInv
<1>5. \A q \in Ports :
         /\ \A i \in pt'[q].buf :
              /\ FrameFrom(q, i)' /\ Whole(i) /\ i.rc = pt'[q].era
              /\ \A m \in OfPort(q)' : Earlier(i, net'[m])
              /\ \A j \in pt'[q].buf : i.seq = j.seq => i = j
         /\ TrackerTyped(pt'[q])
         /\ pt'[q].eraPos = 0 => pt'[q].buf = {} /\ pt'[q].accepted = {}
         /\ pt'[q].eraPos # 0 => \E e \in 0 .. feedEra' : pt'[q].era = ResetCountOf(e)
         /\ \A a \in pt'[q].accepted :
              /\ a.seq \in Nat /\ (pt'[q].era = ResetCountOf(feedEra') => a.seq < sent'[q])
              /\ \A i \in pt'[q].buf : a.seq < i.seq
              /\ \A m \in OfPort(q)' : net'[m].rc = pt'[q].era => a.seq < net'[m].seq
  BY <1>3, <1>4, PortsRest
<1>6. BufferInv'
  BY <1>5 DEF BufferInv, Earlier, Era
<1>7. IntakeInv'
  BY <1>1, <1>2, <1>3, <1>5 DEF IntakeInv
<1> QED
  BY <1>3, <1>4, <1>6, <1>7 DEF FlowInv

-----------------------------------------------------------------------------
(* A frame handed over and the truth.                                      *)
LEMMA FramesApart ==
  ASSUME NEW S, NEW T
  PROVE  FramesOf(S \cup T) = FramesOf(S) \cup FramesOf(T)
BY DEF FramesOf

(* What a port has not classified, with the frame that is handed over. *)
LEMMA PendingWith ==
  ASSUME NEW n \in DOMAIN net, NEW p, p = net[n].port,
         NEW d, d.rc = net[n].rc, d.seq = net[n].seq, d.body = net[n].body
  PROVE  /\ Pending(p) = FramesOf(pt[p].buf) \cup Others(p, n) \cup {Frame(d)}
         /\ \A q : q # p => Pending(q) = FramesOf(pt[q].buf) \cup Others(q, n)
<1>1. Frame(d) = Frame(net[n])
  BY DEF Frame, Era
<1>2. \A q : Pending(q) = FramesOf(pt[q].buf) \cup {Frame(net[j]) : j \in OfPort(q)}
  BY DEF Pending, FramesOf
<1>3. {Frame(net[j]) : j \in OfPort(p)} = Others(p, n) \cup {Frame(d)}
  BY <1>1 DEF Others, OfPort
<1>4. \A q : q # p => {Frame(net[j]) : j \in OfPort(q)} = Others(q, n)
  BY DEF Others, OfPort
<1>5. Pending(p) = FramesOf(pt[p].buf) \cup {Frame(net[j]) : j \in OfPort(p)}
  BY <1>2
<1>6. Pending(p) = FramesOf(pt[p].buf) \cup Others(p, n) \cup {Frame(d)}
  BY <1>3, <1>5
<1> QED
  BY <1>2, <1>4, <1>6

(* The frames in their order. *)
LEMMA Ordered ==
  ASSUME FlowInv, NEW p \in Ports, NEW q \in Ports, NEW x, FrameFrom(p, x), NEW y, FrameFrom(q, y),
         Earlier(x, y)
  PROVE  /\ Frame(x).era = Frame(y).era => Frame(x).seq < Frame(y).seq
         /\ Frame(x).era \in Int /\ Frame(y).era \in Int /\ Frame(x).era <= Frame(y).era
         /\ Frame(x).seq \in Nat /\ Frame(y).seq \in Nat
         /\ Frame(x).era = Era(x) /\ Frame(y).era = Era(y)
         /\ Frame(x).seq = x.seq /\ Frame(y).seq = y.seq
<1>1. /\ Frame(x).era = Era(x) /\ Frame(y).era = Era(y)
      /\ Frame(x).seq = x.seq /\ Frame(y).seq = y.seq
  BY DEF Frame
<1>2. Era(x) \in Int /\ Era(y) \in Int /\ x.seq \in Nat /\ y.seq \in Nat
  BY DEF FrameFrom, Numbered
<1>3. Era(x) < Era(y) \/ (Era(x) = Era(y) /\ x.seq < y.seq)
  BY DEF Earlier
<1> QED
  BY <1>1, <1>2, <1>3

LEMMA DroppedTruth ==
  ASSUME CountsDiffer, PubTyped, FlowInv, StateTyped(v), Sayings(Pending("mktdata")), Truth,
         NEW n \in DOMAIN net, NEW p, p = "mktdata", p = net[n].port,
         NEW d, d.rc = net[n].rc, d.seq = net[n].seq, d.body = net[n].body,
         Arrival(p, n, d), Quarantines(p, d),
         NEW E, E = FramesOf(pt[p].buf) \cup Others(p, n)
  PROVE  TruthOn(v, E)
<1>1. PICK x : x = Frame(d)
  OBVIOUS
<1>2. Pending(p) = E \cup {x}
  BY <1>1, PendingWith
<1>3. TruthOn(v, E \cup {x}) /\ Sayings(E \cup {x})
  BY <1>2 DEF Truth
<1>4. p \in Ports /\ FrameFrom(p, d)
  BY DEF Arrival
<1>5. \A i \in pt[p].buf : FrameFrom(p, i) /\ i.rc = pt[p].era /\ i.rc = ResetCountOf(Era(i))
  BY <1>4 DEF FlowInv, BufferInv, FrameFrom, Numbered
<1>6. d.rc # pt[p].era /\ d.rc = ResetCountOf(Era(d))
  BY <1>4 DEF Quarantines, Late, FrameFrom, Numbered
<1>7. x.era = Era(d) /\ x.seq = d.seq /\ d.seq \in Nat
  BY <1>1, <1>4 DEF Frame, FrameFrom, Numbered
<1>8. \A j \in OfPort(p) : FrameFrom(p, net[j])
  BY DEF FlowInv, NetInv, OfPort
<1>9. Foremost(x, E) /\ \A y \in E : y.seq \in Nat
  <2> SUFFICES ASSUME NEW y \in E PROVE y.seq \in Nat /\ (x.era = y.era => x.seq < y.seq)
    BY DEF Foremost
  <2>1. CASE y \in FramesOf(pt[p].buf)
    <3>1. PICK i \in pt[p].buf : y = Frame(i)
      BY <2>1 DEF FramesOf
    <3>2. y.era = Era(i) /\ y.seq = i.seq /\ i.seq \in Nat
      BY <1>5, <3>1 DEF Frame, FrameFrom, Numbered
    <3> QED
      BY <1>5, <1>6, <1>7, <3>2
  <2>2. CASE y \in Others(p, n)
    <3>1. PICK j \in OfPort(p) \ {n} : y = Frame(net[j])
      BY <2>2 DEF Others
    <3>2. Earlier(d, net[j]) /\ FrameFrom(p, net[j])
      BY <1>8 DEF Arrival
    <3> QED
      BY <1>1, <1>4, <3>1, <3>2, Ordered
  <2> QED
    BY <2>1, <2>2
<1>10. In(v) => \A i \in Instruments : ~v.instr[i].trusted
  <2> SUFFICES ASSUME In(v) PROVE \A i \in Instruments : ~v.instr[i].trusted
    OBVIOUS
  <2>1. x.era = feedEra
    BY <1>3 DEF TruthOn
  <2>2. Unheard(pt[p])
    BY <1>6, <1>7, <2>1 DEF Unheard
  <2>3. \A i \in Instruments : v.instr[i].last = Nil
    BY <2>2 DEF Truth
  <2> QED
    BY <2>3 DEF StateTyped, InstrTyped
<1>11. x.seq \in Nat
  BY <1>7
<1> QED
  BY <1>3, <1>9, <1>10, <1>11, HeadDropped

(* A frame of mktdata, with what it makes the port classify. *)
LEMMA MktdataReceived ==
  ASSUME CountsDiffer, PubTyped, FlowInv, StateTyped(v), Sayings(Pending("mktdata")), Truth,
         NEW n \in DOMAIN net, NEW p, p = "mktdata", p = net[n].port,
         NEW d, d.rc = net[n].rc, d.seq = net[n].seq, d.body = net[n].body,
         Arrival(p, n, d), ~Quarantines(p, d),
         NEW E, E = FramesOf(Stays(p, d) \ Popped(p, d)) \cup Others(p, n)
  PROVE  LET s == Processed(p, d)
         IN  TruthOn(s.v, E) /\ (In(s.v) => d.rc = ResetCountOf(feedEra))
<1> DEFINE a == Cleared(p, d)
           r == Ready(p, d)
           s == Processed(p, d)
           stay == pt[p].buf \ Leaving(p, d)
<1>1. PICK x : x = Frame(d)
  OBVIOUS
<1>2. PICK F : F = FramesOf(Stays(p, d)) \cup Others(p, n)
  OBVIOUS
<1>3. /\ p \in Ports /\ FrameFrom(p, d)
      /\ \A i \in pt[p].buf : Earlier(i, d)
      /\ \A j \in OfPort(p) \ {n} : Earlier(d, net[j])
  BY DEF Arrival
<1>4. Frame(Buffered(d)) = x /\ Era(Buffered(d)) = Era(d) /\ Buffered(d).seq = d.seq
  BY <1>1, <1>3, BufferedIs
<1>5. F = FramesOf(stay) \cup Others(p, n) \cup {x}
  <2>1. FramesOf({Buffered(d)}) = {x}
    BY <1>4 DEF FramesOf
  <2>2. FramesOf(Stays(p, d)) = FramesOf(stay) \cup {x}
    BY <2>1, FramesApart DEF Stays
  <2> QED
    BY <1>2, <2>2
<1>6. Pending(p) = F \cup FramesOf(Leaving(p, d)) /\ x \in F
  <2>1. Leaving(p, d) \subseteq pt[p].buf
    BY DEF Leaving
  <2>2. pt[p].buf = stay \cup Leaving(p, d)
    BY <2>1
  <2>3. FramesOf(pt[p].buf) = FramesOf(stay) \cup FramesOf(Leaving(p, d))
    BY <2>2, FramesApart
  <2>4. Pending(p) = FramesOf(pt[p].buf) \cup Others(p, n) \cup {x}
    BY <1>1, PendingWith
  <2> QED
    BY <1>5, <2>3, <2>4
<1>7. F = E \cup FramesOf(Popped(p, d)) /\ E \subseteq F
  <2>1. Popped(p, d) \subseteq Stays(p, d)
    BY Filling
  <2>2. Stays(p, d) = (Stays(p, d) \ Popped(p, d)) \cup Popped(p, d)
    BY <2>1
  <2>3. FramesOf(Stays(p, d)) = FramesOf(Stays(p, d) \ Popped(p, d)) \cup FramesOf(Popped(p, d))
    BY <2>2, FramesApart
  <2> QED
    BY <1>2, <2>3
<1>8. /\ \A j \in OfPort(p) : FrameFrom(p, net[j])
      /\ \A i \in pt[p].buf : FrameFrom(p, i) /\ \A j \in OfPort(p) : Earlier(i, net[j])
  BY <1>3 DEF FlowInv, NetInv, BufferInv, OfPort
<1>9. \A y \in Others(p, n) : \E j \in OfPort(p) \ {n} : y = Frame(net[j])
  BY DEF Others
<1>10. Sayings(F \cup FramesOf(Leaving(p, d))) /\ TruthOn(v, F \cup FramesOf(Leaving(p, d)))
  BY <1>6 DEF Truth
(* The items of the old era. *)
<1>11. TruthOn(a.v, F) /\ a.v.resetEra = v.resetEra
  <2>1. Walking(Start) /\ Start.pt = pt /\ Start.v = v
    BY StartIs
  <2>2. a = Walk(p, Start, Leaving(p, d))
    BY ReadyIs
  <2>3. \A i \in Leaving(p, d) :
          /\ Whole(i) /\ MessagesTyped(p, i.body.msgs) /\ i.seq \in 0 .. MaxSeq
          /\ \A j \in Leaving(p, d) : i.seq = j.seq => i = j
          /\ \A c \in Start.pt[p].accepted : c.seq # i.seq
    <3>1. \A i \in pt[p].buf :
            /\ Whole(i) /\ MessagesTyped(p, i.body.msgs) /\ i.seq \in 0 .. MaxSeq
            /\ \A j \in pt[p].buf : i.seq = j.seq => i = j
            /\ \A c \in pt[p].accepted : c.seq \in Nat /\ c.seq < i.seq
      BY <1>3 DEF FlowInv, BufferInv, IntakeInv, FrameFrom, Numbered
    <3>2. \A i \in pt[p].buf : \A c \in pt[p].accepted : c.seq # i.seq
      BY <3>1
    <3>3. Leaving(p, d) \subseteq pt[p].buf
      BY DEF Leaving
    <3> QED
      BY <2>1, <3>1, <3>2, <3>3
  <2>4. \A y \in F : y.seq \in Nat /\ \A i \in Leaving(p, d) : Era(i) = y.era => i.seq < y.seq
    <3> SUFFICES ASSUME NEW y \in F
                 PROVE  y.seq \in Nat /\ \A i \in Leaving(p, d) : Era(i) = y.era => i.seq < y.seq
      OBVIOUS
    <3>1. \A i \in Leaving(p, d) : i \in pt[p].buf /\ stay = {}
      BY DEF Leaving
    <3>2. CASE y \in FramesOf(stay)
      <4>1. Leaving(p, d) = {}
        BY <3>1, <3>2 DEF FramesOf
      <4>2. PICK i \in pt[p].buf : y = Frame(i)
        BY <3>2 DEF FramesOf
      <4> QED
        BY <1>8, <4>1, <4>2 DEF Frame, FrameFrom, Numbered
    <3>3. CASE y \in Others(p, n)
      <4>1. PICK j \in OfPort(p) \ {n} : y = Frame(net[j])
        BY <1>9, <3>3
      <4>2. y.seq \in Nat
        BY <1>8, <4>1 DEF Frame, FrameFrom, Numbered
      <4>3. \A i \in Leaving(p, d) : Earlier(i, net[j]) /\ FrameFrom(p, i) /\ FrameFrom(p, net[j])
        BY <1>8, <3>1
      <4>4. \A i \in Leaving(p, d) : Era(i) = y.era => i.seq < y.seq
        BY <1>3, <4>1, <4>3, Ordered
      <4> QED
        BY <4>2, <4>4
    <3>4. CASE y = x
      <4>1. y.seq \in Nat
        BY <1>1, <1>3, <3>4 DEF Frame, FrameFrom, Numbered
      <4>2. \A i \in Leaving(p, d) : Earlier(i, d) /\ FrameFrom(p, i)
        BY <1>3, <1>8, <3>1
      <4>3. \A i \in Leaving(p, d) : Era(i) = y.era => i.seq < y.seq
        BY <1>1, <1>3, <3>4, <4>2, Ordered
      <4> QED
        BY <4>1, <4>3
    <3> QED
      BY <1>5, <3>2, <3>3, <3>4
  <2> HIDE DEF a
  <2>5. Batch(Leaving(p, d), Start.pt["mktdata"].accepted) /\ Ahead(Leaving(p, d), F)
    BY <2>3, <2>4 DEF Batch, Ahead
  <2>6. /\ Sayings(F \cup FramesOf(Leaving(p, d)))
        /\ TruthOn(Start.v, F \cup FramesOf(Leaving(p, d)))
    BY <1>10, <2>1
  <2>7. /\ TruthOn(Walk("mktdata", Start, Leaving(p, d)).v, F)
        /\ Walk("mktdata", Start, Leaving(p, d)).v.resetEra = Start.v.resetEra
    BY <2>1, <2>5, <2>6, BatchIsTrue
  <2> QED
    BY <2>1, <2>2, <2>7
(* The wipe. *)
<1>12. /\ Walking(r) /\ r.pt[p] = Filled(p, d)
       /\ \/ r.v = a.v
          \/ Advances(p, d) /\ r.v = Wipe(a.v, d.rc)
  BY ReadyIs
<1> HIDE DEF a, r
<1>13. Sayings(F) /\ Sayings(E)
  BY <1>7, <1>10, SayingsLess
<1>14. x.era = Era(d) /\ Era(d) \in 0 .. feedEra /\ d.rc = ResetCountOf(Era(d)) /\ feedEra \in Nat
  BY <1>1, <1>3, CountsNat DEF Frame, FrameFrom, Numbered
<1>15. TruthOn(r.v, F) /\ (In(r.v) => d.rc = ResetCountOf(feedEra))
  <2>1. CASE r.v = a.v
    <3>1. In(r.v) => x.era = feedEra
      BY <1>6, <1>11, <2>1 DEF TruthOn
    <3> QED
      BY <1>11, <1>14, <2>1, <3>1
  <2>2. CASE Advances(p, d) /\ r.v = Wipe(a.v, d.rc)
    <3>1. /\ r.v.resetEra = d.rc
          /\ \A i \in Instruments : r.v.instr[i] = NewInstr /\ r.v.books[i] = NewBook
      BY <2>2, WipeTold
    <3>2. In(r.v) => Era(d) = feedEra
      <4>1. d.rc # Nil
        <5>1. Era(d) \in 0 .. plan.resets
          BY <1>14, CountsNat DEF PubTyped
        <5> QED
          BY <1>14, <5>1, NoRcIsNil
      <4>2. In(r.v) => d.rc = ResetCountOf(feedEra)
        BY <3>1, <4>1 DEF In
      <4>3. feedEra \in 0 .. feedEra
        BY <1>14
      <4> QED
        BY <1>14, <4>2, <4>3, SameCount
    <3>3. ASSUME Era(d) = feedEra, NEW y \in F PROVE y.era = feedEra
      <4>1. stay = {} /\ FramesOf({}) = {}
        BY <2>2 DEF Leaving, FramesOf
      <4>2. CASE y = x
        BY <1>14, <3>3, <4>2
      <4>3. CASE y \in Others(p, n)
        <5>1. PICK j \in OfPort(p) \ {n} : y = Frame(net[j])
          BY <1>9, <4>3
        <5>2. Earlier(d, net[j]) /\ FrameFrom(p, net[j])
          BY <1>3, <1>8
        <5>3. Frame(d).era <= y.era /\ y.era \in Int /\ Frame(d).era = Era(d) /\ y.era = Era(net[j])
          BY <1>3, <5>1, <5>2, Ordered
        <5>4. Era(net[j]) \in 0 .. feedEra
          BY <5>2 DEF FrameFrom, Numbered
        <5> QED
          BY <1>14, <3>3, <5>3, <5>4
      <4> QED
        BY <1>5, <4>1, <4>2, <4>3
    <3>4. TruthOn(r.v, F)
      BY <1>11, <1>13, <1>14, <3>1, <3>2, <3>3, WipedTruth
    <3> QED
      BY <1>14, <3>2, <3>4
  <2> QED
    BY <1>12, <2>1, <2>2
(* The item the window pops. *)
<1>16. TruthOn(s.v, E) /\ s.v.resetEra = r.v.resetEra
  <2>1. s = Walk(p, r, Popped(p, d))
    BY ProcessedAs DEF r
  <2>2. /\ Popped(p, d) \subseteq Stays(p, d) /\ Filled(p, d).buf = Stays(p, d) \ Popped(p, d)
        /\ \A h \in Popped(p, d) : \A i \in Filled(p, d).buf : h.seq < i.seq
        /\ \A i, j \in Stays(p, d) : i.seq = j.seq => i = j
        /\ \A i \in Stays(p, d) : FrameFrom(p, i) /\ Whole(i) /\ i.rc = d.rc
        /\ \A c \in Filled(p, d).accepted : \A i \in Stays(p, d) : c.seq < i.seq
    BY Filling
  <2>3. \A i \in Stays(p, d) : MessagesTyped(p, i.body.msgs) /\ i.seq \in 0 .. MaxSeq
    BY <2>2 DEF FrameFrom, Numbered
  <2>4. \A i \in Popped(p, d) :
          /\ Whole(i) /\ MessagesTyped(p, i.body.msgs) /\ i.seq \in 0 .. MaxSeq
          /\ \A j \in Popped(p, d) : i.seq = j.seq => i = j
          /\ \A c \in r.pt[p].accepted : c.seq # i.seq
    <3>1. \A c \in r.pt[p].accepted : \A i \in Popped(p, d) : c.seq # i.seq
      <4>1. \A c \in r.pt[p].accepted : \A i \in Popped(p, d) : c.seq < i.seq /\ i.seq \in Int
        BY <1>12, <2>2, <2>3
      <4> QED
        BY <4>1
    <3> QED
      BY <2>2, <2>3, <3>1
  <2>5. \A y \in E : y.seq \in Nat /\ \A i \in Popped(p, d) : Era(i) = y.era => i.seq < y.seq
    <3> SUFFICES ASSUME NEW y \in E
                 PROVE  y.seq \in Nat /\ \A i \in Popped(p, d) : Era(i) = y.era => i.seq < y.seq
      OBVIOUS
    <3>1. CASE y \in FramesOf(Stays(p, d) \ Popped(p, d))
      <4>1. PICK i \in Stays(p, d) \ Popped(p, d) : y = Frame(i)
        BY <3>1 DEF FramesOf
      <4>2. y.seq = i.seq /\ i.seq \in Nat
        BY <2>3, <4>1 DEF Frame
      <4> QED
        BY <2>2, <4>2
    <3>2. CASE y \in Others(p, n)
      <4>1. PICK j \in OfPort(p) \ {n} : y = Frame(net[j])
        BY <1>9, <3>2
      <4>2. \A i \in Stays(p, d) : Earlier(i, net[j])
        <5>1. Earlier(Buffered(d), net[j])
          BY <1>3, <1>4 DEF Earlier
        <5> QED
          BY <1>8, <5>1 DEF Stays
      <4>3. y.seq \in Nat
        BY <1>8, <4>1 DEF Frame, FrameFrom, Numbered
      <4>4. \A i \in Popped(p, d) : Earlier(i, net[j]) /\ FrameFrom(p, i) /\ FrameFrom(p, net[j])
        BY <1>8, <2>2, <4>2
      <4>5. \A i \in Popped(p, d) : Era(i) = y.era => i.seq < y.seq
        BY <1>3, <4>1, <4>4, Ordered
      <4> QED
        BY <4>3, <4>5
    <3> QED
      BY <3>1, <3>2
  <2>6. Batch(Popped(p, d), r.pt["mktdata"].accepted) /\ Ahead(Popped(p, d), E)
    BY <2>4, <2>5 DEF Batch, Ahead
  <2>7. Sayings(E \cup FramesOf(Popped(p, d))) /\ TruthOn(r.v, E \cup FramesOf(Popped(p, d)))
    BY <1>7, <1>13, <1>15
  <2>8. /\ TruthOn(Walk("mktdata", r, Popped(p, d)).v, E)
        /\ Walk("mktdata", r, Popped(p, d)).v.resetEra = r.v.resetEra
    BY <1>12, <2>6, <2>7, BatchIsTrue
  <2> HIDE DEF s
  <2> QED
    BY <2>1, <2>8
<1> HIDE DEF s
<1>17. In(s.v) => d.rc = ResetCountOf(feedEra)
  BY <1>15, <1>16 DEF In
<1> QED
  BY <1>16, <1>17 DEF s

(* A frame handed over ahead of a frame of another era on another port. *)
LEMMA EraCrossed ==
  ASSUME NEW d, NEW X, NEW z \in X, Era(z) < Era(d), z.rc # d.rc
  PROVE  "era" \in Crossed(Overtakes({d}, X))
<1>1. Before(z.body.at, d.body.at)
  BY DEF Before, Era
<1>2. PICK pair : pair = <<d, z>>
  OBVIOUS
<1>3. pair \in {d} \X X /\ pair[1] = d /\ pair[2] = z
  BY <1>2
<1>4. pair \in Overtakes({d}, X)
  BY <1>1, <1>3 DEF Overtakes
<1> QED
  BY <1>3, <1>4 DEF Crossed

LEMMA WaitsOn ==
  ASSUME FlowInv, NEW q \in Ports, NEW y \in Pending(q)
  PROVE  \E z \in WaitingOn(q) : FrameFrom(q, z) /\ Era(z) = y.era
<1>1. ASSUME NEW x, FrameFrom(q, x), y = Frame(x), NEW S, x \in S
      PROVE  \E z \in Frames(S) : FrameFrom(q, z) /\ Era(z) = y.era
  <2>1. PICK z : z = [rc |-> x.rc, seq |-> x.seq, body |-> x.body]
    OBVIOUS
  <2>2. z \in Frames(S) /\ z.rc = x.rc /\ z.seq = x.seq /\ z.body = x.body
    BY <1>1, <2>1 DEF Frames
  <2>3. Era(z) = Era(x)
    BY <2>2 DEF Era
  <2>4. FrameFrom(q, z) /\ Era(z) = y.era
    BY <1>1, <2>2, <2>3 DEF FrameFrom, Numbered, Frame
  <2> QED
    BY <2>2, <2>4
<1>2. CASE y \in {Frame(i) : i \in pt[q].buf}
  <2>1. PICK i \in pt[q].buf : y = Frame(i)
    BY <1>2
  <2>2. FrameFrom(q, i)
    BY DEF FlowInv, BufferInv
  <2> QED
    BY <1>1, <2>1, <2>2 DEF WaitingOn
<1>3. CASE y \in {Frame(net[n]) : n \in OfPort(q)}
  <2>1. PICK n \in OfPort(q) : y = Frame(net[n])
    BY <1>3
  <2>2. FrameFrom(q, net[n]) /\ net[n] \in {x \in ToSet(net) : x.port = q}
    BY DEF FlowInv, NetInv, OfPort, ToSet
  <2> QED
    BY <1>1, <2>1, <2>2 DEF WaitingOn
<1> QED
  BY <1>2, <1>3 DEF Pending

(* A frame of snapshot, with what it makes the port classify: the frames   *)
(* of mktdata stay where they are. It may wipe the validator.              *)
LEMMA SnapshotReceived ==
  ASSUME CountsDiffer, PubTyped, FlowInv, StateTyped(v), Sayings(Pending("mktdata")), Truth,
         NEW n \in DOMAIN net, NEW p, p = "snapshot", p = net[n].port,
         NEW d, d.rc = net[n].rc, d.seq = net[n].seq, d.body = net[n].body,
         Arrival(p, n, d), ~Quarantines(p, d),
         Advances(p, d) =>
           "era" \notin Crossed(Overtakes({d}, UNION {WaitingOn(q) : q \in Ports \ {p}}))
  PROVE  LET s == Processed(p, d)
         IN  /\ TruthOn(s.v, Pending("mktdata"))
             /\ In(s.v) /\ Unheard(pt["mktdata"]) => \A i \in Instruments : s.v.instr[i].last = Nil
<1> DEFINE a == Cleared(p, d)
           r == Ready(p, d)
           s == Processed(p, d)
<1>1. PICK D : D = Pending("mktdata")
  OBVIOUS
<1>2. /\ Kept(v, a.v)
      /\ \/ r.v = a.v
         \/ Advances(p, d) /\ r.v = Wipe(a.v, d.rc)
  BY ReadyIs
<1>3. Kept(r.v, s.v)
  BY ProcessedIs
<1> HIDE DEF a, r, s
<1>4. /\ TruthOn(v, D) /\ Sayings(D)
      /\ In(v) /\ Unheard(pt["mktdata"]) => \A i \in Instruments : v.instr[i].last = Nil
  BY <1>1 DEF Truth
<1>5. TruthOn(a.v, D)
  BY <1>2, <1>4, KeptTruth
<1>6. Era(d) \in 0 .. feedEra /\ d.rc = ResetCountOf(Era(d)) /\ feedEra \in Nat /\ FrameFrom(p, d)
  BY CountsNat DEF Arrival, FrameFrom, Numbered
<1>7. /\ TruthOn(r.v, D)
      /\ In(r.v) /\ Unheard(pt["mktdata"]) => \A i \in Instruments : r.v.instr[i].last = Nil
  <2>1. CASE r.v = a.v
    <3>1. /\ In(a.v) <=> In(v)
          /\ \A i \in Instruments : a.v.instr[i].last = v.instr[i].last
      BY <1>2 DEF Kept, Same, In
    <3> QED
      BY <1>4, <1>5, <2>1, <3>1
  <2>2. CASE Advances(p, d) /\ r.v = Wipe(a.v, d.rc)
    <3>1. /\ r.v.resetEra = d.rc
          /\ \A i \in Instruments : r.v.instr[i] = NewInstr /\ r.v.books[i] = NewBook
      BY <2>2, WipeTold
    <3>2. In(r.v) => Era(d) = feedEra
      <4>1. d.rc # Nil
        <5>1. Era(d) \in 0 .. plan.resets
          BY <1>6, CountsNat DEF PubTyped
        <5> QED
          BY <1>6, <5>1, NoRcIsNil
      <4>2. In(r.v) => d.rc = ResetCountOf(feedEra)
        BY <3>1, <4>1 DEF In
      <4>3. feedEra \in 0 .. feedEra
        BY <1>6
      <4> QED
        BY <1>6, <4>2, <4>3, SameCount
    <3>3. ASSUME Era(d) = feedEra, NEW y \in D PROVE y.era = feedEra
      <4>1. "mktdata" \in Ports \ {p}
        BY PortsAre
      <4>2. PICK z \in WaitingOn("mktdata") : FrameFrom("mktdata", z) /\ Era(z) = y.era
        BY <1>1, <4>1, WaitsOn
      <4>3. Era(z) \in 0 .. feedEra
        BY <4>2 DEF FrameFrom, Numbered
      <4>4. PICK X : X = UNION {WaitingOn(q) : q \in Ports \ {p}}
        OBVIOUS
      <4>5. z \in X /\ "era" \notin Crossed(Overtakes({d}, X))
        BY <2>2, <4>1, <4>2, <4>4
      <4>6. ~(Era(z) < Era(d) /\ z.rc # d.rc)
        BY <4>5, EraCrossed
      <4>7. z.rc = d.rc => Era(z) = Era(d)
        BY <1>6, <4>2, SameEra
      <4> QED
        BY <1>6, <3>3, <4>2, <4>3, <4>6, <4>7
    <3>4. \E e \in 0 .. feedEra : d.rc = ResetCountOf(e)
      BY <1>6
    <3>5. In(r.v) => \A y \in D : y.era = feedEra
      BY <3>2, <3>3
    <3>6. TruthOn(r.v, D)
      BY <1>4, <1>5, <3>1, <3>4, <3>5, WipedTruth
    <3>7. \A i \in Instruments : r.v.instr[i].last = Nil
      BY <3>1, NewInstrTyped DEF Nil
    <3> QED
      BY <3>6, <3>7
  <2> QED
    BY <1>2, <2>1, <2>2
<1>8. TruthOn(s.v, D)
  BY <1>3, <1>7, KeptTruth
<1>9. /\ In(s.v) <=> In(r.v)
      /\ \A i \in Instruments : s.v.instr[i].last = r.v.instr[i].last
  BY <1>3 DEF Kept, Same, In
<1> QED
  BY <1>1, <1>7, <1>8, <1>9 DEF s

LEMMA CrossedTyped ==
  /\ \A pairs : Crossed(pairs) \subseteq Notes
  /\ \A w, u : Overtaken(w, u) \subseteq Notes
  /\ \A S : Overlaps(S) \subseteq Notes
BY DEF Crossed, Overtaken, Overlaps, Notes

(* What a hand-over does to the network and leaves to classify. *)
LEMMA DeliverTold ==
  ASSUME MboInv, CountsDiffer, NEW n \in DOMAIN net, Deliver(n)
  PROVE  /\ running /\ running' = running /\ Quiet /\ net' = RemoveAt(net, n)
         /\ PubTyped /\ FlowInv /\ StateTyped(v) /\ Sayings(Pending("mktdata"))
         /\ \E p, d :
              /\ p = net[n].port /\ d.rc = net[n].rc /\ d.seq = net[n].seq /\ d.body = net[n].body
              /\ Arrival(p, n, d)
              /\ Receives(p, d) \/ Drops(p, d)
              /\ crossed \subseteq crossed' /\ crossed' \subseteq Notes
              /\ Advances(p, d) =>
                   Crossed(Overtakes({d}, UNION {WaitingOn(q) : q \in Ports \ {p}})) \subseteq crossed'
<1>1. running /\ running' = running /\ Quiet /\ net' = RemoveAt(net, n) /\ Arriving(n)
  BY DEF Deliver, pubVars, Quiet
<1>2. PubTyped /\ FlowInv /\ StateTyped(v) /\ Sayings(Pending("mktdata"))
  BY <1>1 DEF MboInv
<1>3. PICK p, d : /\ p = net[n].port
                  /\ d = [rc |-> net[n].rc, seq |-> net[n].seq, body |-> net[n].body]
                  /\ Receives(p, d) \/ Drops(p, d)
                  /\ NoteDeliveryOrEntry(p, d)
  BY Zenon DEF Deliver
<1>4. d.rc = net[n].rc /\ d.seq = net[n].seq /\ d.body = net[n].body
  BY <1>3
<1>5. Arrival(p, n, d)
  <2>1. p = net[n].port
    BY <1>3
  <2> QED
    BY <1>1, <1>2, <1>4, <2>1, HandedOver
<1>12. PICK S : S = (Frames(pt[p].buf) \cup {d}) \ Frames(pt'[p].buf)
  OBVIOUS
<1>13. crossed' = crossed \cup Crossed(PairsOnDelivery(p, d))
         \cup (IF Advances(p, d)
                 THEN Crossed(Overtakes({d}, UNION {WaitingOn(q) : q \in Ports \ {p}})) ELSE {})
         \cup (IF p = "mktdata" THEN Overtaken(v, v') \cup Overlaps(S) ELSE {})
  BY <1>3, <1>12 DEF NoteDeliveryOrEntry
<1>6. PICK A, B, C :
        /\ crossed' = crossed \cup A \cup B \cup C
        /\ A = Crossed(PairsOnDelivery(p, d))
        /\ B = IF Advances(p, d)
                 THEN Crossed(Overtakes({d}, UNION {WaitingOn(q) : q \in Ports \ {p}})) ELSE {}
        /\ C = IF p = "mktdata" THEN Overtaken(v, v') \cup Overlaps(S) ELSE {}
  BY <1>13, Zenon
<1>7. /\ A \subseteq Notes /\ B \subseteq Notes
      /\ C \subseteq Notes
  BY <1>6, CrossedTyped
<1>8. crossed \subseteq Notes
  BY DEF MboInv
<1>9. /\ crossed \subseteq crossed' /\ crossed' \subseteq Notes
      /\ B \subseteq crossed'
  BY <1>6, <1>7, <1>8
<1>10. Advances(p, d) =>
         Crossed(Overtakes({d}, UNION {WaitingOn(q) : q \in Ports \ {p}})) \subseteq crossed'
  BY <1>6, <1>9
<1>11. p = net[n].port /\ (Receives(p, d) \/ Drops(p, d))
  BY <1>3
<1> QED
  BY <1>1, <1>2, <1>4, <1>5, <1>9, <1>10, <1>11

(* The frames of mktdata that are left to classify. *)
LEMMA PendingShrinks ==
  ASSUME NEW n \in DOMAIN net, NEW p, p = net[n].port,
         NEW d, d.rc = net[n].rc, d.seq = net[n].seq, d.body = net[n].body, FrameFrom(p, d),
         \A q : {Frame(net'[m]) : m \in OfPort(q)'} = Others(q, n),
         p # "mktdata" => pt'["mktdata"].buf = pt["mktdata"].buf,
         p = "mktdata" => pt'[p].buf \subseteq pt[p].buf \cup {Buffered(d)}
  PROVE  /\ Pending("mktdata")' \subseteq Pending("mktdata")
         /\ Pending("mktdata")' = FramesOf(pt'["mktdata"].buf) \cup Others("mktdata", n)
         /\ p # "mktdata" => Pending("mktdata")' = Pending("mktdata")
<1>1. \A q : Pending(q)' = {Frame(i) : i \in pt'[q].buf} \cup Others(q, n)
  BY PendingAfter
<1>2. Pending("mktdata")' = FramesOf(pt'["mktdata"].buf) \cup Others("mktdata", n)
  BY <1>1 DEF FramesOf
<1>3. /\ Pending(p) = FramesOf(pt[p].buf) \cup Others(p, n) \cup {Frame(d)}
      /\ \A q : q # p => Pending(q) = FramesOf(pt[q].buf) \cup Others(q, n)
  BY PendingWith
<1>4. CASE p # "mktdata"
  BY <1>2, <1>3, <1>4
<1>5. CASE p = "mktdata"
  <2>1. Frame(Buffered(d)) = Frame(d)
    BY BufferedIs
  <2>2. FramesOf(pt'[p].buf) \subseteq FramesOf(pt[p].buf) \cup {Frame(d)}
    BY <1>5, <2>1 DEF FramesOf
  <2> QED
    BY <1>2, <1>3, <1>5, <2>2
<1> QED
  BY <1>2, <1>4, <1>5

LEMMA ReceiveStep ==
  ASSUME MboInv, CountsDiffer, Quiet, running, running' = running,
         PubTyped, FlowInv, StateTyped(v), Sayings(Pending("mktdata")),
         NEW n \in DOMAIN net, net' = RemoveAt(net, n), NEW p, p = net[n].port,
         NEW d, d.rc = net[n].rc, d.seq = net[n].seq, d.body = net[n].body,
         Arrival(p, n, d), Receives(p, d),
         crossed \subseteq crossed', crossed' \subseteq Notes,
         Advances(p, d) =>
           Crossed(Overtakes({d}, UNION {WaitingOn(q) : q \in Ports \ {p}})) \subseteq crossed'
  PROVE  MboInv'
<1>1. PICK s : s = Processed(p, d)
  OBVIOUS
<1>2. ~Quarantines(p, d) /\ pt' = s.pt /\ v' = s.v
  BY <1>1 DEF Receives
<1>3. /\ Walking(s) /\ s.pt[p].era = d.rc /\ s.pt[p].eraPos # 0
      /\ s.pt[p].buf = Stays(p, d) \ Popped(p, d)
      /\ \A q \in Ports : q # p => Alike(pt[q], s.pt[q])
  BY <1>1, <1>2, ProcessedIs
<1>4. FlowInv'
  BY FlowReceived
<1>5. PubTyped' /\ StateTyped(v)'
  <2>1. StateTyped(s.v)
    BY <1>3 DEF Walking
  <2>2. PICK u : u = s.v
    OBVIOUS
  <2>3. StateTyped(u)'
    BY <2>1, <2>2, QuietKeeps
  <2> QED
    BY <1>2, <2>2, <2>3, QuietKeeps
<1>6. FrameFrom(p, d) /\ p \in {"mktdata", "snapshot"}
  BY DEF Arrival
<1>7. p = "mktdata" => pt'[p].buf \subseteq pt[p].buf \cup {Buffered(d)}
  BY <1>2, <1>3 DEF Stays
<1>8. p # "mktdata" => /\ pt'["mktdata"].buf = pt["mktdata"].buf
                       /\ pt'["mktdata"].era = pt["mktdata"].era
                       /\ pt'["mktdata"].eraPos = pt["mktdata"].eraPos
  BY <1>2, <1>3, PortsAre DEF Alike
<1>9. \A q : {Frame(net'[m]) : m \in OfPort(q)'} = Others(q, n)
  BY NetShrinks DEF FlowInv
<1>10. /\ Pending("mktdata")' \subseteq Pending("mktdata")
       /\ Pending("mktdata")' = FramesOf(pt'["mktdata"].buf) \cup Others("mktdata", n)
       /\ p # "mktdata" => Pending("mktdata")' = Pending("mktdata")
  BY <1>6, <1>7, <1>8, <1>9, PendingShrinks
<1>11. PICK E : E = Pending("mktdata")'
  OBVIOUS
<1>12. Sayings(Pending("mktdata"))'
  <2>1. Sayings(E)
    BY <1>10, <1>11, SayingsLess
  <2> QED
    BY <1>11, <2>1, QuietKeeps
<1>13. ASSUME Followed(plan)', crossed' \subseteq {"overlap"} PROVE Truth'
  <2>1. Truth
    BY <1>13 DEF MboInv, Followed, Quiet
  <2>2. /\ TruthOn(s.v, E)
        /\ In(s.v) /\ Unheard(s.pt["mktdata"]) => \A i \in Instruments : s.v.instr[i].last = Nil
    <3>1. CASE p = "mktdata"
      <4>1. E = FramesOf(Stays(p, d) \ Popped(p, d)) \cup Others(p, n)
        BY <1>2, <1>3, <1>10, <1>11, <3>1
      <4>2. TruthOn(s.v, E) /\ (In(s.v) => d.rc = ResetCountOf(feedEra))
        BY <1>1, <1>2, <2>1, <3>1, <4>1, MktdataReceived
      <4>3. In(s.v) => ~Unheard(s.pt["mktdata"])
        BY <1>3, <3>1, <4>2 DEF Unheard
      <4> QED
        BY <4>2, <4>3
    <3>2. CASE p = "snapshot"
      <4>1. E = Pending("mktdata")
        BY <1>10, <1>11, <3>2
      <4>2. Advances(p, d) =>
              "era" \notin Crossed(Overtakes({d}, UNION {WaitingOn(q) : q \in Ports \ {p}}))
        BY <1>13
      <4>3. /\ TruthOn(s.v, Pending("mktdata"))
            /\ In(s.v) /\ Unheard(pt["mktdata"]) => \A i \in Instruments : s.v.instr[i].last = Nil
        BY <1>1, <1>2, <2>1, <3>2, <4>2, SnapshotReceived
      <4>4. Unheard(s.pt["mktdata"]) <=> Unheard(pt["mktdata"])
        BY <1>2, <1>8, <3>2 DEF Unheard
      <4> QED
        BY <4>1, <4>3, <4>4
    <3> QED
      BY <1>6, <3>1, <3>2
  <2>3. PICK u, t : u = s.v /\ t = s.pt["mktdata"]
    OBVIOUS
  <2>4. TruthOn(u, E)' /\ (In(u) <=> In(u)') /\ (Unheard(t) <=> Unheard(t)')
    BY <2>2, <2>3, QuietKeeps
  <2> QED
    BY <1>2, <1>11, <2>2, <2>3, <2>4 DEF Truth
<1> QED
  BY <1>4, <1>5, <1>12, <1>13 DEF MboInv

LEMMA DropStep ==
  ASSUME MboInv, CountsDiffer, Quiet, running, running' = running,
         PubTyped, FlowInv, StateTyped(v), Sayings(Pending("mktdata")),
         NEW n \in DOMAIN net, net' = RemoveAt(net, n), NEW p, p = net[n].port,
         NEW d, d.rc = net[n].rc, d.seq = net[n].seq, d.body = net[n].body,
         Arrival(p, n, d), Drops(p, d),
         crossed \subseteq crossed', crossed' \subseteq Notes
  PROVE  MboInv'
<1>1. Quarantine(p, d) /\ Quarantines(p, d) /\ v' = v
  BY DEF Drops, Quarantine
<1>2. p \in Ports /\ FrameFrom(p, d) /\ p \in {"mktdata", "snapshot"}
  BY DEF Arrival
<1>3. FlowInv' /\ \A q \in Ports : Alike(pt[q], pt'[q])
  BY <1>1, <1>2, FlowDropped
<1>4. PubTyped' /\ StateTyped(v)'
  BY <1>1, QuietKeeps
<1>5. /\ pt'["mktdata"].buf = pt["mktdata"].buf /\ pt'["mktdata"].era = pt["mktdata"].era
      /\ pt'["mktdata"].eraPos = pt["mktdata"].eraPos
  BY <1>3, PortsAre DEF Alike
<1>6. \A q : {Frame(net'[m]) : m \in OfPort(q)'} = Others(q, n)
  BY NetShrinks DEF FlowInv
<1>7. /\ Pending("mktdata")' \subseteq Pending("mktdata")
      /\ Pending("mktdata")' = FramesOf(pt'["mktdata"].buf) \cup Others("mktdata", n)
      /\ p # "mktdata" => Pending("mktdata")' = Pending("mktdata")
  <2>1. p = "mktdata" => pt'[p].buf \subseteq pt[p].buf \cup {Buffered(d)}
    BY <1>5
  <2> QED
    BY <1>2, <1>5, <1>6, <2>1, PendingShrinks
<1>8. PICK E : E = Pending("mktdata")'
  OBVIOUS
<1>9. Sayings(Pending("mktdata"))'
  <2>1. Sayings(E)
    BY <1>7, <1>8, SayingsLess
  <2> QED
    BY <1>8, <2>1, QuietKeeps
<1>10. ASSUME Followed(plan)', crossed' \subseteq {"overlap"} PROVE Truth'
  <2>1. Truth
    BY <1>10 DEF MboInv, Followed, Quiet
  <2>2. TruthOn(v, E)
    <3>1. CASE p = "mktdata"
      <4>1. E = FramesOf(pt[p].buf) \cup Others(p, n)
        BY <1>5, <1>7, <1>8, <3>1
      <4> QED
        BY <1>1, <2>1, <3>1, <4>1, DroppedTruth
    <3>2. CASE p # "mktdata"
      BY <1>7, <1>8, <2>1, <3>2 DEF Truth
    <3> QED
      BY <3>1, <3>2
  <2>3. TruthOn(v, Pending("mktdata"))'
    BY <1>1, <1>8, <2>2, QuietKeeps
  <2>4. Unheard(pt'["mktdata"]) <=> Unheard(pt["mktdata"])
    BY <1>5 DEF Unheard
  <2>5. PICK t : t = pt'["mktdata"]
    OBVIOUS
  <2>6. (In(v) <=> In(v)') /\ (Unheard(t) <=> Unheard(t)')
    BY <1>1, QuietKeeps
  <2> QED
    BY <1>1, <2>1, <2>3, <2>4, <2>5, <2>6 DEF Truth
<1> QED
  BY <1>3, <1>4, <1>9, <1>10 DEF MboInv

LEMMA DeliverStep ==
  ASSUME MboInv, CountsDiffer, NEW n \in DOMAIN net, Deliver(n)
  PROVE  MboInv'
<1>1. /\ running /\ running' = running /\ Quiet /\ net' = RemoveAt(net, n)
      /\ PubTyped /\ FlowInv /\ StateTyped(v) /\ Sayings(Pending("mktdata"))
  BY DeliverTold
<1>2. PICK p, d :
        /\ p = net[n].port /\ d.rc = net[n].rc /\ d.seq = net[n].seq /\ d.body = net[n].body
        /\ Arrival(p, n, d)
        /\ Receives(p, d) \/ Drops(p, d)
        /\ crossed \subseteq crossed' /\ crossed' \subseteq Notes
        /\ Advances(p, d) =>
             Crossed(Overtakes({d}, UNION {WaitingOn(q) : q \in Ports \ {p}})) \subseteq crossed'
  BY DeliverTold
<1>3. CASE Receives(p, d)
  BY <1>1, <1>2, <1>3, ReceiveStep
<1>4. CASE Drops(p, d)
  BY <1>1, <1>2, <1>4, DropStep
<1> QED
  BY <1>2, <1>3, <1>4

-----------------------------------------------------------------------------
(* The end of the run.                                                     *)
Flushed(p, s) == [Walk(p, s, s.pt[p].buf) EXCEPT !.pt[p].buf = {}]

LEMMA FlushedIs ==
  ASSUME NEW p \in Ports, NEW s, Walking(s),
         \A i \in s.pt[p].buf : Whole(i) /\ MessagesTyped(p, i.body.msgs)
  PROVE  LET f == Flushed(p, s)
         IN  /\ Walking(f) /\ f.v = Walk(p, s, s.pt[p].buf).v
             /\ \A q \in Ports : q # p => f.pt[q] = s.pt[q]
             /\ f.pt[p].era = s.pt[p].era /\ f.pt[p].eraPos = s.pt[p].eraPos /\ f.pt[p].buf = {}
             /\ p = "snapshot" => Kept(s.v, f.v)
<1> DEFINE w == Walk(p, s, s.pt[p].buf)
           f == Flushed(p, s)
<1>1. Walking(w) /\ Beside(p, s, w)
  BY WalkKeeps
<1>2. f = [w EXCEPT !.pt[p].buf = {}]
  BY DEF Flushed
<1> HIDE DEF w, f
<1>3. DOMAIN w = {"pt", "v"} /\ DOMAIN w.pt = Ports /\ DOMAIN w.pt[p] = TrackerFields
      /\ w.pt[p].eraPos \in Nat
  BY <1>1 DEF Walking, TrackerTyped
<1>4. PICK t : t = [w.pt[p] EXCEPT !.buf = {}]
  OBVIOUS
<1>5. /\ DOMAIN t = TrackerFields /\ t.buf = {} /\ t.era = w.pt[p].era /\ t.eraPos = w.pt[p].eraPos
  BY <1>3, <1>4 DEF TrackerFields
<1>6. f = [w EXCEPT !.pt = [w.pt EXCEPT ![p] = t]]
  BY <1>2, <1>4
<1>7. /\ DOMAIN f = {"pt", "v"} /\ f.v = w.v /\ DOMAIN f.pt = Ports
      /\ f.pt[p] = t /\ \A q \in Ports : q # p => f.pt[q] = w.pt[q]
  BY <1>3, <1>6
<1>8. TrackerTyped(t)
  BY <1>3, <1>5 DEF TrackerTyped
<1>9. Walking(f)
  BY <1>1, <1>7, <1>8 DEF Walking
<1> QED
  BY <1>1, <1>5, <1>7, <1>9 DEF Beside, w, f

LEMMA EndRunTold ==
  ASSUME EndRun
  PROVE  /\ running /\ running' = FALSE /\ Quiet /\ net' = net
         /\ pt' = Flushed("snapshot", Flushed("mktdata", Start)).pt
         /\ \E l, g : v' = AtEnd(Flushed("snapshot", Flushed("mktdata", Start)).v, l, g)
         /\ crossed \subseteq crossed'
         /\ crossed \subseteq Notes =>
              crossed' \subseteq Notes
<1>1. /\ running /\ running' = FALSE /\ Quiet /\ net' = net
      /\ pt' = Flushed("snapshot", Flushed("mktdata", Start)).pt
      /\ \E l, g : v' = AtEnd(Flushed("snapshot", Flushed("mktdata", Start)).v, l, g)
  BY DEF EndRun, pubVars, Quiet, Flushed, Start
<1>2. \E A, w, u, S : crossed' = crossed \cup Crossed(A) \cup Overtaken(w, u) \cup Overlaps(S)
  BY DEF EndRun
<1>3. PICK A, w, u, S : crossed' = crossed \cup Crossed(A) \cup Overtaken(w, u) \cup Overlaps(S)
  BY <1>2
<1>4. Crossed(A) \subseteq Notes /\ Overtaken(w, u) \subseteq Notes /\ Overlaps(S) \subseteq Notes
  BY CrossedTyped
<1> QED
  BY <1>1, <1>3, <1>4

LEMMA EndRunStep ==
  ASSUME MboInv, EndRun
  PROVE  MboInv'
<1>1. /\ running /\ running' = FALSE /\ Quiet /\ net' = net
      /\ crossed \subseteq crossed' /\ crossed' \subseteq Notes
  BY EndRunTold DEF MboInv
<1>2. PubTyped /\ FlowInv /\ StateTyped(v) /\ Sayings(Pending("mktdata"))
  BY <1>1 DEF MboInv
<1>3. PICK m, s : m = Flushed("mktdata", Start) /\ s = Flushed("snapshot", m)
  OBVIOUS
<1>4. pt' = s.pt /\ \E l, g : v' = AtEnd(s.v, l, g)
  BY <1>3, EndRunTold
<1>5. Walking(Start) /\ Start.pt = pt /\ Start.v = v
  BY <1>2, StartIs
<1>6. "mktdata" \in Ports /\ "snapshot" \in Ports /\ "mktdata" # "snapshot"
  BY PortsAre
<1>7. /\ Walking(m) /\ m.v = Walk("mktdata", Start, pt["mktdata"].buf).v
      /\ \A q \in Ports : q # "mktdata" => m.pt[q] = pt[q]
      /\ m.pt["mktdata"].era = pt["mktdata"].era /\ m.pt["mktdata"].eraPos = pt["mktdata"].eraPos
      /\ m.pt["mktdata"].buf = {}
  <2>1. \A i \in pt["mktdata"].buf : Whole(i) /\ MessagesTyped("mktdata", i.body.msgs)
    BY <1>2, <1>6, BufferReadable
  <2> QED
    BY <1>3, <1>5, <1>6, <2>1, FlushedIs
<1>8. /\ Walking(s) /\ Kept(m.v, s.v) /\ s.pt["mktdata"] = m.pt["mktdata"]
  <2>1. \A i \in m.pt["snapshot"].buf : Whole(i) /\ MessagesTyped("snapshot", i.body.msgs)
    <3>1. \A i \in pt["snapshot"].buf : Whole(i) /\ MessagesTyped("snapshot", i.body.msgs)
      BY <1>2, <1>6, BufferReadable
    <3> QED
      BY <1>6, <1>7, <3>1
  <2> QED
    BY <1>3, <1>6, <1>7, <2>1, FlushedIs
<1>9. PICK u : u = v'
  OBVIOUS
<1>10. Kept(s.v, u)
  BY <1>4, <1>8, <1>9, EndOfRunTold DEF Walking
<1>11. PubTyped' /\ StateTyped(v)'
  <2>1. StateTyped(u)'
    BY <1>1, <1>10, QuietKeeps DEF Kept
  <2> QED
    BY <1>1, <1>2, <1>9, <2>1, QuietKeeps
<1>12. PICK E : E = {Frame(net[n]) : n \in OfPort("mktdata")}
  OBVIOUS
<1>13. Pending("mktdata") = E \cup FramesOf(pt["mktdata"].buf)
  BY <1>12 DEF Pending, FramesOf
<1>14. Pending("mktdata")' = E
  <2>1. Pending("mktdata")' = {Frame(i) : i \in pt'["mktdata"].buf}
                                \cup {Frame(net'[n]) : n \in OfPort("mktdata")'}
    BY DEF Pending, Frame, Era
  <2>2. OfPort("mktdata")' = OfPort("mktdata")
    BY <1>1 DEF OfPort
  <2>3. pt'["mktdata"].buf = {}
    BY <1>4, <1>7, <1>8
  <2> QED
    BY <1>1, <1>12, <2>1, <2>2, <2>3
<1>15. ASSUME Followed(plan)', crossed' \subseteq {"overlap"} PROVE Truth'
  <2>1. /\ TruthOn(v, E \cup FramesOf(pt["mktdata"].buf))
        /\ In(v) /\ Unheard(pt["mktdata"]) => \A i \in Instruments : v.instr[i].last = Nil
    BY <1>1, <1>13, <1>15 DEF MboInv, Followed, Quiet, Truth
  <2>2. Batch(pt["mktdata"].buf, Start.pt["mktdata"].accepted)
    <3>1. \A i \in pt["mktdata"].buf :
            /\ Whole(i) /\ FrameFrom("mktdata", i)
            /\ \A j \in pt["mktdata"].buf : i.seq = j.seq => i = j
            /\ \A c \in pt["mktdata"].accepted : c.seq \in Nat /\ c.seq < i.seq
      BY <1>2, <1>6 DEF FlowInv, BufferInv, IntakeInv
    <3>2. \A i \in pt["mktdata"].buf : MessagesTyped("mktdata", i.body.msgs) /\ i.seq \in 0 .. MaxSeq
      BY <3>1 DEF FrameFrom, Numbered
    <3>3. \A i \in pt["mktdata"].buf : \A c \in pt["mktdata"].accepted : c.seq # i.seq
      BY <3>1
    <3> QED
      BY <1>5, <3>1, <3>2, <3>3 DEF Batch
  <2>3. Ahead(pt["mktdata"].buf, E)
    <3> SUFFICES ASSUME NEW y \in E
                 PROVE  /\ y.seq \in Nat
                        /\ \A i \in pt["mktdata"].buf : Era(i) = y.era => i.seq < y.seq
      BY DEF Ahead
    <3>1. PICK n \in OfPort("mktdata") : y = Frame(net[n])
      BY <1>12
    <3>2. FrameFrom("mktdata", net[n])
      BY <1>2 DEF FlowInv, NetInv, OfPort
    <3>3. \A i \in pt["mktdata"].buf : Earlier(i, net[n]) /\ FrameFrom("mktdata", i)
      BY <1>2, <1>6 DEF FlowInv, BufferInv
    <3>4. y.seq \in Nat
      BY <3>1, <3>2 DEF Frame, FrameFrom, Numbered
    <3>5. \A i \in pt["mktdata"].buf : Era(i) = y.era => i.seq < y.seq
      BY <1>2, <1>6, <3>1, <3>2, <3>3, Ordered
    <3> QED
      BY <3>4, <3>5
  <2>4. /\ Sayings(E \cup FramesOf(pt["mktdata"].buf))
        /\ TruthOn(Start.v, E \cup FramesOf(pt["mktdata"].buf))
    BY <1>2, <1>5, <1>13, <2>1
  <2>5. TruthOn(m.v, E) /\ m.v.resetEra = v.resetEra
    BY <1>2, <1>5, <1>7, <2>2, <2>3, <2>4, BatchIsTrue
  <2>6. TruthOn(u, E)
    BY <1>8, <1>10, <2>5, KeptTruth
  <2>7. In(u) => In(v)
    BY <1>8, <1>10, <2>5 DEF Kept, Same, In
  <2>8. In(v) /\ Unheard(pt["mktdata"]) => m.v = v
    <3> SUFFICES ASSUME In(v), Unheard(pt["mktdata"]) PROVE m.v = v
      OBVIOUS
    <3>1. ASSUME NEW i \in pt["mktdata"].buf PROVE FALSE
      <4>1. Frame(i).era = feedEra
        BY <2>1 DEF TruthOn, FramesOf
      <4>2. FrameFrom("mktdata", i) /\ i.rc = pt["mktdata"].era
        BY <1>2, <1>6 DEF FlowInv, BufferInv
      <4>3. pt["mktdata"].era = ResetCountOf(feedEra)
        BY <4>1, <4>2 DEF Frame, FrameFrom, Numbered
      <4>4. pt["mktdata"].eraPos = 0 => pt["mktdata"].buf = {}
        BY <1>2, <1>6 DEF FlowInv, IntakeInv
      <4> QED
        BY <4>3, <4>4 DEF Unheard
    <3>2. pt["mktdata"].buf = {}
      BY <3>1
    <3> QED
      BY <1>5, <1>7, <3>2, WalkNothing
  <2>9. PICK t : t = pt'["mktdata"]
    OBVIOUS
  <2>10. Unheard(t) => Unheard(pt["mktdata"])
    BY <1>4, <1>7, <1>8, <2>9 DEF Unheard
  <2>11. In(u) /\ Unheard(t) => \A i \in Instruments : u.instr[i].last = Nil
    <3>1. \A i \in Instruments : u.instr[i].last = m.v.instr[i].last
      BY <1>8, <1>10 DEF Kept, Same
    <3> QED
      BY <2>1, <2>7, <2>8, <2>10, <3>1
  <2>12. TruthOn(u, E)' /\ (In(u) <=> In(u)') /\ (Unheard(t) <=> Unheard(t)')
    BY <1>1, <2>6, QuietKeeps
  <2> QED
    BY <1>9, <1>14, <2>9, <2>11, <2>12 DEF Truth
<1> QED
  BY <1>1, <1>11, <1>15 DEF MboInv

-----------------------------------------------------------------------------
(* Every step of the feed keeps the invariant.                             *)
LEMMA MboNextKeeps ==
  ASSUME MboInv, CountsDiffer, [MboNext]_allVars
  PROVE  MboInv'
<1>1. ASSUME NEW i \in plan.instruments, NEW o \in plan.orders, NEW q \in 1 .. MaxLots,
             NEW h \in Hidings, SendAdd(i, o, q, h)
      PROVE  MboInv'
  BY <1>1, AddStep
<1>2. ASSUME NEW i \in plan.instruments, NEW r, SendCancel(i, r)
      PROVE  MboInv'
  BY <1>2, CancelStep
<1>3. ASSUME NEW i \in plan.instruments, NEW r, SendExecute(i, r)
      PROVE  MboInv'
  BY <1>3, ExecuteStep
<1>4. ASSUME NEW i \in plan.instruments, NEW r, SendInstrumentReset(i, r)
      PROVE  MboInv'
  BY <1>4, InstrumentResetStep
<1>5. ASSUME NEW i \in plan.instruments, SendGroup(i)
      PROVE  MboInv'
  BY <1>5, GroupStep
<1>6. ASSUME NEW n \in DOMAIN net, Deliver(n) \/ Lose(n)
      PROVE  MboInv'
  BY <1>6, DeliverStep, LoseStep
<1>7. ASSUME Heartbeat \/ SendRest \/ ChannelReset \/ EndRun \/ UNCHANGED allVars
      PROVE  MboInv'
  BY <1>7, HeartbeatStep, RestStep, ChannelResetStep, EndRunStep, Stutters
<1> QED
  BY <1>1, <1>2, <1>3, <1>4, <1>5, <1>6, <1>7 DEF MboNext

(* What the validator keeps is typed: a trusted instrument stands at a     *)
(* delta, and no order's quantity runs below zero or above what was sent,  *)
(* however deltas, groups and resets of the two ports interleave, whatever *)
(* is lost (gate.go, checkMBO; book.go).                                   *)
THEOREM MboTypes == ASSUME CountsDiffer PROVE MboSpec => []MboTypeOK
<1>1. MboInit => MboInv
  BY StartsRight
<1>2. MboInv /\ [MboNext]_allVars => MboInv'
  BY MboNextKeeps
<1>3. MboInv => MboTypeOK
  <2> SUFFICES ASSUME MboInv PROVE MboTypeOK
    OBVIOUS
  <2>1. StateTyped(v) /\ crossed \subseteq {"era", "reset", "recovery", "overlap"}
    BY DEF MboInv, Notes
  <2>2. \A i \in Instruments : InstrTyped(v.instr[i]) /\ BookTyped(v.books[i])
    BY <2>1 DEF StateTyped
  <2>3. v.open # NoGroup => v.open.instr \in Instruments /\ v.open.received \in Nat
    BY <2>1 DEF StateTyped, OpenTyped
  <2> QED
    BY <2>1, <2>2, <2>3 DEF MboTypeOK, InstrTyped, BookTyped
<1> QED
  BY <1>1, <1>2, <1>3, PTL DEF MboSpec

(* The orders a book shows are those it mirrors. *)
LEMMA MirrorShows ==
  ASSUME NEW bk, NEW S, RestTyped(S), Mirror(bk, S)
  PROVE  {[order |-> o, left |-> bk.live[o].left] : o \in Resting(bk)}
           = {[order |-> r.order, left |-> r.left] : r \in {r \in S : ~r.hidden}}
<1> DEFINE V == {r \in S : ~r.hidden}
           A == {[order |-> o, left |-> bk.live[o].left] : o \in Resting(bk)}
           B == {[order |-> r.order, left |-> r.left] : r \in V}
<1> SUFFICES A = B
  OBVIOUS
<1>1. ASSUME NEW x \in A PROVE x \in B
  <2>1. PICK o \in Resting(bk) : x = [order |-> o, left |-> bk.live[o].left]
    OBVIOUS
  <2>2. o \in OrderIds /\ Live(bk, o)
    BY DEF Resting
  <2>3. PICK r \in S : r.order = o /\ ~r.hidden
    BY <2>2 DEF Mirror
  <2>4. bk.live[o].left = r.left /\ r \in V
    BY <2>3 DEF Mirror
  <2>5. x = [order |-> r.order, left |-> r.left]
    BY <2>1, <2>3, <2>4, Zenon
  <2> HIDE DEF V
  <2> QED
    BY <2>4, <2>5, Zenon
<1>2. ASSUME NEW x \in B PROVE x \in A
  <2>1. PICK r \in V : x = [order |-> r.order, left |-> r.left]
    OBVIOUS
  <2>2. PICK o : o = r.order
    OBVIOUS
  <2>3. o \in OrderIds
    BY <2>2 DEF RestTyped
  <2>4. Live(bk, o) /\ bk.live[o].left = r.left
    BY <2>2 DEF Mirror
  <2>5. o \in Resting(bk)
    BY <2>3, <2>4 DEF Resting
  <2>6. x = [order |-> o, left |-> bk.live[o].left]
    BY <2>1, <2>2, <2>4, Zenon
  <2> QED
    BY <2>5, <2>6, Zenon
<1> HIDE DEF A, B
<1> QED
  BY <1>1, <1>2

(* While an instrument is trusted in the current era, its book shows the   *)
(* visible orders that rested after the delta it stands at (checkMBORef,   *)
(* applyDeltaSeq, onInstrumentReset, onResetCountForEra): whatever is lost *)
(* and reordered, through corrections and channel resets.                  *)
THEOREM TrustedBookIsPublished ==
  ASSUME CountsDiffer, \A p \in Plans : Followed(p)
  PROVE  MboSpec => []TrustedBookIsTrue
<1>1. MboInit => MboInv
  BY StartsRight
<1>2. MboInv /\ [MboNext]_allVars => MboInv'
  BY MboNextKeeps
<1>3. MboInv => TrustedBookIsTrue
  <2> SUFFICES ASSUME MboInv, NEW i \in Instruments,
                      InEra, v.instr[i].trusted, crossed \subseteq {"overlap"}
               PROVE  {[order |-> o, left |-> v.books[i].live[o].left] : o \in Resting(v.books[i])}
                        = {[order |-> r.order, left |-> r.left] :
                             r \in {r \in books[i][v.instr[i].last + 1] : ~r.hidden}}
    BY DEF TrustedBookIsTrue, InOrder
  <2>1. PubTyped /\ In(v)
    BY DEF MboInv, InEra, In
  <2>2. Truth
    BY <2>1 DEF MboInv, PubTyped
  <2>3. v.instr[i].last \in 1 .. SeqNow(i) /\ Mirror(v.books[i], books[i][v.instr[i].last + 1])
    BY <2>1, <2>2 DEF Truth, TruthOn, TrueBook
  <2>4. v.instr[i].last + 1 \in 1 .. Len(books[i])
    <3>1. Len(books[i]) \in Nat
      BY <2>1, LengthsNat
    <3> QED
      BY <2>3, <3>1 DEF SeqNow
  <2>5. RestTyped(books[i][v.instr[i].last + 1])
    BY <2>1, <2>4 DEF PubTyped
  <2> QED
    BY <2>3, <2>5, MirrorShows
<1> QED
  BY <1>1, <1>2, <1>3, PTL DEF MboSpec
=============================================================================

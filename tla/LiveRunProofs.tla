---------------------------- MODULE LiveRunProofs ----------------------------
(***************************************************************************)
(* What holds of a live run for every set of ports and of callers, every   *)
(* size of the queue and every limit on read errors.                       *)
(*                                                                         *)
(* None of the properties is inductive. Typed needs that a loop which goes *)
(* on has not used up its errors; Settled says where the exit code comes   *)
(* from, and rests on the read error being final once the source is        *)
(* closed, when every read loop has ended; AtMostOnce says that a datagram *)
(* taken from a closed source was the last one.                            *)
(***************************************************************************)
EXTENDS LiveRun, TLAPS

Started == main = "open" => \A p \in Ports : pc[p] = "unstarted"

ErrsLeft == \A p \in Ports : errs[p] = MaxErrs => pc[p] \in {"giveUp", "done"}

Typed == LiveTypeOK /\ Started /\ ErrsLeft

ClosedAtEnd == closed => AllEnded

(* Close is a no-op for the signal goroutine until it exists.              *)
Absent == main \in {"open", "setup"} => caller["signal"] = "absent"

Settled ==
  /\ main = "report" => closed /\ loopErr = readErr
  /\ main \in {"closing", "exit"} =>
       \/ code = 2 /\ caller["signal"] = "absent"
       \/ closed /\ (code = 2 <=> readErr # None \/ reportErr)

AtMostOnce == late # 0 => late = 1 /\ closed /\ main # "wait"

USE SizeAssumption, CallersAssumption
    DEF SizeAssumption, CallersAssumption, netVars, loopVars, closeVars, sourceVars, runVars, allVars, Goto, CallerGoto

-----------------------------------------------------------------------------
(* The initial state.                                                      *)
LEMMA RoomTyped == ASSUME plan \in Plans PROVE plan.room \in Nat /\ plan.room >= 1
OBVIOUS

LEMMA HeadTyped == ASSUME NEW S, NEW s \in Seq(S), s # << >> PROVE Head(s) \in S
OBVIOUS

LEMMA InitTyped == LiveInit => Typed
<1> SUFFICES ASSUME LiveInit PROVE Typed OBVIOUS
<1> USE DEF LiveInit, SourceInit
<1>1. datagrams \in Seq([port : Ports, n : Nat]) /\ Len(datagrams) <= plan.room
  BY RoomTyped
<1>2. pc \in [Ports -> LoopStates] /\ caller \in [Callers -> CallerStates]
  BY DEF LoopStates, CallerStates
<1>3. errs \in [Ports -> 0 .. MaxErrs] /\ heard \in [Ports -> Nat] /\ sent \in [Ports -> Nat]
  OBVIOUS
<1>4. SourceTypeOK
  BY <1>1, <1>2, <1>3 DEF SourceTypeOK
<1>5. taken \in [Ports -> Seq(Nat)]
  OBVIOUS
<1>6. code \in 0 .. Undecided /\ late \in Nat
  BY DEF Undecided
<1>7. LiveTypeOK
  BY <1>4, <1>5, <1>6 DEF LiveTypeOK
<1> QED BY <1>7 DEF Typed, Started, ErrsLeft

LEMMA InitRest == LiveInit => ClosedAtEnd /\ Absent /\ Settled /\ AtMostOnce /\ StreamIntact
<1> SUFFICES ASSUME LiveInit PROVE ClosedAtEnd /\ Absent /\ Settled /\ AtMostOnce /\ StreamIntact
  OBVIOUS
<1> USE DEF LiveInit, SourceInit
<1>1. ClosedAtEnd /\ Absent /\ Settled /\ AtMostOnce
  BY DEF ClosedAtEnd, Absent, Settled, AtMostOnce
<1>2. ASSUME NEW p \in Ports PROVE {datagrams[i].n : i \in Queued(p)} = Len(taken[p]) + 1 .. 0
  BY DEF Queued
<1>3. StreamIntact
  BY <1>2 DEF StreamIntact, Queued, InHand
<1> QED BY <1>1, <1>3

-----------------------------------------------------------------------------
(* Type correctness, action by action.                                     *)
LEMMA LoopTyped ==
  ASSUME Typed, NEW p \in Ports, ReadLoop(p), UNCHANGED runVars, main # "open" PROVE Typed'
<1> USE DEF Typed, LiveTypeOK, SourceTypeOK, Started, ErrsLeft, LoopStates
<1>1. CASE Check(p) BY <1>1, SMTT(30), ZenonT(30) DEF Check
<1>2. CASE ReadFails(p) BY <1>2 DEF ReadFails
<1>3. CASE Read(p)
  <2>1. heard' \in [Ports -> Nat]
    <3>1. heard[p] + 1 \in Nat
      BY SMTT(30)
    <3>2. heard' = [heard EXCEPT ![p] = heard[p] + 1]
      BY <1>3 DEF Read
    <3> QED BY <3>1, <3>2
  <2>2. errs' \in [Ports -> 0 .. MaxErrs]
    BY <1>3 DEF Read
  <2>3. pc' \in [Ports -> LoopStates]
    BY <1>3 DEF Read
  <2>4. SourceTypeOK'
    BY <1>3, <2>1, <2>2, <2>3 DEF Read
  <2> QED BY <1>3, <2>4 DEF Read
<1>4. CASE Fail(p)
  <2>1. errs[p] \in 0 .. MaxErrs /\ errs[p] # MaxErrs
    BY <1>4 DEF Fail
  <2>2. CASE cancelled
    BY <1>4, <2>2 DEF Fail
  <2>3. CASE ~cancelled
    <3>0. errs' = [errs EXCEPT ![p] = errs[p] + 1]
      BY <1>4, <2>3 DEF Fail
    <3>7. errs[p] + 1 \in 0 .. MaxErrs
      <4> HIDE DEF Typed, LiveTypeOK, SourceTypeOK, Started, ErrsLeft
      <4> QED BY <2>1
    <3>1. errs' = [errs EXCEPT ![p] = errs[p] + 1] /\ errs[p] + 1 \in 0 .. MaxErrs
      BY <3>0, <3>7
    <3>2. errs' \in [Ports -> 0 .. MaxErrs]
      BY <3>1
    <3>3. pc' \in [Ports -> LoopStates]
      BY <1>4, <2>3 DEF Fail
    <3>4. errs'[p] = MaxErrs => pc'[p] = "giveUp"
      BY <1>4, <2>1, <2>3, <3>1 DEF Fail, Exhausted
    <3>5. \A q \in Ports \ {p} : errs'[q] = errs[q] /\ pc'[q] = pc[q]
      BY <1>4, <2>3 DEF Fail
    <3>6. ErrsLeft'
      BY <3>4, <3>5
    <3> QED BY <1>4, <3>2, <3>3, <3>6 DEF Fail
  <2> QED BY <2>2, <2>3
<1>5. CASE GiveUp(p) BY <1>5 DEF GiveUp
<1>6. CASE Backoff(p) BY <1>6, SMTT(30), ZenonT(30) DEF Backoff
<1>7. CASE Enqueue(p)
  <2>1. datagrams' \in Seq([port : Ports, n : Nat]) /\ Len(datagrams') = Len(datagrams) + 1
    BY <1>7 DEF Enqueue
  <2>2. Len(datagrams') <= plan.room
    BY <1>7, <2>1, RoomTyped DEF Enqueue
  <2> QED BY <1>7, <2>1, <2>2, SMTT(30), ZenonT(30) DEF Enqueue
<1>8. CASE Abandon(p) BY <1>8 DEF Abandon, Abandons
<1> QED BY <1>1, <1>2, <1>3, <1>4, <1>5, <1>6, <1>7, <1>8 DEF ReadLoop

LEMMA NetworkTyped == ASSUME Typed, Network, UNCHANGED runVars PROVE Typed'
<1> USE DEF Typed, LiveTypeOK, SourceTypeOK, Started, ErrsLeft
<1>1. PICK p \in Ports : Send(p) \/ Toggle(p)
  BY DEF Network
<1>2. CASE Send(p)
  <2>1. sent[p] + 1 \in Nat
    BY SMTT(30)
  <2>2. sent' = [sent EXCEPT ![p] = sent[p] + 1]
    BY <1>2 DEF Send
  <2>3. sent' \in [Ports -> Nat]
    BY <2>1, <2>2
  <2> QED BY <1>2, <2>3, SMTT(30), ZenonT(30) DEF Send
<1>3. CASE Toggle(p)
  <2>1. down' \subseteq Ports
    BY <1>3 DEF Toggle, SymDiff
  <2> QED BY <1>3, <2>1, SMTT(30), ZenonT(30) DEF Toggle
<1> QED BY <1>1, <1>2, <1>3

LEMMA CalledTyped ==
  ASSUME Typed, NEW c \in Callers, CloseCalled(c) PROVE caller' \in [Callers -> CallerStates]
BY DEF Typed, LiveTypeOK, SourceTypeOK, CloseCalled, CallerStates

LEMMA CloseTyped ==
  ASSUME Typed, NEW c \in Callers, Close(c) PROVE SourceTypeOK' /\ pc' = pc /\ errs' = errs
<1> USE DEF Typed, LiveTypeOK, SourceTypeOK
<1>1. caller' \in [Callers -> CallerStates]
  BY DEF Close, EnterClose, CloseSocket, CloseReturns, CallerStates
<1>2. once' \in {"new", "busy", "done"} /\ conns' \subseteq Ports /\ cancelled' \in BOOLEAN
  BY DEF Close, EnterClose, CloseSocket, CloseReturns
<1>3. UNCHANGED <<netVars, loopVars, datagrams, readErr, closed>>
  BY DEF Close, EnterClose, CloseSocket, CloseReturns
<1> QED BY <1>1, <1>2, <1>3

LEMMA MainTyped == ASSUME Typed, Main PROVE Typed'
<1> USE DEF Typed, LiveTypeOK, Started, ErrsLeft
<1>1. CASE OpenSource
  <2>1. pc' = [p \in Ports |-> "check"] /\ \A p \in Ports : errs[p] # MaxErrs
    BY <1>1 DEF OpenSource, Opened
  <2>2. SourceTypeOK'
    BY <1>1, <2>1 DEF OpenSource, Opened, SourceTypeOK, LoopStates
  <2> QED BY <1>1, <2>1, <2>2 DEF OpenSource, Opened
<1>2. CASE OpenFails
  BY <1>2, SMTT(30) DEF OpenFails, BindFails, SourceTypeOK, Undecided
<1>3. CASE SetUp
  <2>1. caller' \in [Callers -> CallerStates]
    BY <1>3 DEF SetUp, SourceTypeOK, CallerStates
  <2> QED BY <1>3, <2>1 DEF SetUp, SourceTypeOK
<1>4. CASE SetUpFails
  <2>1. caller' \in [Callers -> CallerStates]
    BY <1>4, CalledTyped DEF SetUpFails
  <2>2. code' \in 0 .. Undecided
    BY <1>4 DEF SetUpFails, Undecided
  <2> QED BY <1>4, <2>1, <2>2 DEF SetUpFails, SourceTypeOK
<1>5. CASE NextCall
  BY <1>5 DEF NextCall, LoopEnds, SourceTypeOK
<1>6. CASE Take
  <2>1. datagrams' \in Seq([port : Ports, n : Nat]) /\ Len(datagrams') <= Len(datagrams)
    BY <1>6 DEF Take, SourceTypeOK
  <2>2. Len(datagrams') <= plan'.room
    BY <1>6, <2>1, RoomTyped DEF Take, SourceTypeOK
  <2>3. SourceTypeOK'
    BY <1>6, <2>1, <2>2 DEF Take, SourceTypeOK
  <2>4. Head(datagrams) \in [port : Ports, n : Nat]
    <3>1. datagrams \in Seq([port : Ports, n : Nat]) /\ datagrams # << >>
      BY <1>6 DEF Take, SourceTypeOK
    <3> QED BY <3>1, HeadTyped
  <2>5. taken' \in [Ports -> Seq(Nat)]
    <3>1. Append(taken[Head(datagrams).port], Head(datagrams).n) \in Seq(Nat)
      BY <2>4
    <3> QED BY <1>6, <2>4, <3>1 DEF Take
  <2>6. late' \in Nat
    BY <1>6 DEF Take
  <2> QED BY <1>6, <2>3, <2>5, <2>6 DEF Take
<1>7. CASE WaitEnds
  BY <1>7 DEF WaitEnds, LoopEnds, SourceTypeOK
<1>8. CASE Report
  <2>1. caller' \in [Callers -> CallerStates]
    BY <1>8, CalledTyped DEF Report
  <2>2. code' \in 0 .. Undecided
    BY <1>8 DEF Report, ExitCodes, Undecided
  <2>3. reportErr' \in BOOLEAN
    BY <1>8 DEF Report
  <2> QED BY <1>8, <2>1, <2>2, <2>3 DEF Report, SourceTypeOK
<1>9. CASE Exit
  BY <1>9 DEF Exit, SourceTypeOK
<1> QED BY <1>1, <1>2, <1>3, <1>4, <1>5, <1>6, <1>7, <1>8, <1>9 DEF Main

LEMMA StepTyped == Typed /\ [LiveNext]_allVars => Typed'
<1> SUFFICES ASSUME Typed, [LiveNext]_allVars PROVE Typed'
  OBVIOUS
<1>1. CASE Main
  BY <1>1, MainTyped
<1>2. CASE Signal
  <2>1. signalled' \in BOOLEAN /\ UNCHANGED <<sourceVars, main, taken, loopErr, reportErr, code, late>>
    BY <1>2 DEF Signal
  <2> QED BY <2>1 DEF Typed, LiveTypeOK, SourceTypeOK, Started, ErrsLeft
<1>3. CASE SignalGoroutine
  <2>1. caller' \in [Callers -> CallerStates]
    BY <1>3, CalledTyped DEF SignalGoroutine
  <2> QED BY <1>3, <2>1 DEF SignalGoroutine, Typed, LiveTypeOK, SourceTypeOK, Started, ErrsLeft
<1>4. CASE Network /\ UNCHANGED runVars
  BY <1>4, NetworkTyped
<1>5. ASSUME NEW p \in Ports, ReadLoop(p), UNCHANGED runVars PROVE Typed'
  <2>1. main # "open"
    BY <1>5 DEF Typed, Started, ReadLoop, Check, ReadFails, Read, Fail, GiveUp, Backoff, Enqueue, Abandon, Abandons
  <2> QED BY <1>5, <2>1, LoopTyped
<1>6. CASE Closed /\ UNCHANGED runVars
  BY <1>6 DEF Closed, Typed, LiveTypeOK, SourceTypeOK, Started, ErrsLeft
<1>7. ASSUME NEW c \in Callers, Close(c), UNCHANGED runVars PROVE Typed'
  <2>1. SourceTypeOK' /\ pc' = pc /\ errs' = errs
    BY <1>7, CloseTyped
  <2> QED BY <1>7, <2>1 DEF Typed, LiveTypeOK, Started, ErrsLeft
<1>8. CASE UNCHANGED allVars
  BY <1>8, SMTT(30) DEF Typed, LiveTypeOK, SourceTypeOK, Started, ErrsLeft
<1> QED BY <1>1, <1>2, <1>3, <1>4, <1>5, <1>6, <1>7, <1>8 DEF LiveNext, Finished

-----------------------------------------------------------------------------
(* The end of the source. A read loop that has ended stays so.             *)
LEMMA LoopStep ==
  ASSUME Typed, NEW p \in Ports, ReadLoop(p)
  PROVE  /\ pc[p] # "done" /\ \A q \in Ports \ {p} : pc'[q] = pc[q]
         /\ UNCHANGED <<netVars, closed, conns, once, caller>>
         /\ readErr' # readErr => readErr = None /\ pc[p] = "giveUp"
BY DEF Typed, LiveTypeOK, SourceTypeOK, ReadLoop, Check, ReadFails, Read, Fail, GiveUp, Backoff, Enqueue, Abandon, Abandons

LEMMA CloseStep ==
  ASSUME Typed, NEW c \in Callers, Close(c)
  PROVE  /\ UNCHANGED <<netVars, loopVars, datagrams, readErr, closed>>
         /\ caller[c] \notin {"absent", "idle"}
         /\ \A b \in Callers \ {c} : caller'[b] = caller[b]
         /\ cancelled => cancelled'
BY DEF Typed, LiveTypeOK, SourceTypeOK, Close, EnterClose, CloseSocket, CloseReturns

LEMMA StepClosedAtEnd == Typed /\ ClosedAtEnd /\ [LiveNext]_allVars => ClosedAtEnd'
<1> SUFFICES ASSUME Typed, ClosedAtEnd, [LiveNext]_allVars PROVE ClosedAtEnd'
  OBVIOUS
<1> USE DEF ClosedAtEnd, AllEnded
<1>1. CASE OpenSource
  BY <1>1 DEF OpenSource, Opened, Typed, Started
<1>2. CASE Main /\ ~OpenSource
  BY <1>2 DEF Main, OpenFails, BindFails, SetUp, SetUpFails, NextCall, LoopEnds, Take, WaitEnds, Report, Exit
<1>3. CASE Signal \/ SignalGoroutine \/ UNCHANGED allVars
  BY <1>3 DEF Signal, SignalGoroutine
<1>4. CASE Network
  BY <1>4 DEF Network, Send, Toggle
<1>5. ASSUME NEW p \in Ports, ReadLoop(p) PROVE ClosedAtEnd'
  BY <1>5, LoopStep
<1>6. CASE Closed
  BY <1>6 DEF Closed
<1>7. ASSUME NEW c \in Callers, Close(c) PROVE ClosedAtEnd'
  BY <1>7, CloseStep
<1> QED BY <1>1, <1>2, <1>3, <1>4, <1>5, <1>6, <1>7 DEF LiveNext, Finished

LEMMA StepAbsent == Typed /\ Absent /\ [LiveNext]_allVars => Absent'
<1> SUFFICES ASSUME Typed, Absent, [LiveNext]_allVars PROVE Absent'
  OBVIOUS
<1> USE DEF Absent
<1>1. CASE Main
  BY <1>1 DEF Main, OpenSource, Opened, OpenFails, SetUp, SetUpFails, NextCall, LoopEnds, Take, WaitEnds, Report, Exit
<1>2. CASE Signal \/ UNCHANGED allVars
  BY <1>2 DEF Signal
<1>3. CASE SignalGoroutine
  BY <1>3 DEF SignalGoroutine, CloseCalled
<1>4. CASE UNCHANGED runVars /\ (Network \/ Closed)
  BY <1>4 DEF Network, Send, Toggle, Closed
<1>5. ASSUME NEW p \in Ports, ReadLoop(p), UNCHANGED runVars PROVE Absent'
  BY <1>5, LoopStep
<1>6. ASSUME NEW c \in Callers, Close(c), UNCHANGED runVars PROVE Absent'
  BY <1>6, CloseStep
<1> QED BY <1>1, <1>2, <1>3, <1>4, <1>5, <1>6 DEF LiveNext, Finished

(* The exit code. Once the source is closed no loop is left to fail, so    *)
(* the error the loop of Run returned with is the one there is.            *)
LEMMA StepSettled ==
  Typed /\ ClosedAtEnd /\ Absent /\ Settled /\ [LiveNext]_allVars => Settled'
<1> SUFFICES ASSUME Typed, ClosedAtEnd, Absent, Settled, [LiveNext]_allVars PROVE Settled'
  OBVIOUS
<1> USE DEF Settled
<1>1. CASE OpenSource \/ SetUp \/ Take
  BY <1>1 DEF OpenSource, SetUp, Take
<1>2. CASE OpenFails
  BY <1>2 DEF OpenFails, BindFails, Absent
<1>3. CASE SetUpFails
  <2>1. caller'["signal"] = caller["signal"]
    BY <1>3 DEF SetUpFails, CloseCalled, Typed, LiveTypeOK, SourceTypeOK
  <2> QED BY <1>3, <2>1 DEF SetUpFails, Absent
<1>4. CASE NextCall \/ WaitEnds
  BY <1>4 DEF NextCall, WaitEnds, LoopEnds, Ended
<1>5. CASE Report
  <2>1. PICK unwritten \in BOOLEAN : reportErr' = unwritten /\ code' \in ExitCodes(unwritten)
    BY <1>5 DEF Report
  <2>2. loopErr = readErr /\ closed /\ closed' = closed /\ readErr' = readErr /\ main' = "closing"
    BY <1>5 DEF Report
  <2>3. CASE unwritten
    BY <2>1, <2>2, <2>3 DEF ExitCodes
  <2>4. CASE ~unwritten
    BY <2>1, <2>2, <2>4 DEF ExitCodes
  <2> QED BY <2>3, <2>4
<1>6. CASE Exit
  BY <1>6 DEF Exit
<1>7. CASE Signal \/ UNCHANGED allVars
  BY <1>7 DEF Signal
<1>8. CASE SignalGoroutine
  BY <1>8 DEF SignalGoroutine, CloseCalled
<1>9. CASE UNCHANGED runVars /\ (Network \/ Closed)
  BY <1>9 DEF Network, Send, Toggle, Closed
<1>10. ASSUME NEW p \in Ports, ReadLoop(p), UNCHANGED runVars PROVE Settled'
  <2>1. closed => readErr' = readErr
    BY <1>10, LoopStep DEF ClosedAtEnd, AllEnded
  <2> QED BY <1>10, <2>1, LoopStep
<1>11. ASSUME NEW c \in Callers, Close(c), UNCHANGED runVars PROVE Settled'
  BY <1>11, CloseStep
<1> QED BY <1>1, <1>2, <1>3, <1>4, <1>5, <1>6, <1>7, <1>8, <1>9, <1>10, <1>11 DEF LiveNext, Main, Finished

(* A datagram taken from a closed source was the last one.                 *)
LEMMA StepAtMostOnce == Typed /\ AtMostOnce /\ [LiveNext]_allVars => AtMostOnce'
<1> SUFFICES ASSUME Typed, AtMostOnce, [LiveNext]_allVars PROVE AtMostOnce'
  OBVIOUS
<1> USE DEF AtMostOnce
<1>1. CASE Take
  BY <1>1 DEF Take
<1>2. CASE NextCall
  BY <1>2 DEF NextCall, LoopEnds, Ended
<1>3. CASE Main /\ ~Take /\ ~NextCall
  BY <1>3 DEF Main, OpenSource, Opened, OpenFails, BindFails, SetUp, SetUpFails, WaitEnds, LoopEnds, Report, Exit
<1>4. CASE Signal \/ SignalGoroutine \/ UNCHANGED allVars
  BY <1>4 DEF Signal, SignalGoroutine
<1>5. CASE UNCHANGED runVars /\ (Network \/ Closed)
  BY <1>5 DEF Network, Send, Toggle, Closed
<1>6. ASSUME NEW p \in Ports, ReadLoop(p), UNCHANGED runVars PROVE AtMostOnce'
  BY <1>6, LoopStep
<1>7. ASSUME NEW c \in Callers, Close(c), UNCHANGED runVars PROVE AtMostOnce'
  BY <1>7, CloseStep
<1> QED BY <1>1, <1>2, <1>3, <1>4, <1>5, <1>6, <1>7 DEF LiveNext, Finished

-----------------------------------------------------------------------------
(* The stream of one port.                                                 *)
PortIntact(p) ==
  /\ \A i \in DOMAIN taken[p] : taken[p][i] = i
  /\ \A i, j \in Queued(p) : i < j => datagrams[i].n < datagrams[j].n
  /\ \E last \in heard[p] - 1 .. heard[p] :
       /\ Len(taken[p]) <= last
       /\ {datagrams[i].n : i \in Queued(p)} = Len(taken[p]) + 1 .. last
       /\ IF last = heard[p] THEN ~InHand(p) ELSE InHand(p) \/ MayDrop(p)

(* Nothing of a port's stream moves, and a loop that dropped a datagram    *)
(* keeps the reason it had.                                                *)
LEMMA StreamUntouched ==
  ASSUME NEW p \in Ports, PortIntact(p), UNCHANGED <<taken, datagrams>>, heard'[p] = heard[p],
         InHand(p)' <=> InHand(p), MayDrop(p) => MayDrop(p)'
  PROVE  PortIntact(p)'
BY DEF PortIntact, Queued

(* A read puts one more datagram into the hands of the loop.               *)
LEMMA ReadIntact == ASSUME Typed, NEW p \in Ports, PortIntact(p), Read(p), taken' = taken PROVE PortIntact(p)'
<1>1. ~InHand(p) /\ ~MayDrop(p) /\ InHand(p)'
  BY DEF Read, InHand, MayDrop, Typed, LiveTypeOK, SourceTypeOK
<1>2. heard[p] \in Nat /\ heard'[p] = heard[p] + 1
  BY DEF Read, Typed, LiveTypeOK, SourceTypeOK
<1>3. Len(taken[p]) <= heard[p] /\ {datagrams[i].n : i \in Queued(p)} = Len(taken[p]) + 1 .. heard[p]
  BY <1>1, <1>2 DEF PortIntact
<1>4. datagrams' = datagrams
  BY DEF Read
<1> QED BY <1>1, <1>2, <1>3, <1>4 DEF PortIntact, Queued

(* The loop hands over what it holds.                                      *)
LEMMA EnqueueIntact ==
  ASSUME Typed, NEW p \in Ports, PortIntact(p), Enqueue(p), taken' = taken PROVE PortIntact(p)'
<1> DEFINE L == Len(datagrams)
<1>1. /\ heard[p] \in Nat /\ heard' = heard /\ L \in Nat
      /\ InHand(p) /\ ~InHand(p)' /\ Len(taken[p]) \in Nat
  BY SMTT(30) DEF Enqueue, InHand, Typed, LiveTypeOK, SourceTypeOK
<1>2. /\ Len(taken[p]) <= heard[p] - 1
      /\ {datagrams[i].n : i \in Queued(p)} = Len(taken[p]) + 1 .. heard[p] - 1
  BY <1>1 DEF PortIntact
<1>3. /\ Len(datagrams') = L + 1 /\ datagrams'[L + 1] = [port |-> p, n |-> heard[p]]
      /\ \A i \in 1 .. L : datagrams'[i] = datagrams[i]
      /\ DOMAIN datagrams = 1 .. L /\ DOMAIN datagrams' = 1 .. L + 1
  BY DEF Enqueue, Typed, LiveTypeOK, SourceTypeOK
<1> HIDE DEF L
<1>4. Queued(p)' = Queued(p) \cup {L + 1}
  BY <1>1, <1>3 DEF Queued
<1>5. \A i \in Queued(p) : i \in 1 .. L /\ datagrams'[i] = datagrams[i] /\ datagrams[i].n \in Len(taken[p]) + 1 .. heard[p] - 1
  BY <1>2, <1>3 DEF Queued
<1>6. \A i, j \in Queued(p)' : i < j => datagrams'[i].n < datagrams'[j].n
  BY <1>1, <1>3, <1>4, <1>5 DEF PortIntact
<1>7. {datagrams'[i].n : i \in Queued(p)'} = Len(taken[p]) + 1 .. heard[p]
  <2>1. {datagrams'[i].n : i \in Queued(p)'} = {datagrams[i].n : i \in Queued(p)} \cup {heard[p]}
    BY <1>3, <1>4, <1>5
  <2> QED BY <1>1, <1>2, <2>1, SMTT(30)
<1>8. \A i \in DOMAIN taken'[p] : taken'[p][i] = i
  BY DEF PortIntact
<1>9. heard'[p] \in heard'[p] - 1 .. heard'[p]
  BY <1>1
<1> QED BY <1>1, <1>2, <1>6, <1>7, <1>8, <1>9 DEF PortIntact

LEMMA OtherEnqueueIntact ==
  ASSUME Typed, NEW p \in Ports, NEW q \in Ports, q # p, PortIntact(p), Enqueue(q), taken' = taken
  PROVE  PortIntact(p)'
<1> DEFINE L == Len(datagrams)
<1>1. heard' = heard /\ L \in Nat
  BY DEF Enqueue, Typed, LiveTypeOK, SourceTypeOK
<1>2. pc'[p] = pc[p] /\ cancelled' = cancelled
  BY DEF Enqueue, Typed, LiveTypeOK, SourceTypeOK
<1>3. /\ datagrams'[L + 1].port = q
      /\ \A i \in 1 .. L : datagrams'[i] = datagrams[i]
      /\ DOMAIN datagrams = 1 .. L /\ DOMAIN datagrams' = 1 .. L + 1
  BY DEF Enqueue, Typed, LiveTypeOK, SourceTypeOK
<1> HIDE DEF L
<1>4. Queued(p)' = Queued(p) /\ \A i \in Queued(p) : datagrams'[i] = datagrams[i]
  BY <1>1, <1>3 DEF Queued
<1>5. {datagrams'[i].n : i \in Queued(p)'} = {datagrams[i].n : i \in Queued(p)}
  BY <1>4
<1> QED BY <1>1, <1>4, <1>5, <1>2 DEF PortIntact, InHand, MayDrop

(* A loop that meets the shutdown with a datagram in its hands drops it.   *)
LEMMA AbandonIntact ==
  ASSUME Typed, NEW p \in Ports, PortIntact(p), Abandon(p), taken' = taken PROVE PortIntact(p)'
<1>1. InHand(p) /\ MayDrop(p)' /\ heard[p] \in Nat /\ UNCHANGED <<datagrams, heard>>
  BY DEF Abandon, Abandons, InHand, MayDrop, Typed, LiveTypeOK, SourceTypeOK
<1>2. heard[p] - 1 # heard[p]
  BY <1>1
<1> QED BY <1>1, <1>2 DEF PortIntact, Queued

(* The head of the queue is the datagram its port is waiting for: the      *)
(* smallest of those queued, which begin where the taken ones end.         *)
LEMMA TakeIntact == ASSUME Typed, NEW p \in Ports, PortIntact(p), Take PROVE PortIntact(p)'
<1> DEFINE L == Len(datagrams)
           d == Head(datagrams)
<1>1. datagrams \in Seq([port : Ports, n : Nat]) /\ datagrams # << >> /\ taken[p] \in Seq(Nat)
  BY DEF Take, Typed, LiveTypeOK, SourceTypeOK
<1>2. /\ L \in Nat \ {0} /\ d = datagrams[1] /\ DOMAIN datagrams = 1 .. L
      /\ DOMAIN datagrams' = 1 .. L - 1
      /\ \A i \in 1 .. L - 1 : datagrams'[i] = datagrams[i + 1]
  BY <1>1 DEF Take
<1>3. /\ taken' = [taken EXCEPT ![d.port] = Append(@, d.n)]
      /\ taken \in [Ports -> Seq(Nat)]
      /\ heard'[p] = heard[p] /\ heard[p] \in Nat /\ InHand(p)' = InHand(p) /\ MayDrop(p)' = MayDrop(p)
  BY DEF Take, InHand, MayDrop, Typed, LiveTypeOK, SourceTypeOK
<1>4. d \in [port : Ports, n : Nat]
  BY <1>1, HeadTyped
<1> HIDE DEF L, d
<1>5. PICK last \in heard[p] - 1 .. heard[p] :
         /\ Len(taken[p]) <= last
         /\ {datagrams[i].n : i \in Queued(p)} = Len(taken[p]) + 1 .. last
         /\ IF last = heard[p] THEN ~InHand(p) ELSE InHand(p) \/ MayDrop(p)
  BY DEF PortIntact
<1>6. Queued(p)' = {i - 1 : i \in Queued(p) \ {1}}
  <2>1. ASSUME NEW i \in Queued(p)' PROVE i \in {k - 1 : k \in Queued(p) \ {1}}
    <3>1. i \in 1 .. L - 1 /\ i + 1 \in Queued(p) \ {1} /\ i = (i + 1) - 1
      BY <1>2 DEF Queued
    <3> QED BY <3>1
  <2>2. ASSUME NEW k \in Queued(p) \ {1} PROVE k - 1 \in Queued(p)'
    <3>1. k \in 1 .. L /\ k - 1 \in 1 .. L - 1 /\ (k - 1) + 1 = k
      BY <1>2 DEF Queued
    <3> QED BY <1>2, <3>1 DEF Queued
  <2> QED BY <2>1, <2>2
<1>7. \A i \in Queued(p)' : i \in Nat /\ i + 1 \in Queued(p) /\ datagrams'[i] = datagrams[i + 1]
  BY <1>2 DEF Queued
<1>8. \A i, j \in Queued(p)' : i < j => datagrams'[i].n < datagrams'[j].n
  BY <1>7 DEF PortIntact
<1>9. {datagrams'[i].n : i \in Queued(p)'} = {datagrams[i].n : i \in Queued(p) \ {1}}
  <2>1. ASSUME NEW i \in Queued(p)' PROVE datagrams'[i].n \in {datagrams[k].n : k \in Queued(p) \ {1}}
    BY <1>2, <1>7 DEF Queued
  <2>2. ASSUME NEW k \in Queued(p) \ {1} PROVE datagrams[k].n \in {datagrams'[i].n : i \in Queued(p)'}
    <3>1. k - 1 \in Queued(p)' /\ (k - 1) + 1 = k
      BY <1>2, <1>6 DEF Queued
    <3>2. datagrams'[k - 1].n = datagrams[k].n
      BY <1>7, <3>1
    <3> QED BY <3>1, <3>2
  <2> QED BY <2>1, <2>2
<1>10. CASE d.port # p
  <2>1. taken'[p] = taken[p] /\ Queued(p) \ {1} = Queued(p)
    BY <1>2, <1>3, <1>10 DEF Queued
  <2> QED BY <1>3, <1>5, <1>8, <1>9, <2>1 DEF PortIntact
<1>11. CASE d.port = p
  <2> DEFINE t == Len(taken[p])
  <2>1. 1 \in Queued(p)
    BY <1>2, <1>11 DEF Queued
  <2>2. t \in Nat /\ d.n \in t + 1 .. last /\ t + 1 \in t + 1 .. last
    <3>1. t \in Nat
      BY <1>1
    <3>2. d.n \in {datagrams[i].n : i \in Queued(p)}
      BY <1>2, <2>1
    <3>3. d.n \in t + 1 .. last
      BY <1>5, <3>2
    <3> QED BY <3>1, <3>3
  <2>3. \A i \in Queued(p) \ {1} : datagrams[1].n < datagrams[i].n
    <3>1. \A i \in Queued(p) \ {1} : 1 < i
      BY <1>2 DEF Queued
    <3>2. \A i, j \in Queued(p) : i < j => datagrams[i].n < datagrams[j].n
      BY DEF PortIntact
    <3> QED BY <2>1, <3>1, <3>2
  <2>4. d.n = t + 1
    <3>1. PICK i \in Queued(p) : datagrams[i].n = t + 1
      BY <1>5, <2>2
    <3>2. i # 1 => datagrams[1].n < datagrams[i].n
      BY <2>3
    <3> QED BY <1>2, <2>2, <3>1, <3>2
  <2>5. /\ taken'[p] = Append(taken[p], t + 1) /\ Len(taken'[p]) = t + 1
        /\ \A i \in DOMAIN taken'[p] : taken'[p][i] = i
    <3>1. taken'[p] = Append(taken[p], t + 1)
      BY <1>3, <1>11, <2>4
    <3> QED BY <1>1, <3>1, SMTT(30) DEF PortIntact
  <2>6. {datagrams[i].n : i \in Queued(p) \ {1}} = (t + 1 .. last) \ {t + 1}
    <3>1. \A i \in Queued(p) : datagrams[i].n = t + 1 <=> i = 1
      BY <1>2, <2>4, <2>2, <2>3
    <3> QED BY <1>5, <3>1
  <2>7. (t + 1 .. last) \ {t + 1} = (t + 1) + 1 .. last
    BY <2>2
  <2>8. {datagrams'[i].n : i \in Queued(p)'} = Len(taken'[p]) + 1 .. last
    <3>1. Len(taken'[p]) + 1 = (t + 1) + 1
      BY <2>5
    <3> QED BY <1>9, <2>6, <2>7, <3>1
  <2>9. Len(taken'[p]) <= last
    BY <2>2, <2>5
  <2> QED BY <1>3, <1>5, <1>8, <2>5, <2>8, <2>9 DEF PortIntact
<1> QED BY <1>10, <1>11

LEMMA StepIntact == Typed /\ StreamIntact /\ [LiveNext]_allVars => StreamIntact'
<1> SUFFICES ASSUME Typed, StreamIntact, [LiveNext]_allVars, NEW p \in Ports PROVE PortIntact(p)'
  BY DEF StreamIntact, PortIntact
<1>0. PortIntact(p)
  BY DEF StreamIntact, PortIntact
<1>1. CASE Take
  BY <1>0, <1>1, TakeIntact
<1>2. CASE OpenSource
  <2>1. UNCHANGED <<taken, datagrams, heard>> /\ ~InHand(p) /\ ~InHand(p)' /\ ~MayDrop(p)
    BY <1>2 DEF OpenSource, Opened, InHand, MayDrop, Typed, Started
  <2> QED BY <1>0, <2>1, StreamUntouched
<1>3. CASE Main /\ ~Take /\ ~OpenSource
  <2>1. UNCHANGED <<taken, datagrams, heard, pc>> /\ (cancelled => cancelled')
    BY <1>3 DEF Main, OpenFails, BindFails, SetUp, SetUpFails, NextCall, LoopEnds, WaitEnds, Report, Exit
  <2>2. (InHand(p)' <=> InHand(p)) /\ (MayDrop(p) => MayDrop(p)')
    BY <2>1 DEF InHand, MayDrop
  <2> QED BY <1>0, <2>1, <2>2, StreamUntouched
<1>4. CASE Signal \/ SignalGoroutine \/ UNCHANGED allVars
  <2>1. UNCHANGED <<taken, datagrams, heard, pc, cancelled>>
    BY <1>4 DEF Signal, SignalGoroutine
  <2> QED BY <1>0, <2>1, StreamUntouched DEF InHand, MayDrop
<1>5. CASE UNCHANGED runVars /\ (Network \/ Closed)
  <2>1. UNCHANGED <<taken, datagrams, heard, pc, cancelled>>
    BY <1>5 DEF Network, Send, Toggle, Closed
  <2> QED BY <1>0, <2>1, StreamUntouched DEF InHand, MayDrop
<1>6. ASSUME NEW c \in Callers, Close(c), UNCHANGED runVars PROVE PortIntact(p)'
  <2>1. UNCHANGED <<taken, datagrams, heard, pc>> /\ (cancelled => cancelled')
    BY <1>6, CloseStep
  <2> QED BY <1>0, <2>1, StreamUntouched DEF InHand, MayDrop
<1>7. ASSUME NEW q \in Ports, ReadLoop(q), UNCHANGED runVars PROVE PortIntact(p)'
  <2>1. CASE q = p
    <3>1. CASE Read(p) BY <1>0, <1>7, <3>1, ReadIntact
    <3>2. CASE Enqueue(p) BY <1>0, <1>7, <3>2, EnqueueIntact
    <3>3. CASE Abandon(p) BY <1>0, <1>7, <3>3, AbandonIntact
    <3>4. CASE ReadLoop(p) /\ ~Read(p) /\ ~Enqueue(p) /\ ~Abandon(p)
      <4>1. /\ UNCHANGED <<taken, datagrams, heard>> /\ ~InHand(p)' /\ ~InHand(p) /\ ~MayDrop(p)
        BY <1>7, <3>4 DEF ReadLoop, Check, ReadFails, Fail, GiveUp, Backoff, InHand, MayDrop, Typed, LiveTypeOK, SourceTypeOK
      <4> QED BY <1>0, <4>1, StreamUntouched
    <3> QED BY <1>7, <2>1, <3>1, <3>2, <3>3, <3>4
  <2>2. CASE q # p /\ Enqueue(q)
    BY <1>0, <1>7, <2>2, OtherEnqueueIntact
  <2>3. CASE q # p /\ ~Enqueue(q)
    <3>1. /\ UNCHANGED <<taken, datagrams>> /\ heard'[p] = heard[p] /\ pc'[p] = pc[p] /\ (cancelled => cancelled')
      BY <1>7, <2>3 DEF ReadLoop, Check, ReadFails, Read, Fail, GiveUp, Backoff, Abandon, Typed, LiveTypeOK, SourceTypeOK
    <3>2. (InHand(p)' <=> InHand(p)) /\ (MayDrop(p) => MayDrop(p)')
      BY <3>1 DEF InHand, MayDrop
    <3> QED BY <1>0, <3>1, <3>2, StreamUntouched
  <2> QED BY <2>1, <2>2, <2>3
<1> QED BY <1>1, <1>2, <1>3, <1>4, <1>5, <1>6, <1>7 DEF LiveNext, Finished

-----------------------------------------------------------------------------
(* What holds of every run: of the queue, whose capacity is never          *)
(* exceeded, of each read loop, whose errors stay within its limit, and of *)
(* the exit code.                                                          *)
THEOREM LiveTyped == LiveSpec => []LiveTypeOK
<1>1. LiveInit => Typed
  BY InitTyped
<1>2. Typed /\ [LiveNext]_allVars => Typed'
  BY StepTyped
<1>3. Typed => LiveTypeOK
  BY DEF Typed
<1> QED BY <1>1, <1>2, <1>3, PTL DEF LiveSpec

(* When run.go's Run exits, a read error recorded by any port's loop has   *)
(* become exit code 2, and 2 means such an error or a failed start, however*)
(* the signal, the loops and the two calls of Close met.                   *)
THEOREM DeadSocketIsReported == LiveSpec => []DeadSocketNeverPasses
<1> DEFINE Inv == Typed /\ ClosedAtEnd /\ Absent /\ Settled
<1>1. LiveInit => Inv
  BY InitTyped, InitRest
<1>2. Inv /\ [LiveNext]_allVars => Inv'
  BY StepTyped, StepClosedAtEnd, StepAbsent, StepSettled
<1>3. Inv => DeadSocketNeverPasses
  BY DEF Settled, DeadSocketNeverPasses
<1> HIDE DEF Inv
<1> QED BY <1>1, <1>2, <1>3, PTL DEF LiveSpec

(* Next's comment: no datagram is returned by a call that starts once the  *)
(* source is closed; one, at most, by the call that was blocked.           *)
THEOREM AtMostOneLate == LiveSpec => []LateBounded
<1> DEFINE Inv == Typed /\ AtMostOnce
<1>1. LiveInit => Inv
  BY InitTyped, InitRest
<1>2. Inv /\ [LiveNext]_allVars => Inv'
  BY StepTyped, StepAtMostOnce
<1>3. Inv => LateBounded
  BY DEF Typed, LiveTypeOK, AtMostOnce, LateBounded
<1> HIDE DEF Inv
<1> QED BY <1>1, <1>2, <1>3, PTL DEF LiveSpec

(* Through the shared queue each port's datagrams reach the engine in the  *)
(* order they were read, without a gap but for what a shutdown drops.      *)
THEOREM StreamsAreIntact == LiveSpec => []StreamIntact
<1> DEFINE Inv == Typed /\ StreamIntact
<1>1. LiveInit => Inv
  BY InitTyped, InitRest
<1>2. Inv /\ [LiveNext]_allVars => Inv'
  BY StepTyped, StepIntact
<1>3. Inv => StreamIntact
  OBVIOUS
<1> HIDE DEF Inv
<1> QED BY <1>1, <1>2, <1>3, PTL DEF LiveSpec
=============================================================================

--------------------------- MODULE MulticastSource ---------------------------
(***************************************************************************)
(* The live capture source (input/multicast.go): one goroutine per port    *)
(* reads a socket and hands datagrams to a bounded queue, one more closes  *)
(* the source when all of them have ended, and Next and Close are called   *)
(* from outside, Close possibly by several goroutines at once.             *)
(*                                                                         *)
(* Abstractions. A datagram is its port and its place in what that port    *)
(* was sent. A socket holds every datagram sent to it and not read yet;    *)
(* while its interface is down, a read fails. The backoff timer fires at   *)
(* some time.                                                              *)
(***************************************************************************)
EXTENDS Naturals, SequencesExt

CONSTANTS
  Ports,      \* the ports bound
  MaxErrs,    \* maxConsecutiveReadErrs
  Callers,    \* the goroutines that may call Close
  Plans       \* what a run may choose from: room, datagramChanSize; sends, the
              \* bound on the datagrams sent; fair, whether progress is assumed

ASSUME SizeAssumption ==
  /\ MaxErrs \in Nat \ {0}
  /\ Plans \subseteq [room : Nat \ {0}, sends : Nat, fair : BOOLEAN]

VARIABLES
  plan,       \* the plan the run follows
  sent,       \* datagrams sent to each port
  down,       \* ports whose interface is down
  pc,         \* where each read loop is
  heard,      \* datagrams each read loop has read
  errs,       \* its consecutiveErrs
  datagrams,  \* the queue
  conns,      \* ports whose socket is open
  cancelled,  \* the context is done
  readErr,    \* the port whose terminal error was recorded first, or None
  closed,     \* the channel closed by the last goroutine
  once,       \* closeOnce: "new", "busy" or "done"
  caller      \* where each caller of Close is

netVars    == <<plan, sent, down>>
loopVars   == <<pc, heard, errs>>
closeVars  == <<conns, once, caller>>
sourceVars == <<netVars, loopVars, datagrams, cancelled, readErr, closed, closeVars>>

None == "none"

LoopStates   == {"unstarted", "check", "read", "failed", "giveUp", "backoff", "send", "done"}
CallerStates == {"absent", "idle", "enter", "closing", "waiting", "returned"}

-----------------------------------------------------------------------------
(* The network. What happens on a port nobody reads is not modelled.       *)
Heeded(p) == p \in conns /\ pc[p] # "done"

Send(p) ==
  /\ Heeded(p)
  /\ FoldFunction(LAMBDA m, n : m + n, 0, sent) < plan.sends
  /\ sent' = [sent EXCEPT ![p] = @ + 1]
  /\ UNCHANGED <<plan, down, loopVars, datagrams, cancelled, readErr, closed, closeVars>>

Toggle(p) ==
  /\ Heeded(p)
  /\ down' = SymDiff(down, {p})
  /\ UNCHANGED <<plan, sent, loopVars, datagrams, cancelled, readErr, closed, closeVars>>

-----------------------------------------------------------------------------
(* readLoop.                                                               *)
Goto(p, state) == pc' = [pc EXCEPT ![p] = state]

(* The select before the read.                                             *)
Check(p) ==
  /\ pc[p] = "check"
  /\ Goto(p, IF cancelled THEN "done" ELSE "read")
  /\ UNCHANGED <<netVars, heard, errs, datagrams, cancelled, readErr, closed, closeVars>>

Failing(p) == p \notin conns \/ p \in down
Waiting(p) == ~Failing(p) /\ heard[p] = sent[p]

(* ReadFromUDPAddrPort returns; it blocks while there is nothing to read.   *)
ReadFails(p) ==
  /\ pc[p] = "read" /\ Failing(p)
  /\ Goto(p, "failed")
  /\ UNCHANGED <<netVars, heard, errs, datagrams, cancelled, readErr, closed, closeVars>>

Read(p) ==
  /\ pc[p] = "read" /\ ~Failing(p) /\ ~Waiting(p)
  /\ heard' = [heard EXCEPT ![p] = @ + 1]
  /\ errs' = [errs EXCEPT ![p] = 0]
  /\ Goto(p, "send")
  /\ UNCHANGED <<netVars, datagrams, cancelled, readErr, closed, closeVars>>

ExhaustedLate(p) == errs[p] + 1 > MaxErrs   \* variant: off by one

Exhausted(p) == errs[p] + 1 >= MaxErrs

(* A failed read: the end of the source, one failure of a run, or the last *)
(* one the loop puts up with.                                              *)
Fail(p) ==
  /\ pc[p] = "failed"
  /\ IF cancelled
       THEN Goto(p, "done") /\ UNCHANGED errs
       ELSE /\ errs' = [errs EXCEPT ![p] = @ + 1]
            /\ Goto(p, IF Exhausted(p) THEN "giveUp" ELSE "backoff")
  /\ UNCHANGED <<netVars, heard, datagrams, cancelled, readErr, closed, closeVars>>

(* The loop records the error, if it is the first, cancels the source and  *)
(* returns; no socket is closed.                                           *)
GiveUp(p) ==
  /\ pc[p] = "giveUp"
  /\ readErr' = IF readErr = None THEN p ELSE readErr
  /\ cancelled' = TRUE
  /\ Goto(p, "done")
  /\ UNCHANGED <<netVars, heard, errs, datagrams, closed, closeVars>>

Backoff(p) ==
  /\ pc[p] = "backoff"
  /\ \/ Goto(p, "check")
     \/ cancelled /\ Goto(p, "done")
  /\ UNCHANGED <<netVars, heard, errs, datagrams, cancelled, readErr, closed, closeVars>>

(* Variant: a full queue drops the datagram.                               *)
EnqueueOrDrop(p) ==
  /\ pc[p] = "send"
  /\ datagrams' = IF Len(datagrams) < plan.room
                    THEN Append(datagrams, [port |-> p, n |-> heard[p]]) ELSE datagrams
  /\ Goto(p, "check")
  /\ UNCHANGED <<netVars, heard, errs, cancelled, readErr, closed, closeVars>>

Enqueue(p) ==
  /\ pc[p] = "send"
  /\ Len(datagrams) < plan.room
  /\ datagrams' = Append(datagrams, [port |-> p, n |-> heard[p]])
  /\ Goto(p, "check")
  /\ UNCHANGED <<netVars, heard, errs, cancelled, readErr, closed, closeVars>>

NeverAbandons(p) == FALSE      \* variant: the send does not watch the context

Abandons(p) == pc[p] = "send" /\ cancelled

(* The source is cancelled while the datagram waits for room.              *)
Abandon(p) ==
  /\ Abandons(p)
  /\ Goto(p, "done")
  /\ UNCHANGED <<netVars, heard, errs, datagrams, cancelled, readErr, closed, closeVars>>

ReadLoop(p) ==
  \/ Check(p) \/ ReadFails(p) \/ Read(p) \/ Fail(p) \/ GiveUp(p)
  \/ Backoff(p) \/ Enqueue(p) \/ Abandon(p)

AllEnded == \A p \in Ports : pc[p] = "done"

(* The goroutine that waits for the others and closes the source.          *)
Closed ==
  /\ AllEnded /\ ~closed
  /\ closed' = TRUE
  /\ UNCHANGED <<netVars, loopVars, datagrams, cancelled, readErr, closeVars>>

-----------------------------------------------------------------------------
(* Close, called by c: closeOnce cancels and closes the sockets one by one, *)
(* a second caller waits for that; then each waits for closed.             *)
CallerGoto(c, state) == caller' = [caller EXCEPT ![c] = state]

CloseCalled(c) == caller[c] = "idle" /\ CallerGoto(c, "enter")

EnterClose(c) ==
  /\ caller[c] = "enter"
  /\ \/ once = "new" /\ once' = "busy" /\ cancelled' = TRUE /\ CallerGoto(c, "closing")
     \/ once = "done" /\ CallerGoto(c, "waiting") /\ UNCHANGED <<once, cancelled>>
  /\ UNCHANGED <<netVars, loopVars, datagrams, readErr, closed, conns>>

CloseSocket(c) ==
  /\ caller[c] = "closing"
  /\ \/ \E p \in conns : conns' = conns \ {p} /\ UNCHANGED <<once, caller>>
     \/ conns = {} /\ once' = "done" /\ CallerGoto(c, "waiting") /\ UNCHANGED conns
  /\ UNCHANGED <<netVars, loopVars, datagrams, cancelled, readErr, closed>>

CloseReturns(c) ==
  /\ caller[c] = "waiting" /\ closed
  /\ CallerGoto(c, "returned")
  /\ UNCHANGED <<netVars, loopVars, datagrams, cancelled, readErr, closed, conns, once>>

Close(c) == EnterClose(c) \/ CloseSocket(c) \/ CloseReturns(c)

-----------------------------------------------------------------------------
SourceInit ==
  /\ plan \in Plans
  /\ sent = [p \in Ports |-> 0] /\ down = {}
  /\ pc = [p \in Ports |-> "unstarted"]
  /\ heard = [p \in Ports |-> 0] /\ errs = [p \in Ports |-> 0]
  /\ datagrams = << >>
  /\ conns = {} /\ cancelled = FALSE /\ readErr = None /\ closed = FALSE
  /\ once = "new"

(* NewMulticastSource: every socket is bound before any loop starts.        *)
Opened ==
  /\ conns' = Ports
  /\ pc' = [p \in Ports |-> "check"]
  /\ UNCHANGED <<netVars, heard, errs, datagrams, cancelled, readErr, closed, once, caller>>

(* A bind fails: the sockets already bound are closed, nothing was started. *)
BindFails ==
  /\ cancelled' = TRUE
  /\ UNCHANGED <<netVars, loopVars, datagrams, readErr, closed, closeVars>>

SourceTypeOK ==
  /\ plan \in Plans
  /\ sent \in [Ports -> Nat] /\ down \subseteq Ports
  /\ pc \in [Ports -> LoopStates]
  /\ heard \in [Ports -> Nat] /\ errs \in [Ports -> 0 .. MaxErrs]
  /\ datagrams \in Seq([port : Ports, n : Nat]) /\ Len(datagrams) <= plan.room
  /\ conns \subseteq Ports /\ cancelled \in BOOLEAN
  /\ readErr \in Ports \cup {None} /\ closed \in BOOLEAN
  /\ once \in {"new", "busy", "done"}
  /\ caller \in [Callers -> CallerStates]
=============================================================================

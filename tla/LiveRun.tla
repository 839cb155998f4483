------------------------------- MODULE LiveRun -------------------------------
(***************************************************************************)
(* A live run (run.go, Run): the main goroutine opens the source, reads it *)
(* until it ends, drains the engine and reports; another goroutine waits   *)
(* for a signal, or for the end of the loop, and closes the source. The    *)
(* deferred Close of main may therefore meet the one of that goroutine.    *)
(*                                                                         *)
(* Abstractions. Processing a datagram is part of the step that takes it.  *)
(* The verdict of the report is any, and writing its JSON form may fail.   *)
(* The metrics listener, which fails before anything is open, is left out. *)
(***************************************************************************)
EXTENDS MulticastSource

ASSUME CallersAssumption == {"main", "signal"} \subseteq Callers

VARIABLES
  main,       \* where Run is
  taken,      \* per port, the datagrams processed
  signalled,  \* SIGINT or SIGTERM arrived
  loopErr,    \* Run's readErr
  reportErr,  \* whether the JSON report could not be written
  code,       \* the exit code
  late        \* history: datagrams Next returned after the source closed

runVars == <<main, taken, signalled, loopErr, reportErr, code, late>>
allVars == <<sourceVars, runVars>>

Undecided == 3

-----------------------------------------------------------------------------
(* buildSource.                                                            *)
OpenSource ==
  /\ main = "open"
  /\ Opened
  /\ main' = "setup"
  /\ UNCHANGED <<taken, signalled, loopErr, reportErr, code, late>>

OpenFails ==
  /\ main = "open"
  /\ BindFails
  /\ main' = "exit" /\ code' = 2
  /\ UNCHANGED <<taken, signalled, loopErr, reportErr, late>>

(* The source registry is read with the source open; then the goroutine    *)
(* that listens for signals starts.                                        *)
SetUp ==
  /\ main = "setup"
  /\ main' = "next"
  /\ caller' = [caller EXCEPT !["signal"] = "idle"]
  /\ UNCHANGED <<netVars, loopVars, datagrams, cancelled, readErr, closed, conns, once,
                 taken, signalled, loopErr, reportErr, code, late>>

SetUpFails ==
  /\ main = "setup"
  /\ CloseCalled("main")
  /\ main' = "closing" /\ code' = 2
  /\ UNCHANGED <<netVars, loopVars, datagrams, cancelled, readErr, closed, conns, once,
                 taken, signalled, loopErr, reportErr, late>>

-----------------------------------------------------------------------------
(* Next, called by the loop.                                               *)
EndedEarly == cancelled    \* variant: Next watches the context, not closed
Ended == closed

(* Next returns ok = false with the recorded error, and the loop ends.     *)
LoopEnds ==
  /\ loopErr' = readErr
  /\ main' = "report"
  /\ UNCHANGED <<sourceVars, taken, signalled, reportErr, code, late>>

(* The check that precedes the blocking select.                            *)
NextUnchecked ==                       \* variant: there is none
  /\ main = "next" /\ main' = "wait"
  /\ UNCHANGED <<sourceVars, taken, signalled, loopErr, reportErr, code, late>>

NextCall ==
  /\ main = "next"
  /\ IF Ended THEN LoopEnds
     ELSE /\ main' = "wait"
          /\ UNCHANGED <<sourceVars, taken, signalled, loopErr, reportErr, code, late>>

Take ==
  /\ main = "wait"
  /\ datagrams # << >>
  /\ LET d == Head(datagrams) IN taken' = [taken EXCEPT ![d.port] = Append(@, d.n)]
  /\ datagrams' = Tail(datagrams)
  /\ late' = IF closed THEN late + 1 ELSE late
  /\ main' = "next"
  /\ UNCHANGED <<netVars, loopVars, cancelled, readErr, closed, closeVars,
                 signalled, loopErr, reportErr, code>>

NeverWakes == FALSE                    \* variant: the blocking select has no closed case

WaitEnds == main = "wait" /\ Ended /\ LoopEnds

-----------------------------------------------------------------------------
(* Flush, EndRun and the report; the deferred Close follows.               *)
ExitCodes(unwritten) == IF loopErr # None \/ unwritten THEN {2} ELSE {0, 1}

Report ==
  /\ main = "report"
  /\ CloseCalled("main")
  /\ \E unwritten \in BOOLEAN : reportErr' = unwritten /\ code' \in ExitCodes(unwritten)
  /\ main' = "closing"
  /\ UNCHANGED <<netVars, loopVars, datagrams, cancelled, readErr, closed, conns, once,
                 taken, signalled, loopErr, late>>

Exit ==
  /\ main = "closing"
  /\ caller["main"] = "returned"
  /\ main' = "exit"
  /\ UNCHANGED <<sourceVars, taken, signalled, loopErr, reportErr, code, late>>

Main == OpenSource \/ OpenFails \/ SetUp \/ SetUpFails \/ NextCall \/ Take \/ WaitEnds \/ Report \/ Exit

-----------------------------------------------------------------------------
(* A signal arrives while Run listens for it.                              *)
Signal ==
  /\ main \in {"next", "wait"} /\ ~signalled
  /\ signalled' = TRUE
  /\ UNCHANGED <<sourceVars, main, taken, loopErr, reportErr, code, late>>

(* The goroutine that closes the source on a signal or when the loop ends. *)
SignalGoroutine ==
  /\ signalled \/ main \in {"report", "closing"}
  /\ CloseCalled("signal")
  /\ UNCHANGED <<netVars, loopVars, datagrams, cancelled, readErr, closed, conns, once, runVars>>

Finished == main = "exit" /\ UNCHANGED allVars

LiveInit ==
  /\ SourceInit
  /\ caller = [c \in Callers |-> IF c = "signal" THEN "absent" ELSE "idle"]
  /\ main = "open" /\ taken = [p \in Ports |-> << >>]
  /\ signalled = FALSE /\ loopErr = None /\ reportErr = FALSE /\ code = Undecided /\ late = 0

Network == \E p \in Ports : Send(p) \/ Toggle(p)

(* The process runs until main exits, whatever else still runs.            *)
LiveNext ==
  \/ main # "exit" /\ \/ Main
                      \/ Signal
                      \/ SignalGoroutine
                      \/ UNCHANGED runVars /\ \/ Network
                                              \/ \E p \in Ports : ReadLoop(p)
                                              \/ Closed
                                              \/ \E c \in Callers : Close(c)
  \/ Finished

LiveSpec == LiveInit /\ [][LiveNext]_allVars

(* In a fair plan each goroutine that can take a step takes one some time; *)
(* the network, the interfaces and the operator owe nothing.               *)
Goes(A) == plan.fair /\ main # "exit" /\ A

InSource(A) == Goes(A) /\ UNCHANGED runVars

LiveFair ==
  /\ WF_allVars(Goes(Main))
  /\ WF_allVars(Goes(SignalGoroutine))
  /\ WF_allVars(InSource(Closed))
  /\ \A p \in Ports : WF_allVars(InSource(ReadLoop(p)))
  /\ \A c \in Callers : WF_allVars(InSource(Close(c)))

FairLiveSpec == LiveSpec /\ LiveFair

-----------------------------------------------------------------------------
LiveTypeOK ==
  /\ SourceTypeOK
  /\ main \in {"open", "setup", "next", "wait", "report", "closing", "exit"}
  /\ taken \in [Ports -> Seq(Nat)]
  /\ signalled \in BOOLEAN /\ loopErr \in Ports \cup {None} /\ reportErr \in BOOLEAN
  /\ code \in 0 .. Undecided /\ late \in Nat

(* What Next's comment promises of a socket that dies: the run does not    *)
(* finish as a clean pass. However the signal, the read loops and the two  *)
(* calls of Close interleave, the exit code is 2 after a recorded read     *)
(* error and after a report that could not be written, and a run that      *)
(* started and met neither exits with its verdict, 0 or 1.                 *)
DeadSocketNeverPasses ==
  main = "exit" => /\ readErr # None \/ reportErr => code = 2
                   /\ code = 2 => \/ readErr # None \/ reportErr
                                  \/ caller["signal"] = "absent"

(* Each port's datagrams reach the engine in the order they were read and  *)
(* none is passed over: what was taken, then what is queued, is numbered   *)
(* on from 1 up to the last one read, but for the one a read loop has in   *)
(* its hands, or dropped from them when it met the shutdown.               *)
Queued(p) == {i \in DOMAIN datagrams : datagrams[i].port = p}

InHand(p)  == pc[p] = "send"
MayDrop(p) == cancelled /\ pc[p] = "done"

StreamIntact ==
  \A p \in Ports :
    /\ \A i \in DOMAIN taken[p] : taken[p][i] = i
    /\ \A i, j \in Queued(p) : i < j => datagrams[i].n < datagrams[j].n
    /\ \E last \in heard[p] - 1 .. heard[p] :
         /\ Len(taken[p]) <= last
         /\ {datagrams[i].n : i \in Queued(p)} = Len(taken[p]) + 1 .. last
         /\ IF last = heard[p] THEN ~InHand(p) ELSE InHand(p) \/ MayDrop(p)

(* Next's comment: a call that starts after Close returned yields nothing, *)
(* so at most the call already blocked then returns one more datagram.     *)
LateBounded == late <= 1

(* A signal, or a start that fails after the sockets are open, ends the    *)
(* process, also when nobody takes from the queue any more.                *)
ShutdownCompletes == plan.fair => ((signalled \/ main = "closing") ~> main = "exit")

(* A terminal read error ends the run, unless another port's read loop     *)
(* stays in a read for ever: the only thing that can keep it from ending,  *)
(* since the loop that gives up cancels the context and closes no socket.  *)
FailureEndsRunUnlessBlocked ==
  plan.fair =>
    (readErr # None ~> (main = "exit" \/ \E p \in Ports : [](pc[p] = "read")))
=============================================================================

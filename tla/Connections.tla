---------------------------- MODULE Connections ----------------------------
(***************************************************************************)
(* The life of proxied connections: the accept loops and the channel to    *)
(* Client.Run, handleConn with its connection counter, copyThenClose,      *)
(* ConnSet, Shutdown and the signal handler of main                        *)
(* (src/proxy/proxy/client.go, src/proxy/proxy/common.go,                  *)
(* src/cmd/cloud_sql_proxy/cloud_sql_proxy.go).                            *)
(*                                                                         *)
(* Every connection c has a handler goroutine (pc[c]) and, while data is   *)
(* copied, two copying goroutines: "up" copies from the local socket to    *)
(* the remote one, and "down", which is the handler itself, back.  How     *)
(* DialContext gets a remote socket is ConfigCache's subject; here it      *)
(* succeeds or fails.                                                      *)
(***************************************************************************)
EXTENDS Integers, Sequences, FiniteSetsExt

CONSTANTS
  Conns,           \* client connections
  Ids,             \* instance names
  Id,              \* the instance each connection is for
  MaxConnections,  \* Client.MaxConnections, 0 for no limit
  UseFuse,         \* FUSE: Client.Conns is not nil and the source may close
  Wrap             \* the counter counts modulo Wrap (2^64 in the code)

ASSUME ConnectionsAssumption ==
  /\ Id \in [Conns -> Ids]
  /\ IsFiniteSet(Conns)
  /\ MaxConnections \in Nat
  /\ UseFuse \in BOOLEAN
  /\ Wrap \in Nat /\ Wrap > Cardinality(Conns)

Dirs == {"up", "down"}

VARIABLES
  pc,          \* control point of each connection's handler
  active,      \* handleConn's local `active`
  counter,     \* Client.ConnectionsCounter
  localOpen,   \* the socket to the client is open
  remoteOpen,  \* the socket to the instance is open
  copier,      \* control points of the two copying goroutines
  firstErr,    \* the one-place channel firstErr of copyThenClose is full
  connSet,     \* ConnSet.m; <<>> is an absent key
  connSrc,     \* the channel to Run, of capacity 1
  srcClosed,   \* fsRoot.Close has closed it
  runPc,       \* control point of Run
  shutdown,    \* control point of the signal handler and Shutdown
  exit,        \* how the process ended
  counted      \* history: connections in the counter when the signal came

handlerVars == <<pc, active, counter>>
copyVars    == <<localOpen, remoteOpen, copier, firstErr>>
srcVars     == <<connSrc, srcClosed, runPc>>
endVars     == <<shutdown, exit, counted>>
vars == <<handlerVars, copyVars, connSet, srcVars, endVars>>

HandlerPcs == {"client", "accepted", "queued", "spawned", "check", "refused", "dial",
               "add", "copy", "remove", "leave", "done", "ignored"}
CopyPcs == {"none", "copy", "ended", "won", "half", "done"}

\* Between its increment and its decrement of the counter.
InCounter(c) == pc[c] \in {"check", "refused", "dial", "add", "copy", "remove", "leave"}

\* Past the check of the limit and not finished: dialing or established.
Admitted(c) == pc[c] \in {"dial", "add", "copy", "remove"}

Init ==
  /\ pc = [c \in Conns |-> "client"]
  /\ active = [c \in Conns |-> 0]
  /\ counter = 0
  /\ localOpen = [c \in Conns |-> FALSE]
  /\ remoteOpen = [c \in Conns |-> FALSE]
  /\ copier = [c \in Conns |-> [g \in Dirs |-> "none"]]
  /\ firstErr = [c \in Conns |-> FALSE]
  /\ connSet = [i \in Ids |-> <<>>]
  /\ connSrc = <<>>
  /\ srcClosed = FALSE
  /\ runPc = "range"
  /\ shutdown = "waiting"
  /\ exit = "running"
  /\ counted = {}

Goto(c, from, to) == pc[c] = from /\ pc' = [pc EXCEPT ![c] = to]

-----------------------------------------------------------------------------
(* The source of connections and Run.                                      *)

\* The accept loop of an instance takes a client that connects.  It takes no
\* other until this one is in the channel.
Accept(c) ==
  /\ \A d \in Conns : Id[d] = Id[c] => pc[d] # "accepted"
  /\ Goto(c, "client", "accepted")
  /\ localOpen' = [localOpen EXCEPT ![c] = TRUE]
  /\ UNCHANGED <<active, counter, remoteOpen, copier, firstErr, connSet, srcVars, endVars>>

\* The send of listenInstance, or fsRoot.newConn with an open channel.
SendConn(c) ==
  /\ ~srcClosed
  /\ connSrc = <<>>
  /\ Goto(c, "accepted", "queued")
  /\ connSrc' = <<c>>
  /\ UNCHANGED <<active, counter, copyVars, connSet, srcClosed, runPc, endVars>>

\* fsRoot.newConn after fsRoot.Close: the connection is dropped as it is.
IgnoreConn(c) ==
  /\ srcClosed
  /\ Goto(c, "accepted", "ignored")
  /\ UNCHANGED <<active, counter, copyVars, connSet, srcVars, endVars>>

\* fsRoot.Close closes the channel.
CloseSource ==
  /\ UseFuse /\ ~srcClosed
  /\ srcClosed' = TRUE
  /\ UNCHANGED <<handlerVars, copyVars, connSet, connSrc, runPc, endVars>>

\* Run takes a connection from the channel and starts its handler.
RunNext ==
  /\ runPc = "range" /\ connSrc # <<>>
  /\ pc' = [pc EXCEPT ![connSrc[1]] = "spawned"]
  /\ connSrc' = <<>>
  /\ UNCHANGED <<active, counter, copyVars, connSet, srcClosed, runPc, endVars>>

\* The channel is closed and drained, and Run leaves its loop.
RunDrained ==
  /\ runPc = "range" /\ connSrc = <<>> /\ srcClosed
  /\ runPc' = "close"
  /\ UNCHANGED <<handlerVars, copyVars, connSet, connSrc, srcClosed, endVars>>

\* ConnSet.Close closes the local socket of every connection in the set.
RunClose ==
  /\ runPc = "close"
  /\ runPc' = "returned"
  /\ localOpen' = [c \in Conns |-> localOpen[c] /\ c \notin Range(connSet[Id[c]])]
  /\ UNCHANGED <<handlerVars, remoteOpen, copier, firstErr, connSet, connSrc, srcClosed,
                 endVars>>

-----------------------------------------------------------------------------
(* handleConn.                                                             *)

\* Mutant: the limit is checked against the counter before the increment.
CountBefore(c) ==
  /\ Goto(c, "spawned", "check")
  /\ counter' = (counter + 1) % Wrap
  /\ active' = [active EXCEPT ![c] = counter]
  /\ UNCHANGED <<copyVars, connSet, srcVars, endVars>>

Count(c) ==
  /\ Goto(c, "spawned", "check")
  /\ counter' = (counter + 1) % Wrap
  /\ active' = [active EXCEPT ![c] = counter']
  /\ UNCHANGED <<copyVars, connSet, srcVars, endVars>>

OverLimit(c) == MaxConnections > 0 /\ active[c] > MaxConnections

CheckLimit(c) ==
  /\ \/ OverLimit(c) /\ Goto(c, "check", "refused")
     \/ ~OverLimit(c) /\ Goto(c, "check", "dial")
  /\ UNCHANGED <<active, counter, copyVars, connSet, srcVars, endVars>>

\* Mutant: the early return skips the decrement.
RefuseWithoutDefer(c) ==
  /\ Goto(c, "refused", "done")
  /\ localOpen' = [localOpen EXCEPT ![c] = FALSE]
  /\ UNCHANGED <<active, counter, remoteOpen, copier, firstErr, connSet, srcVars, endVars>>

Refuse(c) ==
  /\ Goto(c, "refused", "leave")
  /\ localOpen' = [localOpen EXCEPT ![c] = FALSE]
  /\ UNCHANGED <<active, counter, remoteOpen, copier, firstErr, connSet, srcVars, endVars>>

DialOk(c) ==
  /\ Goto(c, "dial", "add")
  /\ remoteOpen' = [remoteOpen EXCEPT ![c] = TRUE]
  /\ UNCHANGED <<active, counter, localOpen, copier, firstErr, connSet, srcVars, endVars>>

DialFail(c) ==
  /\ Goto(c, "dial", "leave")
  /\ localOpen' = [localOpen EXCEPT ![c] = FALSE]
  /\ UNCHANGED <<active, counter, remoteOpen, copier, firstErr, connSet, srcVars, endVars>>

\* ConnSet.Add and the start of copyThenClose.  A nil ConnSet does nothing.
SetAdd(c) ==
  /\ Goto(c, "add", "copy")
  /\ connSet' = IF UseFuse THEN [connSet EXCEPT ![Id[c]] = Append(@, c)] ELSE connSet
  /\ copier' = [copier EXCEPT ![c] = [g \in Dirs |-> "copy"]]
  /\ UNCHANGED <<active, counter, localOpen, remoteOpen, firstErr, srcVars, endVars>>

\* Mutant: the first connection of the id is removed, whichever it is.
SetWithoutFirst(s, c) == Tail(s)

\* ConnSet.Remove: the slice without the first occurrence of the connection.
SetWithout(s, c) ==
  LET pos == Min({n \in DOMAIN s : s[n] = c})
  IN IF c \in Range(s) THEN [n \in 1..Len(s) - 1 |-> s[IF n < pos THEN n ELSE n + 1]] ELSE s

\* copyThenClose has returned; ConnSet.Remove.
SetRemove(c) ==
  /\ Goto(c, "remove", "leave")
  /\ connSet' = IF UseFuse THEN [connSet EXCEPT ![Id[c]] = SetWithout(@, c)] ELSE connSet
  /\ UNCHANGED <<active, counter, copyVars, srcVars, endVars>>

\* The deferred decrement: adding ^uint64(0) modulo the counter's range.
Uncount(c) ==
  /\ Goto(c, "leave", "done")
  /\ counter' = (counter + (Wrap - 1)) % Wrap
  /\ UNCHANGED <<active, copyVars, connSet, srcVars, endVars>>

-----------------------------------------------------------------------------
(* copyThenClose.                                                          *)

CopyGoto(c, g, from, to) ==
  /\ copier[c][g] = from
  /\ copier' = [copier EXCEPT ![c][g] = to]

\* The socket that goroutine g reads from has been closed by the proxy.
ReadsClosed(c, g) == IF g = "up" THEN ~localOpen[c] ELSE ~remoteOpen[c]

\* The end of copyThenClose in the handler's own goroutine.
CopyReturn(c, g) ==
  pc' = IF g = "down" THEN [pc EXCEPT ![c] = "remove"] ELSE pc

\* myCopy returns: a peer closed or reset its connection, or the proxy did.
CopyEnd(c, g) ==
  /\ CopyGoto(c, g, "copy", "ended")
  /\ UNCHANGED <<handlerVars, localOpen, remoteOpen, firstErr, connSet, srcVars, endVars>>

\* The select: the first one to put its error in the channel closes both.
CopyFirst(c, g) ==
  /\ ~firstErr[c]
  /\ CopyGoto(c, g, "ended", "won")
  /\ firstErr' = [firstErr EXCEPT ![c] = TRUE]
  /\ UNCHANGED <<handlerVars, localOpen, remoteOpen, connSet, srcVars, endVars>>

\* The select of the second one takes the default branch.
CopySecond(c, g) ==
  /\ firstErr[c]
  /\ CopyGoto(c, g, "ended", "done")
  /\ CopyReturn(c, g)
  /\ UNCHANGED <<active, counter, localOpen, remoteOpen, firstErr, connSet, srcVars, endVars>>

CloseRemote(c, g) ==
  /\ CopyGoto(c, g, "won", "half")
  /\ remoteOpen' = [remoteOpen EXCEPT ![c] = FALSE]
  /\ UNCHANGED <<handlerVars, localOpen, firstErr, connSet, srcVars, endVars>>

\* Mutant: only the socket to the instance is closed.
CloseLocalForgotten(c, g) ==
  /\ CopyGoto(c, g, "half", "done")
  /\ CopyReturn(c, g)
  /\ UNCHANGED <<active, counter, localOpen, remoteOpen, firstErr, connSet, srcVars, endVars>>

CloseLocal(c, g) ==
  /\ CopyGoto(c, g, "half", "done")
  /\ CopyReturn(c, g)
  /\ localOpen' = [localOpen EXCEPT ![c] = FALSE]
  /\ UNCHANGED <<active, counter, remoteOpen, firstErr, connSet, srcVars, endVars>>

-----------------------------------------------------------------------------
(* Shutdown, the signal handler and the end of main.                       *)

\* SIGTERM or SIGINT: main's goroutine calls Shutdown.
Signal ==
  /\ shutdown = "waiting"
  /\ shutdown' = "loop"
  /\ counted' = {c \in Conns : InCounter(c)}
  /\ UNCHANGED <<handlerVars, copyVars, connSet, srcVars, exit>>

\* The ticker finds no connection.  (If it finds one, the loop goes on.)
TickerEnds ==
  /\ shutdown = "loop" /\ counter = 0
  /\ shutdown' = "last"
  /\ UNCHANGED <<handlerVars, copyVars, connSet, srcVars, exit, counted>>

\* Mutant: Shutdown waits on while there are connections.
TermWaits ==
  /\ shutdown = "loop" /\ counter = 0
  /\ shutdown' = "last"
  /\ UNCHANGED <<handlerVars, copyVars, connSet, srcVars, exit, counted>>

\* The timeout is over.
TermEnds ==
  /\ shutdown = "loop"
  /\ shutdown' = "last"
  /\ UNCHANGED <<handlerVars, copyVars, connSet, srcVars, exit, counted>>

\* Mutant: Shutdown trusts that its loop ended because of the ticker.
LastLoadSkipped ==
  /\ shutdown = "last"
  /\ shutdown' = "exit0"
  /\ UNCHANGED <<handlerVars, copyVars, connSet, srcVars, exit, counted>>

\* The counter is read again to decide how the process exits.
LastLoad ==
  /\ shutdown = "last"
  /\ shutdown' = IF counter = 0 THEN "exit0" ELSE "exit2"
  /\ UNCHANGED <<handlerVars, copyVars, connSet, srcVars, exit, counted>>

\* os.Exit in the signal handler, or the return of main after Run's.
Exit ==
  /\ \/ shutdown \in {"exit0", "exit2"} /\ exit' = shutdown
     \/ runPc = "returned" /\ exit' = "main"
  /\ UNCHANGED <<handlerVars, copyVars, connSet, srcVars, shutdown, counted>>

-----------------------------------------------------------------------------
SourceStep(c) == Accept(c) \/ SendConn(c) \/ IgnoreConn(c)

HandleStep(c) ==
  \/ Count(c) \/ CheckLimit(c) \/ Refuse(c) \/ DialOk(c) \/ DialFail(c)
  \/ SetAdd(c) \/ SetRemove(c) \/ Uncount(c)

CopyStep(c, g) ==
  CopyFirst(c, g) \/ CopySecond(c, g) \/ CloseRemote(c, g) \/ CloseLocal(c, g)

RunStep == RunNext \/ RunDrained \/ RunClose

ShutdownStep == TickerEnds \/ TermEnds \/ LastLoad

Next ==
  /\ exit = "running"
  /\ \/ \E c \in Conns : SourceStep(c) \/ HandleStep(c)
     \/ \E c \in Conns, g \in Dirs : CopyEnd(c, g) \/ CopyStep(c, g)
     \/ CloseSource \/ RunStep
     \/ Signal \/ ShutdownStep \/ Exit

Spec == Init /\ [][Next]_vars

Running(A) == exit = "running" /\ A

\* Goroutines run, a dial ends, timers fire, and a read from a socket that the
\* proxy has closed returns.  Peers need not do anything.
Fairness ==
  /\ \A c \in Conns : WF_vars(Running(SendConn(c))) /\ WF_vars(Running(HandleStep(c)))
  /\ \A c \in Conns, g \in Dirs :
       /\ WF_vars(Running(CopyStep(c, g)))
       /\ WF_vars(Running(ReadsClosed(c, g) /\ CopyEnd(c, g)))
  /\ WF_vars(Running(RunStep))
  /\ WF_vars(Running(ShutdownStep))
  /\ WF_vars(Running(Exit))

FairSpec == Spec /\ Fairness

-----------------------------------------------------------------------------
(* Properties.                                                             *)

\* The counter is the number of handlers between their increment and their
\* deferred decrement, on every path out of handleConn: a path that forgot
\* one would use up MaxConnections, or wrap the unsigned counter.
CounterExact == counter = Cardinality({c \in Conns : InCounter(c)})

\* However handlers interleave, no more than MaxConnections connections are
\* dialing or established: handleConn decides on what its own increment
\* returned.
LimitRespected ==
  MaxConnections > 0 => Cardinality({c \in Conns : Admitted(c)}) <= MaxConnections

\* The ConnSet holds each connection that is being copied once, under its own
\* instance, and no other: Remove finds what Add put there, whatever was
\* added and removed in between, and IDs lists the instances in use.
ConnSetExact ==
  \A i \in Ids :
    /\ IsInjective(connSet[i])
    /\ Range(connSet[i]) =
         {c \in Conns : UseFuse /\ Id[c] = i /\ pc[c] \in {"copy", "remove"}}

\* An exit code of 0 means that every connection that was in the counter when
\* the signal came has finished, however many came later: Shutdown decides on
\* a counter it reads once more after its loop.
CountedAwaited == exit = "exit0" => \A c \in counted : pc[c] = "done"

\* When the handler of a connection is done, or one copying goroutine is, both
\* sockets get closed and both goroutines end, although the goroutine that
\* lost the race for firstErr leaves the closing to the other (unless the
\* process ends first).
NothingLeaks ==
  \A c \in Conns :
    (pc[c] = "done" \/ \E g \in Dirs : copier[c][g] = "done")
      ~> \/ exit # "running"
         \/ /\ pc[c] = "done" /\ ~localOpen[c] /\ ~remoteOpen[c]
            /\ \A g \in Dirs : copier[c][g] \in {"none", "done"}

\* A signal ends the process, also if connections stay open and new ones keep
\* coming.
SignalEnds == shutdown = "loop" ~> exit # "running"

\* The comment on Client.Conns, "If nil, connections are not tracked and will
\* not be closed before method Run exits": with a ConnSet they are.
ClosedBeforeRunExits ==
  runPc = "returned" => \A c \in Conns : pc[c] = "copy" => ~localOpen[c]

-----------------------------------------------------------------------------
(* The inductive invariant behind the counter, the limit and the exit code. *)

HandlersTyped ==
  /\ pc \in [Conns -> HandlerPcs]
  /\ active \in [Conns -> Nat]
  /\ copier \in [Conns -> [Dirs -> CopyPcs]]
  /\ counted \in SUBSET Conns

\* What is in the channel to Run is a connection that waits there.
QueuedInChannel ==
  connSrc = <<>> \/ \E c \in Conns : connSrc = <<c>> /\ pc[c] = "queued"

\* The handler stays in copyThenClose as long as its copying goes on.
CopyingInHandler ==
  \A c \in Conns : copier[c]["down"] \notin {"none", "done"} => pc[c] = "copy"

\* Admitted, or sure to be when the handler compares `active` to the limit.
Admissible(c) == Admitted(c) \/ (pc[c] = "check" /\ ~OverLimit(c))

LimitReserved ==
  MaxConnections > 0 => Cardinality({c \in Conns : Admissible(c)}) <= MaxConnections

\* Connections in the counter at the signal leave it only by finishing, and
\* exit code 0 is chosen when all have.
SignalInv ==
  /\ \A c \in counted : InCounter(c) \/ pc[c] = "done"
  /\ "exit0" \in {shutdown, exit} => \A c \in counted : pc[c] = "done"

\* The conjunction is inductive: what handleConn's increment, comparison and
\* deferred decrement keep, at every point where another handler may run.
ConnInv ==
  /\ HandlersTyped
  /\ QueuedInChannel
  /\ CopyingInHandler
  /\ CounterExact
  /\ LimitReserved
  /\ SignalInv
=============================================================================

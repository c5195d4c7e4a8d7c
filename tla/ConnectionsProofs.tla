-------------------------- MODULE ConnectionsProofs --------------------------
(***************************************************************************)
(* Proofs about Connections: the counter, the connection limit, the clean  *)
(* exit and the ConnSet, for any number of connections and any limit.      *)
(***************************************************************************)
EXTENDS Connections, FiniteSetTheorems, TLAPS

\* The counter in the code's range, which only its decrement brings near Wrap.
LEMMA CounterArithmetic ==
  /\ \A n \in 0..Wrap - 2 : (n + 1) % Wrap = n + 1
  /\ \A n \in 1..Wrap - 1 : (n + (Wrap - 1)) % Wrap = n - 1
BY ConnectionsAssumption

\* The connections that the counter counts, and those that it admits.
InCounterSet == {c \in Conns : InCounter(c)}

AdmissibleSet == {c \in Conns : Admissible(c)}

\* Both sets of connections are finite, and neither is larger than the counter
\* can count.
LEMMA SetsAreFinite ==
  /\ IsFiniteSet(InCounterSet) /\ IsFiniteSet(AdmissibleSet)
  /\ Cardinality(InCounterSet) \in Nat /\ Cardinality(AdmissibleSet) \in Nat
  /\ Cardinality(InCounterSet) < Wrap
  /\ AdmissibleSet \subseteq InCounterSet
  /\ Cardinality(AdmissibleSet) <= Cardinality(InCounterSet)
<1>1. InCounterSet \subseteq Conns /\ AdmissibleSet \subseteq InCounterSet
  BY DEF InCounterSet, AdmissibleSet, Admissible, Admitted, InCounter
<1>2. IsFiniteSet(Conns) /\ Cardinality(Conns) \in Nat /\ Cardinality(Conns) < Wrap /\ Wrap \in Nat
  BY ConnectionsAssumption, FS_CardinalityType
<1>3. IsFiniteSet(InCounterSet) /\ Cardinality(InCounterSet) <= Cardinality(Conns)
  BY <1>1, <1>2, FS_Subset
<1>4. IsFiniteSet(AdmissibleSet) /\ Cardinality(AdmissibleSet) <= Cardinality(InCounterSet)
  BY <1>1, <1>3, FS_Subset
<1>5. Cardinality(InCounterSet) \in Nat /\ Cardinality(AdmissibleSet) \in Nat
  BY <1>3, <1>4, FS_CardinalityType
<1> QED
  BY <1>1, <1>2, <1>3, <1>4, <1>5

\* A step of a handler that neither enters nor leaves the counter, and does not
\* become admissible, keeps the counter exact and the limit reserved.
LEMMA MoveStep ==
  ASSUME ConnInv, NEW c \in Conns, NEW l \in HandlerPcs,
         pc' = [pc EXCEPT ![c] = l],
         UNCHANGED <<active, counter>>,
         InCounter(c)' <=> InCounter(c),
         Admissible(c)' => Admissible(c)
  PROVE  CounterExact' /\ LimitReserved'
<1>1. InCounterSet' = InCounterSet
  BY DEF InCounterSet, InCounter, ConnInv, HandlersTyped
<1>2. AdmissibleSet' \subseteq AdmissibleSet
  BY DEF AdmissibleSet, Admissible, Admitted, OverLimit, ConnInv, HandlersTyped
<1>3. Cardinality(AdmissibleSet') <= Cardinality(AdmissibleSet) /\ Cardinality(AdmissibleSet') \in Nat
  BY <1>2, SetsAreFinite, FS_Subset, FS_CardinalityType
<1>4. CounterExact'
  BY <1>1 DEF ConnInv, CounterExact, InCounterSet
<1>5. LimitReserved'
  BY <1>3, SetsAreFinite, ConnectionsAssumption DEF ConnInv, LimitReserved, AdmissibleSet
<1> QED
  BY <1>4, <1>5

\* The steps before and after the counter: from the client to the handler.
LEMMA SourceStepInv ==
  ASSUME ConnInv, (\E c \in Conns : SourceStep(c)) \/ RunStep \/ CloseSource
  PROVE  ConnInv'
<1> USE DEF ConnInv
<1>1. ASSUME NEW c \in Conns, SourceStep(c)
      PROVE  ConnInv'
  <2>1. /\ UNCHANGED <<active, counter, copier, endVars>>
        /\ pc[c] \in {"client", "accepted"}
        /\ connSrc' = connSrc \/ (connSrc' = <<c>> /\ pc'[c] = "queued")
    BY <1>1 DEF SourceStep, Accept, SendConn, IgnoreConn, Goto, copyVars, srcVars, HandlersTyped
  <2>2. PICK l \in {"accepted", "queued", "ignored"} : pc' = [pc EXCEPT ![c] = l]
    BY <1>1, SMTT(30) DEF SourceStep, Accept, SendConn, IgnoreConn, Goto
  <2>3. CounterExact' /\ LimitReserved'
    BY <2>1, <2>2, MoveStep, Zenon DEF HandlersTyped, HandlerPcs, InCounter, Admissible, Admitted
  <2>4. HandlersTyped' /\ CopyingInHandler'
    BY <2>1, <2>2 DEF HandlersTyped, HandlerPcs, CopyingInHandler, endVars
  <2>5. QueuedInChannel'
    BY <2>1, <2>2 DEF HandlersTyped, QueuedInChannel
  <2>6. SignalInv'
    BY <2>1, <2>2 DEF HandlersTyped, SignalInv, InCounter, endVars
  <2> QED
    BY <2>3, <2>4, <2>5, <2>6, SMTT(30)
<1>2. CASE RunNext
  <2>1. PICK c \in Conns : connSrc = <<c>> /\ pc[c] = "queued"
    BY <1>2 DEF RunNext, QueuedInChannel
  <2>2. /\ pc' = [pc EXCEPT ![c] = "spawned"]
        /\ connSrc' = <<>>
        /\ UNCHANGED <<active, counter, copyVars, endVars>>
    BY <1>2, <2>1, SMTT(30) DEF RunNext
  <2>3. CounterExact' /\ LimitReserved'
    BY <2>1, <2>2, MoveStep, Zenon DEF HandlersTyped, HandlerPcs, InCounter, Admissible, Admitted
  <2>4. HandlersTyped' /\ CopyingInHandler' /\ QueuedInChannel'
    BY <2>1, <2>2 DEF HandlersTyped, HandlerPcs, CopyingInHandler, QueuedInChannel, endVars, copyVars
  <2>5. SignalInv'
    BY <2>1, <2>2 DEF HandlersTyped, SignalInv, InCounter, endVars
  <2> QED
    BY <2>3, <2>4, <2>5
<1>3. CASE RunDrained \/ RunClose \/ CloseSource
  <2>1. UNCHANGED <<pc, active, counter, copier, connSrc, endVars>>
    BY <1>3 DEF RunDrained, RunClose, CloseSource, handlerVars, copyVars
  <2> QED
    BY <2>1 DEF HandlersTyped, QueuedInChannel, CopyingInHandler, CounterExact, LimitReserved,
       SignalInv, InCounter, Admissible, Admitted, OverLimit, endVars
<1> QED
  BY <1>1, <1>2, <1>3 DEF RunStep

\* handleConn: the increment decides who is admissible, and the deferred
\* decrement undoes it.
LEMMA HandleStepInv ==
  ASSUME ConnInv, NEW c \in Conns, HandleStep(c)
  PROVE  ConnInv'
<1> USE DEF ConnInv
<1>1. /\ UNCHANGED <<srcVars, endVars>>
      /\ pc[c] \in {"spawned", "check", "refused", "dial", "add", "remove", "leave"}
      /\ copier' = copier \/ (pc'[c] = "copy" /\ copier' = [copier EXCEPT ![c] = [g \in Dirs |-> "copy"]])
  BY DEF HandleStep, Count, CheckLimit, Refuse, DialOk, DialFail, SetAdd, SetRemove, Uncount,
     Goto, copyVars, HandlersTyped
<1>2. PICK l \in {"check", "refused", "dial", "add", "copy", "leave", "done"} :
        pc' = [pc EXCEPT ![c] = l]
  BY DEF HandleStep, Count, CheckLimit, Refuse, DialOk, DialFail, SetAdd, SetRemove, Uncount, Goto
<1>3. QueuedInChannel'
  BY <1>1, <1>2 DEF QueuedInChannel, HandlersTyped, srcVars
<1>4. CopyingInHandler'
  BY <1>1, <1>2 DEF CopyingInHandler, HandlersTyped, Dirs
<1>5. copier' \in [Conns -> [Dirs -> CopyPcs]]
  BY <1>1 DEF HandlersTyped, CopyPcs
<1>6. pc' \in [Conns -> HandlerPcs] /\ counted' = counted
  BY <1>1, <1>2 DEF HandlersTyped, HandlerPcs, endVars
<1>7. counter = Cardinality(InCounterSet)
  BY DEF CounterExact, InCounterSet
<1>8. SignalInv'
  <2>1. ASSUME NEW d \in counted
        PROVE  InCounter(d)' \/ pc'[d] = "done"
    <3>1. CASE d # c
      BY <1>2, <2>1, <3>1 DEF SignalInv, InCounter, HandlersTyped
    <3>2. CASE d = c
      BY <1>2, <3>2 DEF InCounter, HandlersTyped
    <3> QED
      BY <3>1, <3>2
  <2>2. \A d \in counted : pc[d] = "done" => pc'[d] = "done"
    BY <1>1, <1>2 DEF HandlersTyped
  <2>3. UNCHANGED <<shutdown, exit, counted>>
    BY <1>1 DEF endVars
  <2> QED
    BY <2>1, <2>2, <2>3 DEF SignalInv
<1>9. CASE Count(c)
  <2>1. /\ pc[c] = "spawned" /\ pc' = [pc EXCEPT ![c] = "check"]
        /\ counter' = (counter + 1) % Wrap
        /\ active' = [active EXCEPT ![c] = counter']
    BY <1>9 DEF Count, Goto
  <2>2. InCounterSet' = InCounterSet \cup {c} /\ c \notin InCounterSet
    BY <2>1 DEF InCounterSet, InCounter, HandlersTyped
  <2>3. Cardinality(InCounterSet') = Cardinality(InCounterSet) + 1
    BY <2>2, SetsAreFinite, FS_AddElement, Zenon
  <2>4. Cardinality(InCounterSet') < Wrap
    <3>1. InCounterSet' \subseteq Conns /\ IsFiniteSet(Conns) /\ Cardinality(Conns) < Wrap
      BY ConnectionsAssumption DEF InCounterSet
    <3>2. Cardinality(InCounterSet') <= Cardinality(Conns)
      BY <3>1, FS_Subset
    <3> QED
      BY <2>3, <3>1, <3>2, SetsAreFinite, ConnectionsAssumption, FS_CardinalityType
  <2>5. counter' = Cardinality(InCounterSet')
    BY <1>7, <2>1, <2>3, <2>4, SetsAreFinite, CounterArithmetic, ConnectionsAssumption, SMTT(30)
  <2>6. CounterExact'
    BY <2>5 DEF CounterExact, InCounterSet
  <2>7. active' \in [Conns -> Nat]
    BY <2>1, <2>3, <2>5, SetsAreFinite, SMTT(30) DEF HandlersTyped
  <2>8. CASE MaxConnections > 0 /\ counter' > MaxConnections
    <3>1. AdmissibleSet' = AdmissibleSet
      BY <2>1, <2>8 DEF AdmissibleSet, Admissible, Admitted, OverLimit, HandlersTyped
    <3> QED
      BY <1>3, <1>4, <1>5, <1>6, <1>8, <2>6, <2>7, <3>1, Zenon DEF LimitReserved, AdmissibleSet, HandlersTyped
  <2>9. CASE ~(MaxConnections > 0 /\ counter' > MaxConnections)
    <3>1. AdmissibleSet' \subseteq AdmissibleSet \cup {c} /\ c \notin AdmissibleSet
      BY <2>1 DEF AdmissibleSet, Admissible, Admitted, OverLimit, HandlersTyped
    <3>2. /\ IsFiniteSet(AdmissibleSet \cup {c})
          /\ Cardinality(AdmissibleSet \cup {c}) = Cardinality(AdmissibleSet) + 1
      BY <3>1, SetsAreFinite, FS_AddElement
    <3>3. Cardinality(AdmissibleSet') <= Cardinality(AdmissibleSet) + 1 /\ Cardinality(AdmissibleSet') \in Nat
      BY <3>1, <3>2, FS_Subset, FS_CardinalityType
    <3>4. MaxConnections > 0 => Cardinality(AdmissibleSet') <= MaxConnections
      BY <2>3, <2>5, <2>9, <3>3, SetsAreFinite, ConnectionsAssumption, SMTT(30)
    <3> QED
      BY <1>3, <1>4, <1>5, <1>6, <1>8, <2>6, <2>7, <3>4, SMTT(30) DEF LimitReserved, AdmissibleSet, HandlersTyped
  <2> QED
    BY <2>8, <2>9
<1>10. CASE Uncount(c)
  <2>1. /\ pc[c] = "leave" /\ pc' = [pc EXCEPT ![c] = "done"]
        /\ counter' = (counter + (Wrap - 1)) % Wrap
        /\ active' = active
    BY <1>10 DEF Uncount, Goto
  <2>2. InCounterSet' = InCounterSet \ {c} /\ c \in InCounterSet
    BY <2>1 DEF InCounterSet, InCounter, HandlersTyped
  <2>3. Cardinality(InCounterSet') = Cardinality(InCounterSet) - 1
    BY <2>2, SetsAreFinite, FS_RemoveElement, Zenon
  <2>4. Cardinality(InCounterSet') \in Nat
    BY <2>2, SetsAreFinite, FS_RemoveElement, FS_CardinalityType
  <2>5. CounterExact'
    BY <1>7, <2>1, <2>3, <2>4, SetsAreFinite, CounterArithmetic, ConnectionsAssumption
    DEF CounterExact, InCounterSet
  <2>6. AdmissibleSet' = AdmissibleSet
    BY <2>1 DEF AdmissibleSet, Admissible, Admitted, OverLimit, HandlersTyped
  <2> QED
    BY <1>3, <1>4, <1>5, <1>6, <1>8, <2>1, <2>5, <2>6, Zenon DEF LimitReserved, AdmissibleSet, HandlersTyped
<1>11. CASE CheckLimit(c) \/ Refuse(c) \/ DialOk(c) \/ DialFail(c) \/ SetAdd(c) \/ SetRemove(c)
  <2>1. UNCHANGED <<active, counter>> /\ InCounter(c) /\ pc[c] # "leave"
    BY <1>11 DEF CheckLimit, Refuse, DialOk, DialFail, SetAdd, SetRemove, Goto, InCounter
  <2>2. InCounter(c)'
    BY <1>11 DEF CheckLimit, Refuse, DialOk, DialFail, SetAdd, SetRemove, Goto, InCounter, HandlersTyped
  <2>3. Admissible(c)' => Admissible(c)
    BY <1>11, SMTT(30) DEF CheckLimit, Refuse, DialOk, DialFail, SetAdd, SetRemove, Goto, Admissible, Admitted,
       OverLimit, HandlersTyped
  <2>4. CounterExact' /\ LimitReserved'
    BY <1>2, <2>1, <2>2, <2>3, MoveStep, Zenon DEF HandlerPcs
  <2> QED
    BY <1>3, <1>4, <1>5, <1>6, <1>8, <2>1, <2>4 DEF HandlersTyped
<1> QED
  BY <1>9, <1>10, <1>11, SMTT(30) DEF HandleStep

\* copyThenClose moves the handler only when its own copying goroutine is done.
LEMMA CopyStepInv ==
  ASSUME ConnInv, NEW c \in Conns, NEW g \in Dirs, CopyEnd(c, g) \/ CopyStep(c, g)
  PROVE  ConnInv'
<1> USE DEF ConnInv
<1>1. UNCHANGED <<active, counter, connSrc, endVars>>
  BY DEF CopyEnd, CopyStep, CopyFirst, CopySecond, CloseRemote, CloseLocal, handlerVars, srcVars
<1>2. copier[c][g] \notin {"none", "done"}
  BY DEF CopyEnd, CopyStep, CopyFirst, CopySecond, CloseRemote, CloseLocal, CopyGoto
<1>3. PICK k \in CopyPcs : copier' = [copier EXCEPT ![c][g] = k]
  BY DEF CopyEnd, CopyStep, CopyFirst, CopySecond, CloseRemote, CloseLocal, CopyGoto, CopyPcs
<1>4. /\ copier' \in [Conns -> [Dirs -> CopyPcs]]
      /\ \A d \in Conns : d # c => copier'[d] = copier[d]
      /\ \A h \in Dirs : h # g => copier'[c][h] = copier[c][h]
      /\ copier'[c][g] = k
  BY <1>3 DEF HandlersTyped
<1>5. CASE pc' = pc
  <2>1. CopyingInHandler'
    BY <1>2, <1>4, <1>5 DEF CopyingInHandler, Dirs
  <2> QED
    BY <1>1, <1>4, <1>5, <2>1, SMTT(30) DEF HandlersTyped, QueuedInChannel, CounterExact, LimitReserved,
       SignalInv, InCounter, Admissible, Admitted, OverLimit, endVars
<1>6. CASE g = "down" /\ k = "done" /\ pc' = [pc EXCEPT ![c] = "remove"]
  <2>1. pc[c] = "copy"
    BY <1>2, <1>6 DEF CopyingInHandler
  <2>2. CounterExact' /\ LimitReserved'
    <3>1. pc'[c] = "remove" /\ "remove" \in HandlerPcs
      BY <1>6 DEF HandlersTyped, HandlerPcs
    <3>2. InCounter(c) /\ InCounter(c)'
      BY <2>1, <3>1 DEF InCounter
    <3>3. Admissible(c)
      BY <2>1 DEF Admissible, Admitted
    <3> QED
      BY <1>1, <1>6, <3>1, <3>2, <3>3, MoveStep, Zenon
  <2>3. CopyingInHandler'
    BY <1>4, <1>6 DEF CopyingInHandler, HandlersTyped
  <2>4. HandlersTyped'
    BY <1>1, <1>4, <1>6 DEF HandlersTyped, HandlerPcs, endVars
  <2>5. QueuedInChannel'
    BY <1>1, <1>6, <2>1 DEF QueuedInChannel, HandlersTyped
  <2>6. SignalInv'
    BY <1>1, <1>6, <2>1, SMTT(30) DEF SignalInv, HandlersTyped, InCounter, endVars
  <2> QED
    BY <2>2, <2>3, <2>4, <2>5, <2>6, SMTT(30)
<1>7. pc' = pc \/ (g = "down" /\ copier' = [copier EXCEPT ![c][g] = "done"] /\ pc' = [pc EXCEPT ![c] = "remove"])
  BY DEF CopyEnd, CopyStep, CopyFirst, CopySecond, CloseRemote, CloseLocal, CopyGoto, CopyReturn, handlerVars
<1>8. copier' = [copier EXCEPT ![c][g] = "done"] => k = "done"
  BY <1>4 DEF HandlersTyped
<1> QED
  BY <1>5, <1>6, <1>7, <1>8, SMTT(30)

\* The signal handler takes its exit code from a counter that is exact.
LEMMA EndStepInv ==
  ASSUME ConnInv, Signal \/ ShutdownStep \/ Exit, exit = "running"
  PROVE  ConnInv'
<1> USE DEF ConnInv
<1>1. UNCHANGED <<pc, active, counter, copier, connSrc>>
  BY DEF Signal, ShutdownStep, TickerEnds, TermEnds, LastLoad, Exit, handlerVars, copyVars, srcVars
<1>2. QueuedInChannel' /\ CopyingInHandler' /\ CounterExact' /\ LimitReserved'
  BY <1>1 DEF QueuedInChannel, CopyingInHandler, CounterExact, LimitReserved, InCounter, Admissible,
     Admitted, OverLimit
<1>3. \A c \in Conns : (InCounter(c)' <=> InCounter(c)) /\ pc'[c] = pc[c]
  BY <1>1 DEF InCounter
<1>4. CASE Signal
  <2>1. counted' = {c \in Conns : InCounter(c)} /\ shutdown' = "loop" /\ exit' = "running"
    BY <1>4 DEF Signal
  <2> QED
    BY <1>1, <1>2, <1>3, <2>1 DEF HandlersTyped, SignalInv
<1>5. CASE TickerEnds \/ TermEnds
  <2>1. counted' = counted /\ shutdown' = "last" /\ exit' = "running"
    BY <1>5 DEF TickerEnds, TermEnds
  <2> QED
    BY <1>1, <1>2, <1>3, <2>1 DEF HandlersTyped, SignalInv
<1>6. CASE LastLoad
  <2>1. counted' = counted /\ exit' = "running" /\ (shutdown' = "exit0" => counter = 0)
    BY <1>6 DEF LastLoad
  <2>2. counter = 0 => \A c \in Conns : ~InCounter(c)
    <3>1. Cardinality(InCounterSet) = 0 => InCounterSet = {}
      BY SetsAreFinite, FS_EmptySet
    <3> QED
      BY <3>1 DEF CounterExact, InCounterSet
  <2>3. shutdown' = "exit0" => \A c \in counted : pc[c] = "done"
    BY <2>1, <2>2 DEF SignalInv, HandlersTyped
  <2> QED
    BY <1>1, <1>2, <1>3, <2>1, <2>3 DEF HandlersTyped, SignalInv
<1>7. CASE Exit
  <2>1. counted' = counted /\ shutdown' = shutdown /\ (exit' = "exit0" => shutdown = "exit0")
    BY <1>7 DEF Exit
  <2> QED
    BY <1>1, <1>2, <1>3, <2>1 DEF HandlersTyped, SignalInv
<1> QED
  BY <1>4, <1>5, <1>6, <1>7, SMTT(30) DEF ShutdownStep

\* A proxy that has accepted nothing satisfies the inductive invariant.
LEMMA InitInv == Init => ConnInv
<1> SUFFICES ASSUME Init
             PROVE  ConnInv
  OBVIOUS
<1>1. HandlersTyped /\ QueuedInChannel /\ CopyingInHandler /\ SignalInv
  BY DEF Init, HandlersTyped, QueuedInChannel, CopyingInHandler, SignalInv, HandlerPcs, CopyPcs, Dirs
<1>2. InCounterSet = {} /\ AdmissibleSet = {}
  BY DEF Init, InCounterSet, AdmissibleSet, InCounter, Admissible, Admitted
<1>3. Cardinality(InCounterSet) = 0 /\ Cardinality(AdmissibleSet) = 0
  BY <1>2, FS_EmptySet
<1>4. CounterExact /\ LimitReserved
  BY <1>3, ConnectionsAssumption DEF Init, CounterExact, LimitReserved, InCounterSet, AdmissibleSet
<1> QED
  BY <1>1, <1>4 DEF ConnInv

\* Every step of every goroutine preserves the inductive invariant.
LEMMA NextInv == ConnInv /\ [Next]_vars => ConnInv'
<1> SUFFICES ASSUME ConnInv, [Next]_vars
             PROVE  ConnInv'
  OBVIOUS
<1>1. CASE Next
  BY <1>1, SourceStepInv, HandleStepInv, CopyStepInv, EndStepInv, SMTT(30) DEF Next
<1>2. CASE UNCHANGED vars
  BY <1>2 DEF vars, handlerVars, copyVars, srcVars, endVars, ConnInv, HandlersTyped, QueuedInChannel,
     CopyingInHandler, CounterExact, LimitReserved, SignalInv, InCounter, Admissible, Admitted, OverLimit
<1> QED
  BY <1>1, <1>2

\* The inductive invariant holds in every reachable state, for any number of
\* connections handled by handleConn and any limit.
THEOREM Invariance == Spec => []ConnInv
BY InitInv, NextInv, PTL DEF Spec

\* handleConn's counter is the number of handlers inside it, on every path.
THEOREM CounterIsExact == Spec => []CounterExact
<1>1. ConnInv => CounterExact
  BY DEF ConnInv
<1> QED
  BY <1>1, Invariance, PTL

\* handleConn never lets more than MaxConnections connections dial or stay.
THEOREM LimitIsRespected == Spec => []LimitRespected
<1>1. ConnInv => LimitRespected
  <2> SUFFICES ASSUME ConnInv, MaxConnections > 0
               PROVE  Cardinality({c \in Conns : Admitted(c)}) <= MaxConnections
    BY DEF LimitRespected
  <2>1. {c \in Conns : Admitted(c)} \subseteq AdmissibleSet
    BY DEF AdmissibleSet, Admissible
  <2>2. /\ Cardinality({c \in Conns : Admitted(c)}) <= Cardinality(AdmissibleSet)
        /\ Cardinality({c \in Conns : Admitted(c)}) \in Nat
    BY <2>1, SetsAreFinite, FS_Subset, FS_CardinalityType
  <2>3. Cardinality(AdmissibleSet) <= MaxConnections
    BY DEF ConnInv, LimitReserved, AdmissibleSet
  <2> QED
    BY <2>2, <2>3, SetsAreFinite, ConnectionsAssumption
<1> QED
  BY <1>1, Invariance, PTL

\* When Shutdown lets the process exit with 0, the connections that were in
\* the counter at the signal have finished.
THEOREM CleanExit == Spec => []CountedAwaited
<1>1. ConnInv => CountedAwaited
  BY DEF ConnInv, SignalInv, CountedAwaited
<1> QED
  BY <1>1, Invariance, PTL

-----------------------------------------------------------------------------
\* The sockets of ConnSet.m, by connection.
SetTyped == connSet \in [Ids -> Seq(Conns)]

\* Add appends a connection that is not in the slice.
LEMMA AppendNew ==
  ASSUME NEW s \in Seq(Conns), NEW c \in Conns, IsInjective(s), c \notin Range(s)
  PROVE  /\ Append(s, c) \in Seq(Conns) /\ IsInjective(Append(s, c))
         /\ Range(Append(s, c)) = Range(s) \cup {c}
<1>1. /\ Append(s, c) \in Seq(Conns) /\ DOMAIN s = 1..Len(s) /\ Len(s) \in Nat
      /\ DOMAIN Append(s, c) = 1..Len(s) + 1
      /\ Append(s, c)[Len(s) + 1] = c
      /\ \A n \in 1..Len(s) : Append(s, c)[n] = s[n]
  OBVIOUS
<1>2. \A n \in 1..Len(s) + 1 : n \in 1..Len(s) \/ n = Len(s) + 1
  BY <1>1
<1>3. \A n \in 1..Len(s) : n \in 1..Len(s) + 1
  BY <1>1
<1>4. IsInjective(Append(s, c))
  BY <1>1, <1>2, Zenon DEF IsInjective, Range
<1>5. Len(s) + 1 \in 1..Len(s) + 1
  BY <1>1
<1>6. Range(Append(s, c)) \subseteq Range(s) \cup {c}
  BY <1>1, <1>2 DEF Range
<1>7. Range(s) \cup {c} \subseteq Range(Append(s, c))
  BY <1>1, <1>3, <1>5 DEF Range
<1> QED BY <1>1, <1>4, <1>6, <1>7

\* Remove takes out the connection it is called for, wherever it is, and keeps
\* the others.
LEMMA RemoveFinds ==
  ASSUME NEW s \in Seq(Conns), NEW c \in Conns, IsInjective(s), c \in Range(s)
  PROVE  /\ SetWithout(s, c) \in Seq(Conns) /\ IsInjective(SetWithout(s, c))
         /\ Range(SetWithout(s, c)) = Range(s) \ {c}
<1>1. DOMAIN s = 1..Len(s) /\ Len(s) \in Nat
  OBVIOUS
<1>2. PICK p \in 1..Len(s) : s[p] = c
  BY <1>1, Zenon DEF Range
<1>3. {n \in DOMAIN s : s[n] = c} = {p}
  BY <1>1, <1>2 DEF IsInjective
<1>4. Min({p}) = p
  BY <1>2 DEF Min
<1> DEFINE t == [n \in 1..Len(s) - 1 |-> s[IF n < p THEN n ELSE n + 1]]
<1>5. SetWithout(s, c) = t
  BY <1>3, <1>4, Zenon DEF SetWithout
<1>6. /\ t \in Seq(Conns) /\ Len(t) = Len(s) - 1 /\ DOMAIN t = 1..Len(s) - 1
      /\ \A n \in 1..Len(s) - 1 : t[n] = IF n < p THEN s[n] ELSE s[n + 1]
  BY <1>1, <1>2
<1> HIDE DEF t
<1>7. IsInjective(t)
  <2> SUFFICES ASSUME NEW a \in 1..Len(s) - 1, NEW b \in 1..Len(s) - 1, t[a] = t[b]
               PROVE  a = b
    BY <1>6, Zenon DEF IsInjective
  <2> DEFINE x == IF a < p THEN a ELSE a + 1
             y == IF b < p THEN b ELSE b + 1
  <2>1. x \in 1..Len(s) /\ y \in 1..Len(s) /\ t[a] = s[x] /\ t[b] = s[y]
    BY <1>1, <1>2, <1>6
  <2>2. x = y
    <3> HIDE DEF x, y
    <3> QED BY <1>1, <2>1, Zenon DEF IsInjective
  <2> QED BY <1>2, <2>2
<1>8. ASSUME NEW n \in 1..Len(s) - 1 PROVE t[n] \in Range(s) /\ t[n] # c
  <2> DEFINE x == IF n < p THEN n ELSE n + 1
  <2>1. x \in 1..Len(s) /\ t[n] = s[x] /\ x # p
    BY <1>1, <1>2, <1>6
  <2> HIDE DEF x
  <2> QED BY <1>1, <1>2, <2>1, Zenon DEF IsInjective, Range
<1>9. ASSUME NEW m \in 1..Len(s), m # p PROVE \E n \in 1..Len(s) - 1 : t[n] = s[m]
  <2>1. CASE m < p
    <3>1. m \in 1..Len(s) - 1 /\ t[m] = s[m]
      BY <1>1, <1>2, <1>6, <2>1
    <3> QED BY <3>1, Zenon
  <2>2. CASE m > p
    <3>1. m - 1 \in 1..Len(s) - 1 /\ t[m - 1] = s[m]
      BY <1>1, <1>2, <1>6, <2>2
    <3> QED BY <3>1, Zenon
  <2> QED BY <1>2, <1>9, <2>1, <2>2
<1>10. Range(t) \subseteq Range(s) \ {c}
  BY <1>6, <1>8 DEF Range
<1>11. Range(s) \ {c} \subseteq Range(t)
  BY <1>1, <1>2, <1>6, <1>9 DEF Range
<1> QED BY <1>5, <1>6, <1>7, <1>10, <1>11

\* A step that neither changes the ConnSet nor begins or ends a copying.
LEMMA SetUntouched ==
  ASSUME SetTyped, ConnSetExact, UNCHANGED connSet,
         \A d \in Conns : pc'[d] \in {"copy", "remove"} <=> pc[d] \in {"copy", "remove"}
  PROVE  SetTyped' /\ ConnSetExact'
<1>1. \A i \in Ids : {c \in Conns : UseFuse /\ Id[c] = i /\ pc'[c] \in {"copy", "remove"}}
                     = {c \in Conns : UseFuse /\ Id[c] = i /\ pc[c] \in {"copy", "remove"}}
  OBVIOUS
<1> QED BY <1>1, Zenon DEF SetTyped, ConnSetExact

\* Add and Remove keep the ConnSet exact: the handler of a connection calls each
\* of them once, at the two ends of copyThenClose.
LEMMA SetStep ==
  ASSUME ConnInv, SetTyped, ConnSetExact, NEW c \in Conns, SetAdd(c) \/ SetRemove(c)
  PROVE  SetTyped' /\ ConnSetExact'
<1> DEFINE Copied(i) == {d \in Conns : UseFuse /\ Id[d] = i /\ pc[d] \in {"copy", "remove"}}
           Copying(i) == {d \in Conns : UseFuse /\ Id[d] = i /\ pc'[d] \in {"copy", "remove"}}
<1>1. pc \in [Conns -> HandlerPcs] /\ Id[c] \in Ids
  BY ConnectionsAssumption DEF ConnInv, HandlersTyped
<1>2. \A i \in Ids : connSet[i] \in Seq(Conns) /\ IsInjective(connSet[i]) /\ Range(connSet[i]) = Copied(i)
  BY Zenon DEF SetTyped, ConnSetExact
<1>3. CASE ~UseFuse
  <2>1. connSet' = connSet /\ \A i \in Ids : Copying(i) = Copied(i)
    BY <1>3 DEF SetAdd, SetRemove
  <2> QED BY <2>1, Zenon DEF SetTyped, ConnSetExact
<1>4. CASE UseFuse /\ SetAdd(c)
  <2>1. /\ pc[c] = "add" /\ pc' = [pc EXCEPT ![c] = "copy"]
        /\ connSet' = [connSet EXCEPT ![Id[c]] = Append(connSet[Id[c]], c)]
    BY <1>4 DEF SetAdd, Goto
  <2>2. c \notin Copied(Id[c]) /\ Copying(Id[c]) = Copied(Id[c]) \cup {c}
    BY <1>1, <1>4, <2>1
  <2>3. \A i \in Ids : i # Id[c] => Copying(i) = Copied(i)
    BY <1>1, <2>1
  <2> HIDE DEF Copied, Copying
  <2>4. /\ Append(connSet[Id[c]], c) \in Seq(Conns) /\ IsInjective(Append(connSet[Id[c]], c))
        /\ Range(Append(connSet[Id[c]], c)) = Copying(Id[c])
    BY <1>1, <1>2, <2>2, AppendNew, Zenon
  <2>5. SetTyped'
    BY <2>1, <2>4 DEF SetTyped
  <2>6. \A i \in Ids : IsInjective(connSet'[i]) /\ Range(connSet'[i]) = Copying(i)
    BY <1>2, <2>1, <2>3, <2>4 DEF SetTyped
  <2> QED BY <2>5, <2>6, Zenon DEF ConnSetExact, Copying
<1>5. CASE UseFuse /\ SetRemove(c)
  <2>1. /\ pc[c] = "remove" /\ pc' = [pc EXCEPT ![c] = "leave"]
        /\ connSet' = [connSet EXCEPT ![Id[c]] = SetWithout(connSet[Id[c]], c)]
    BY <1>5 DEF SetRemove, Goto
  <2>2. c \in Copied(Id[c]) /\ Copying(Id[c]) = Copied(Id[c]) \ {c}
    BY <1>1, <1>5, <2>1
  <2>3. \A i \in Ids : i # Id[c] => Copying(i) = Copied(i)
    BY <1>1, <2>1
  <2> HIDE DEF Copied, Copying
  <2>4. /\ SetWithout(connSet[Id[c]], c) \in Seq(Conns) /\ IsInjective(SetWithout(connSet[Id[c]], c))
        /\ Range(SetWithout(connSet[Id[c]], c)) = Copying(Id[c])
    BY <1>1, <1>2, <2>2, RemoveFinds, Zenon
  <2>5. SetTyped'
    BY <2>1, <2>4 DEF SetTyped
  <2>6. \A i \in Ids : IsInjective(connSet'[i]) /\ Range(connSet'[i]) = Copying(i)
    BY <1>2, <2>1, <2>3, <2>4 DEF SetTyped
  <2> QED BY <2>5, <2>6, Zenon DEF ConnSetExact, Copying
<1> QED BY <1>3, <1>4, <1>5

\* Every step of every goroutine keeps the ConnSet exact.
LEMMA SetNext == ConnInv /\ SetTyped /\ ConnSetExact /\ [Next]_vars => SetTyped' /\ ConnSetExact'
<1> SUFFICES ASSUME ConnInv, SetTyped, ConnSetExact, [Next]_vars
             PROVE  SetTyped' /\ ConnSetExact'
  OBVIOUS
<1>1. pc \in [Conns -> HandlerPcs]
  BY DEF ConnInv, HandlersTyped
<1> DEFINE Same == /\ UNCHANGED connSet
                   /\ \A d \in Conns : pc'[d] \in {"copy", "remove"} <=> pc[d] \in {"copy", "remove"}
<1>2. ASSUME NEW c \in Conns, SourceStep(c) PROVE Same
  BY <1>1, <1>2 DEF SourceStep, Accept, SendConn, IgnoreConn, Goto
<1>3. ASSUME NEW c \in Conns, HandleStep(c), ~SetAdd(c), ~SetRemove(c) PROVE Same
  BY <1>1, <1>3 DEF HandleStep, Count, CheckLimit, Refuse, DialOk, DialFail, Uncount, Goto
<1>4. ASSUME NEW c \in Conns, NEW g \in Dirs, CopyEnd(c, g) \/ CopyStep(c, g) PROVE Same
  <2>1. UNCHANGED connSet
    BY <1>4 DEF CopyEnd, CopyStep, CopyFirst, CopySecond, CloseRemote, CloseLocal
  <2>2. pc' = pc \/ (copier[c]["down"] \notin {"none", "done"} /\ pc' = [pc EXCEPT ![c] = "remove"])
    BY <1>4 DEF CopyEnd, CopyStep, CopyFirst, CopySecond, CloseRemote, CloseLocal, CopyGoto, CopyReturn,
       handlerVars
  <2>3. copier[c]["down"] \notin {"none", "done"} => pc[c] = "copy"
    BY DEF ConnInv, CopyingInHandler
  <2> QED BY <1>1, <2>1, <2>2, <2>3
<1>5. CASE RunNext
  <2>1. PICK c \in Conns : connSrc = <<c>> /\ pc[c] = "queued"
    BY <1>5 DEF RunNext, ConnInv, QueuedInChannel
  <2>2. pc' = [pc EXCEPT ![c] = "spawned"] /\ UNCHANGED connSet
    BY <1>5, <2>1 DEF RunNext
  <2>3. Same
    BY <1>1, <2>1, <2>2
  <2> QED BY <2>3, SetUntouched, Zenon
<1>6. CASE RunDrained \/ RunClose \/ CloseSource \/ Signal \/ ShutdownStep \/ Exit \/ UNCHANGED vars
  <2>1. UNCHANGED <<pc, connSet>>
    BY <1>6 DEF RunDrained, RunClose, CloseSource, Signal, ShutdownStep, TickerEnds, TermEnds, LastLoad,
       Exit, handlerVars, vars
  <2> QED BY <2>1, SetUntouched, Zenon
<1>7. ASSUME NEW c \in Conns, HandleStep(c) PROVE SetTyped' /\ ConnSetExact'
  BY <1>3, <1>7, SetStep, SetUntouched, Zenon
<1> HIDE DEF Same
<1>8. Same => SetTyped' /\ ConnSetExact'
  BY SetUntouched, Zenon DEF Same
<1> QED BY <1>2, <1>4, <1>5, <1>6, <1>7, <1>8, Zenon DEF Next, RunStep

\* ConnSet.m lists each connection between Add and Remove once, under its own
\* instance, and no other.
THEOREM ConnSetIsExact == Spec => []ConnSetExact
<1>1. Init => SetTyped /\ ConnSetExact
  <2> SUFFICES ASSUME Init PROVE SetTyped /\ ConnSetExact
    OBVIOUS
  <2>1. SetTyped
    BY DEF Init, SetTyped
  <2>2. \A i \in Ids : IsInjective(connSet[i]) /\ Range(connSet[i]) = {}
    BY DEF Init, IsInjective, Range
  <2>3. \A c \in Conns : pc[c] \notin {"copy", "remove"}
    BY DEF Init
  <2> QED BY <2>1, <2>2, <2>3 DEF ConnSetExact
<1> QED BY <1>1, Invariance, SetNext, PTL DEF Spec
=============================================================================

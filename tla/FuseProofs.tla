----------------------------- MODULE FuseProofs -----------------------------
(***************************************************************************)
(* FuseInv is an inductive invariant of the FUSE source of connections,    *)
(* for any instances, any number of concurrent lookups and any number of   *)
(* listeners.  There is one lemma per conjunct that a step could break.    *)
(***************************************************************************)
EXTENDS Fuse, TLAPS

\* Nothing is mounted and nobody looks anything up at first.
LEMMA InitInv == Init => FuseInv
BY FuseAssumption
   DEF Init, FuseInv, TypeOK, LookupInv, SuccessionInv, LinksAreListeners, NoSendOnClosed,
       FirstSocketStays, Unremoved, Listeners, Closers, None

\* Closing listeners removes sockets and moves none.
LEMMA UnlinkedType ==
  ASSUME TypeOK, NEW ls
  PROVE  Unlinked(ls) \in [Instances -> 0..made]
BY DEF TypeOK, Unlinked, None

\* Every step keeps the types.
LEMMA TypeStep == FuseInv /\ [Next]_vars => TypeOK'
<1> SUFFICES ASSUME FuseInv, [Next]_vars PROVE TypeOK'
  OBVIOUS
<1> USE FuseAssumption DEF FuseInv, TypeOK, vars, sockVars, lookVars, chanVars, Listeners, Closers, None
<1>1. ASSUME NEW k \in Lookups, NEW i \in Instances, LookupCall(k, i) PROVE TypeOK'
  BY <1>1 DEF LookupCall
<1>2. ASSUME NEW k \in Lookups, LookupHit(k) PROVE TypeOK'
  BY <1>2 DEF LookupHit, LookupReturn
<1>3. ASSUME NEW k \in Lookups, LookupMiss(k) PROVE TypeOK'
  BY <1>3 DEF LookupMiss, LookupInv
<1>4. ASSUME NEW k \in Lookups, LookupListen(k) PROVE TypeOK'
  BY <1>4 DEF LookupListen, LookupReturn, LookupInv
<1>5. ASSUME NEW k \in Lookups, LookupFail(k) PROVE TypeOK'
  BY <1>5 DEF LookupFail, LookupReturn, LookupInv
<1>6. ASSUME NEW l \in Listeners, Accept(l) \/ Send(l) \/ AcceptError(l) PROVE TypeOK'
  <2>1. lPc' \in [Listeners -> {"unused", "accept", "send", "dead", "removed", "closed", "ended"}]
    BY <1>6 DEF Accept, Send, AcceptError, LGoto
  <2>2. conns' \in 0..1 /\ UNCHANGED <<mounted, sockVars, lookVars, dst, lOpen, closePc>>
    BY <1>6 DEF Accept, Send, AcceptError
  <2> QED BY <2>1, <2>2
<1>7. ASSUME NEW l \in Listeners, RemoveListener(l) PROVE TypeOK'
  BY <1>7 DEF RemoveListener, LGoto
<1>8. ASSUME NEW l \in Listeners, CloseListener(l) PROVE TypeOK'
  <2>1. sock' \in [Instances -> 0..made]
    BY <1>8, UnlinkedType DEF CloseListener
  <2> QED BY <1>8, <2>1, Zenon DEF CloseListener, LGoto
<1>9. ASSUME NEW l \in Listeners, RemovePath(l) PROVE TypeOK'
  BY <1>9, UnlinkedType, Zenon DEF RemovePath, LGoto
<1>10. ASSUME NEW p \in Closers, CloseDst(p) PROVE TypeOK'
  BY <1>10, Zenon DEF CloseDst, CGoto
<1>14. ASSUME NEW p \in Closers, Unmount(p) PROVE TypeOK'
  <2>1. mounted' \in BOOLEAN /\ UNCHANGED <<sockVars, lookVars, chanVars, lOpen, lPc>>
    BY <1>14, Zenon DEF Unmount
  <2>2. closePc' \in [Closers -> {"idle", "lock", "unmount", "close", "returned", "failed"}]
    BY <1>14 DEF Unmount, CGoto
  <2> QED BY <2>1, <2>2
<1>11. ASSUME NEW p \in Closers, CloseAll(p) PROVE TypeOK'
  <2>1. sock' \in [Instances -> 0..made]
    BY <1>11, UnlinkedType DEF CloseAll
  <2>2. lOpen' \in [Listeners -> BOOLEAN]
    BY <1>11 DEF CloseAll
  <2> QED BY <1>11, <2>1, <2>2 DEF CloseAll, CGoto
<1>12. CASE OwnerCloses \/ ServeReturns \/ ServeFails
  <2>1. closePc' \in [Closers -> {"idle", "lock", "unmount", "close", "returned", "failed"}]
    BY <1>12 DEF OwnerCloses, ServeReturns, ServeFails, CGoto
  <2>2. UNCHANGED <<mounted, sockVars, lookVars, chanVars, lOpen, lPc>>
    BY <1>12 DEF OwnerCloses, ServeReturns, ServeFails
  <2> QED BY <2>1, <2>2
<1>15. CASE ForceUnmount
  BY <1>15, Zenon DEF ForceUnmount
<1>16. CASE RunTakes
  BY <1>16 DEF RunTakes
<1>13. CASE UNCHANGED vars
  BY <1>13
<1> QED
  BY <1>1, <1>2, <1>3, <1>4, <1>5, <1>6, <1>7, <1>8, <1>9, <1>10, <1>11, <1>12, <1>13,
     <1>14, <1>15, <1>16, Zenon
     DEF Next, LookupStep, LookupDone, CloseStep, CleanStep

\* Only Lookup makes a listener and a link, only removeListener removes them.
LEMMA StepKinds ==
  ASSUME FuseInv, [Next]_vars
  PROVE  \/ \E k \in Lookups : LookupListen(k)
         \/ \E l \in Listeners : RemoveListener(l)
         \/ /\ UNCHANGED <<links, made, lInst, lPg>>
            /\ \A l \in Listeners : /\ lPc'[l] = "unused" <=> lPc[l] = "unused"
                                    /\ Unremoved(l)' <=> Unremoved(l)
<1> DEFINE Quiet == /\ UNCHANGED <<links, made, lInst, lPg>>
                    /\ \A l \in Listeners : /\ lPc'[l] = "unused" <=> lPc[l] = "unused"
                                            /\ Unremoved(l)' <=> Unremoved(l)
<1> USE DEF FuseInv, TypeOK, vars, sockVars, lookVars, chanVars, Unremoved
<1>1. ASSUME NEW l \in Listeners, Accept(l) PROVE Quiet
  BY <1>1 DEF Accept, LGoto
<1>2. ASSUME NEW l \in Listeners, Send(l) PROVE Quiet
  BY <1>2 DEF Send, LGoto
<1>3. ASSUME NEW l \in Listeners, AcceptError(l) PROVE Quiet
  BY <1>3 DEF AcceptError, LGoto
<1>4. ASSUME NEW l \in Listeners, CloseListener(l) PROVE Quiet
  BY <1>4 DEF CloseListener, LGoto
<1>5. ASSUME NEW l \in Listeners, RemovePath(l) PROVE Quiet
  BY <1>5 DEF RemovePath, LGoto
<1>6. ASSUME NEW k \in Lookups, LookupHit(k) \/ LookupMiss(k) \/ LookupFail(k) PROVE Quiet
  BY <1>6 DEF LookupHit, LookupMiss, LookupFail
<1>7. ASSUME NEW k \in Lookups, NEW i \in Instances, LookupCall(k, i) PROVE Quiet
  BY <1>7 DEF LookupCall
<1>8. ASSUME NEW p \in Closers, CloseDst(p) \/ Unmount(p) \/ CloseAll(p) PROVE Quiet
  BY <1>8 DEF CloseDst, Unmount, CloseAll
<1>9. CASE OwnerCloses \/ ServeReturns \/ ServeFails \/ ForceUnmount \/ RunTakes \/ UNCHANGED vars
  BY <1>9 DEF OwnerCloses, ServeReturns, ServeFails, ForceUnmount, RunTakes
<1> QED
  BY <1>1, <1>2, <1>3, <1>4, <1>5, <1>6, <1>7, <1>8, <1>9
     DEF Next, LookupStep, LookupDone, CloseStep, CleanStep

\* sockLock admits one lookup at a time to the call of the Admin API.
LEMMA LookupInvStep == FuseInv /\ [Next]_vars => LookupInv'
<1> SUFFICES ASSUME FuseInv, [Next]_vars PROVE LookupInv'
  OBVIOUS
<1> USE FuseAssumption DEF FuseInv, TypeOK, LookupInv, vars, sockVars, lookVars, chanVars, None
<1>1. ASSUME NEW k \in Lookups, NEW i \in Instances, LookupCall(k, i) PROVE LookupInv'
  BY <1>1 DEF LookupCall
<1>2. ASSUME NEW k \in Lookups, LookupHit(k) PROVE LookupInv'
  BY <1>2 DEF LookupHit, LookupReturn
<1>3. ASSUME NEW k \in Lookups, LookupMiss(k) PROVE LookupInv'
  BY <1>3 DEF LookupMiss, Known
<1>4. ASSUME NEW k \in Lookups, LookupListen(k) PROVE LookupInv'
  BY <1>4 DEF LookupListen, LookupReturn
<1>5. ASSUME NEW k \in Lookups, LookupFail(k) PROVE LookupInv'
  BY <1>5 DEF LookupFail, LookupReturn
<1>6. ASSUME NEW l \in Listeners, RemoveListener(l) PROVE LookupInv'
  BY <1>6 DEF RemoveListener
<1>7. CASE UNCHANGED <<links, lookVars>>
  BY <1>7
<1>8. ASSUME NEW l \in Listeners, Accept(l) \/ Send(l) \/ AcceptError(l) \/ CleanStep(l)
      PROVE  UNCHANGED <<links, lookVars>>
  BY <1>8 DEF Accept, Send, AcceptError, CleanStep, CloseListener, RemovePath
<1>9. ASSUME NEW p \in Closers, CloseStep(p) \/ CloseAll(p)
      PROVE  UNCHANGED <<links, lookVars>>
  BY <1>9 DEF CloseStep, CloseDst, Unmount, CloseAll
<1>10. ASSUME OwnerCloses \/ ServeReturns \/ ServeFails \/ ForceUnmount \/ RunTakes \/ UNCHANGED vars
       PROVE  UNCHANGED <<links, lookVars>>
  BY <1>10 DEF OwnerCloses, ServeReturns, ServeFails, ForceUnmount, RunTakes
<1> QED
  BY <1>1, <1>2, <1>3, <1>4, <1>5, <1>6, <1>7, <1>8, <1>9, <1>10
     DEF Next, LookupStep, LookupDone

\* What LookupListen does to the listeners: the next one is made, for an
\* instance that has none whose goroutine has not called removeListener.
LEMMA NewListener ==
  ASSUME FuseInv, NEW k \in Lookups, LookupListen(k)
  PROVE  /\ made + 1 \in Listeners /\ made' = made + 1
         /\ lkInst[k] \in Instances /\ links' = links \cup {lkInst[k]}
         /\ lPc[made + 1] = "unused" /\ ~lPg[made + 1]
         /\ lPc'[made + 1] = "accept" /\ lInst'[made + 1] = lkInst[k]
         /\ \A l \in Listeners : l # made + 1 =>
              lPc'[l] = lPc[l] /\ lInst'[l] = lInst[l] /\ lPg'[l] = lPg[l] /\ lOpen'[l] = lOpen[l]
         /\ \A l \in Listeners : Unremoved(l) => lInst[l] # lkInst[k] /\ l <= made
<1> USE FuseAssumption DEF FuseInv, TypeOK, LookupInv, SuccessionInv, Listeners, Unremoved
<1>1. made + 1 \in Listeners /\ lkInst[k] \in Instances /\ lkInst[k] \notin links
  BY DEF LookupListen
<1>2. lPc[made + 1] = "unused" /\ ~lPg[made + 1]
  BY <1>1
<1>3. \A l \in Listeners : Unremoved(l) => lInst[l] # lkInst[k] /\ l <= made
  BY <1>1 DEF LinksAreListeners
<1> QED
  BY <1>1, <1>2, <1>3 DEF LookupListen

\* The listeners of an instance follow one another.
LEMMA SuccessionStep == FuseInv /\ [Next]_vars => SuccessionInv'
<1> SUFFICES ASSUME FuseInv, [Next]_vars PROVE SuccessionInv'
  OBVIOUS
<1>1. ASSUME NEW k \in Lookups, LookupListen(k) PROVE SuccessionInv'
  <2>1. /\ made' = made + 1 /\ made \in Nat
        /\ \A l \in Listeners : l # made + 1 =>
             lPc'[l] = lPc[l] /\ lInst'[l] = lInst[l] /\ lPg'[l] = lPg[l]
    BY <1>1, NewListener DEF FuseInv, TypeOK
  <2>2. ASSUME NEW l \in Listeners
        PROVE  IF l > made' THEN lPc'[l] = "unused" /\ ~lPg'[l] ELSE lInst'[l] \in Instances
    <3>1. CASE l = made + 1
      BY <1>1, <2>1, <3>1, NewListener
    <3>2. CASE l # made + 1
      BY <2>1, <3>2, FuseAssumption DEF FuseInv, SuccessionInv, Listeners
    <3> QED BY <3>1, <3>2
  <2>3. ASSUME NEW l \in Listeners, Unremoved(l)', NEW m \in l + 1..made'
        PROVE  lInst'[m] # lInst'[l]
    <3>1. l \in Nat /\ l # made + 1 /\ m \in Listeners /\ Unremoved(l)
      BY <1>1, <2>1, <2>3, NewListener, FuseAssumption DEF Listeners, Unremoved
    <3>2. CASE m = made + 1
      BY <1>1, <2>1, <3>1, <3>2, NewListener
    <3>3. CASE m # made + 1
      BY <2>1, <3>1, <3>3 DEF FuseInv, SuccessionInv
    <3> QED BY <3>2, <3>3
  <2> QED BY <2>2, <2>3 DEF SuccessionInv
<1> USE FuseAssumption DEF FuseInv, TypeOK, SuccessionInv, Listeners
<1>2. ASSUME NEW l \in Listeners, RemoveListener(l) PROVE SuccessionInv'
  BY <1>2 DEF RemoveListener, LGoto, Unremoved
<1>3. CASE /\ UNCHANGED <<links, made, lInst, lPg>>
           /\ \A l \in Listeners : /\ lPc'[l] = "unused" <=> lPc[l] = "unused"
                                   /\ Unremoved(l)' <=> Unremoved(l)
  BY <1>3
<1> QED BY <1>1, <1>2, <1>3, StepKinds

\* An instance has a link while it has a listener.
LEMMA LinksStep == FuseInv /\ [Next]_vars => LinksAreListeners'
<1> SUFFICES ASSUME FuseInv, [Next]_vars, NEW i \in Instances
             PROVE  /\ (\E l \in Listeners : lInst'[l] = i /\ Unremoved(l)') => i \in links'
                    /\ i \in links' => \E l \in Listeners : lInst'[l] = i /\ (Unremoved(l)' \/ lPg'[l])
  BY DEF LinksAreListeners
<1> DEFINE Goal == /\ (\E l \in Listeners : lInst'[l] = i /\ Unremoved(l)') => i \in links'
                   /\ i \in links' => \E l \in Listeners : lInst'[l] = i /\ (Unremoved(l)' \/ lPg'[l])
<1>0. /\ \A l \in Listeners : lInst[l] = i /\ Unremoved(l) => i \in links
      /\ i \in links => \E l \in Listeners : lInst[l] = i /\ (Unremoved(l) \/ lPg[l])
  BY DEF FuseInv, LinksAreListeners
<1>1. ASSUME NEW k \in Lookups, LookupListen(k) PROVE Goal
  BY <1>0, <1>1, NewListener DEF Unremoved
<1>2. ASSUME NEW l \in Listeners, RemoveListener(l) PROVE Goal
  <2>1. \A m \in Listeners : m # l /\ Unremoved(m) => lInst[m] # lInst[l]
    BY <1>2 DEF RemoveListener, LGoto, FuseInv, TypeOK, SuccessionInv, Unremoved, Listeners
  <2>2. /\ lInst' = lInst /\ lPg' = lPg
        /\ links' = IF lInst[l] \in links /\ ~lPg[l] THEN links \ {lInst[l]} ELSE links
        /\ Unremoved(l) /\ ~Unremoved(l)'
        /\ \A m \in Listeners : m # l => lPc'[m] = lPc[m]
    BY <1>2 DEF RemoveListener, LGoto, OwnsLink, FuseInv, TypeOK, Unremoved
  <2> QED
    BY <1>0, <2>1, <2>2 DEF Unremoved
<1>3. CASE /\ UNCHANGED <<links, made, lInst, lPg>>
           /\ \A l \in Listeners : /\ lPc'[l] = "unused" <=> lPc[l] = "unused"
                                   /\ Unremoved(l)' <=> Unremoved(l)
  BY <1>0, <1>3
<1> QED BY <1>1, <1>2, <1>3, StepKinds

\* newConn and Close hold the lock when they send and close.
LEMMA NoSendStep == FuseInv /\ [Next]_vars => NoSendOnClosed'
<1> SUFFICES ASSUME FuseInv, [Next]_vars, NEW l \in Listeners, lPc'[l] = "send" PROVE dst'
  BY DEF NoSendOnClosed
<1>0. lPc[l] = "send" => dst
  BY DEF FuseInv, NoSendOnClosed
<1> USE DEF FuseInv, TypeOK, vars, sockVars, lookVars, chanVars
<1>1. ASSUME NEW k \in Lookups, LookupListen(k) PROVE dst'
  BY <1>0, <1>1, NewListener DEF LookupListen
<1>2. ASSUME NEW k \in Lookups, LookupHit(k) \/ LookupMiss(k) \/ LookupFail(k) PROVE dst'
  BY <1>0, <1>2 DEF LookupHit, LookupMiss, LookupFail
<1>3. ASSUME NEW k \in Lookups, NEW i \in Instances, LookupCall(k, i) PROVE dst'
  BY <1>0, <1>3 DEF LookupCall
<1>4. ASSUME NEW m \in Listeners, Accept(m) PROVE dst'
  BY <1>4 DEF Accept
<1>5. ASSUME NEW m \in Listeners, Send(m) PROVE dst'
  BY <1>0, <1>5 DEF Send, LGoto
<1>6. ASSUME NEW m \in Listeners, AcceptError(m) PROVE dst'
  BY <1>0, <1>6 DEF AcceptError, LGoto
<1>7. ASSUME NEW m \in Listeners, RemoveListener(m) PROVE dst'
  BY <1>0, <1>7 DEF RemoveListener, LGoto
<1>8. ASSUME NEW m \in Listeners, CloseListener(m) PROVE dst'
  BY <1>0, <1>8 DEF CloseListener, LGoto
<1>9. ASSUME NEW m \in Listeners, RemovePath(m) PROVE dst'
  BY <1>0, <1>9 DEF RemovePath, LGoto
<1>10. ASSUME NEW p \in Closers, CloseDst(p) PROVE dst'
  BY <1>10 DEF CloseDst, WriteLock
<1>11. ASSUME NEW p \in Closers, Unmount(p) \/ CloseAll(p) PROVE dst'
  BY <1>0, <1>11 DEF Unmount, CloseAll
<1>12. CASE OwnerCloses \/ ServeReturns \/ ServeFails \/ ForceUnmount \/ RunTakes \/ UNCHANGED vars
  BY <1>0, <1>12 DEF OwnerCloses, ServeReturns, ServeFails, ForceUnmount, RunTakes
<1> QED
  BY <1>1, <1>2, <1>3, <1>4, <1>5, <1>6, <1>7, <1>8, <1>9, <1>10, <1>11, <1>12
     DEF Next, LookupStep, LookupDone, CloseStep, CleanStep

\* A listener that is the first of its instance and has not been removed.
Serving(l) ==
  /\ lPc[l] \in {"accept", "send"} /\ lOpen[l]
  /\ \A m \in Listeners : lInst[m] = lInst[l] => m >= l

\* It is the only one of its instance.
LEMMA FirstIsOnly ==
  ASSUME FuseInv, NEW l \in Listeners, Serving(l), NEW m \in Listeners, m # l, m <= made
  PROVE  lInst[m] # lInst[l]
BY FuseAssumption DEF FuseInv, TypeOK, SuccessionInv, Serving, Unremoved, Listeners

\* A listener whose goroutine runs has been made.
LEMMA UsedIsMade ==
  ASSUME FuseInv, NEW m \in Listeners, lPc[m] # "unused"
  PROVE  m <= made
BY FuseAssumption DEF FuseInv, TypeOK, SuccessionInv, Listeners

\* A step that neither makes a listener nor opens one only has to leave the
\* files of the serving ones alone.
LEMMA FilesKept ==
  ASSUME FuseInv, UNCHANGED lInst, UNCHANGED lPg,
         \A l \in Listeners : Serving(l)' => Serving(l),
         \A l \in Listeners : Serving(l)' =>
           sock'[lInst[l]] = sock[lInst[l]] /\ isDir'[lInst[l]] = isDir[lInst[l]]
  PROVE  FirstSocketStays'
BY DEF FuseInv, FirstSocketStays, Serving

\* Who removes the socket of a first listener.
LEMMA SocketStep == FuseInv /\ [Next]_vars => FirstSocketStays'
<1> SUFFICES ASSUME FuseInv, [Next]_vars PROVE FirstSocketStays'
  OBVIOUS
<1>0. \A l \in Listeners : Serving(l) => lInst[l] \in Instances /\ lInst[l] \in links
  <2>1. \A l \in Listeners : Serving(l) => lInst[l] \in Instances
    BY DEF FuseInv, SuccessionInv, Serving
  <2> QED BY <2>1 DEF FuseInv, LinksAreListeners, Serving, Unremoved
<1>t. TypeOK
  BY DEF FuseInv
<1>1. ASSUME NEW k \in Lookups, LookupListen(k) PROVE FirstSocketStays'
  <2>1. ASSUME NEW l \in Listeners, Serving(l)'
        PROVE  sock'[lInst'[l]] = l /\ isDir'[lInst'[l]] = lPg'[l]
    <3>1. CASE l = made + 1
      <4>1. lInst'[l] = lkInst[k] /\ lkInst[k] \in Instances
        BY <1>1, <3>1, NewListener
      <4>2. sock'[lkInst[k]] = l
        BY <1>1, <1>t, <3>1, <4>1 DEF LookupListen, TypeOK
      <4>3. isDir'[lkInst[k]] = lPg'[l]
        BY <1>1, <1>t, <3>1, <4>1 DEF LookupListen, TypeOK
      <4> QED BY <4>1, <4>2, <4>3
    <3>2. CASE l # made + 1
      <4>1. Unremoved(l) /\ lInst'[l] = lInst[l] /\ lPg'[l] = lPg[l] /\ lInst[l] # lkInst[k]
        BY <1>1, <2>1, <3>2, NewListener DEF Serving, Unremoved
      <4>2. Serving(l)
        <5>1. ASSUME NEW m \in Listeners, lInst[m] = lInst[l] PROVE m >= l
          <6>1. CASE m = made + 1
            <7>1. l <= made
              BY <1>1, <4>1, NewListener
            <7> QED BY <1>t, <6>1, <7>1, FuseAssumption DEF Listeners, TypeOK
          <6>2. CASE m # made + 1
            <7>1. lInst'[m] = lInst[m]
              BY <1>1, <6>2, NewListener
            <7> QED BY <2>1, <4>1, <5>1, <7>1 DEF Serving
          <6> QED BY <6>1, <6>2
        <5> QED
          BY <1>1, <2>1, <3>2, <5>1, NewListener DEF Serving
      <4>3. sock[lInst[l]] = l /\ isDir[lInst[l]] = lPg[l]
        BY <4>2 DEF FuseInv, FirstSocketStays, Serving
      <4>4. sock'[lInst[l]] = sock[lInst[l]] /\ isDir'[lInst[l]] = isDir[lInst[l]]
        BY <1>1, <1>t, <4>1 DEF LookupListen, TypeOK
      <4> QED BY <4>1, <4>3, <4>4
    <3> QED BY <3>1, <3>2
  <2> QED BY <2>1 DEF FirstSocketStays, Serving
<1>2. ASSUME NEW k \in Lookups, LookupMiss(k) \/ LookupFail(k) PROVE FirstSocketStays'
  <2>1. lkInst[k] \in Instances /\ lkInst[k] \notin links
    BY <1>2 DEF LookupMiss, LookupFail, Known, FuseInv, LookupInv
  <2>2. UNCHANGED <<lInst, lPg, lPc, lOpen>>
    BY <1>2 DEF LookupMiss, LookupFail
  <2>3. \A i \in Instances : i # lkInst[k] => sock'[i] = sock[i] /\ isDir'[i] = isDir[i]
    BY <1>2, <1>t DEF LookupMiss, LookupFail, TypeOK
  <2>4. \A l \in Listeners : Serving(l)' <=> Serving(l)
    BY <2>2 DEF Serving
  <2>5. \A l \in Listeners : Serving(l) => lInst[l] \in Instances /\ lInst[l] # lkInst[k]
    BY <1>0, <2>1
  <2> QED BY <2>2, <2>3, <2>4, <2>5, FilesKept
<1>3. ASSUME NEW m \in Listeners, CloseListener(m) PROVE FirstSocketStays'
  <2>1. m <= made /\ lPc[m] = "removed"
    BY <1>3, UsedIsMade DEF CloseListener, LGoto
  <2>2. UNCHANGED <<lInst, lPg, isDir>>
    BY <1>3 DEF CloseListener
  <2>3. ASSUME NEW l \in Listeners, Serving(l)' PROVE Serving(l) /\ l # m
    BY <1>3, <1>t, <2>2, <2>3 DEF CloseListener, LGoto, Serving, TypeOK
  <2>4. ASSUME NEW l \in Listeners, Serving(l)' PROVE sock'[lInst[l]] = sock[lInst[l]]
    <3>1. lInst[m] # lInst[l] /\ lInst[l] \in Instances
      BY <1>0, <2>1, <2>3, <2>4, FirstIsOnly
    <3> QED BY <1>3, <3>1 DEF CloseListener, Unlinked
  <2> QED BY <2>2, <2>3, <2>4, FilesKept
<1>4. ASSUME NEW m \in Listeners, RemovePath(m) PROVE FirstSocketStays'
  <2>1. m <= made /\ lPc[m] = "closed"
    BY <1>4, UsedIsMade DEF RemovePath, LGoto
  <2>2. UNCHANGED <<lInst, lPg, lOpen>>
    BY <1>4 DEF RemovePath
  <2>3. ASSUME NEW l \in Listeners, Serving(l)' PROVE Serving(l) /\ l # m
    BY <1>4, <1>t, <2>2, <2>3 DEF RemovePath, LGoto, Serving, TypeOK
  <2>4. ASSUME NEW l \in Listeners, Serving(l)'
        PROVE  sock'[lInst[l]] = sock[lInst[l]] /\ isDir'[lInst[l]] = isDir[lInst[l]]
    <3>1. lInst[m] # lInst[l] /\ lInst[l] \in Instances
      BY <1>0, <2>1, <2>3, <2>4, FirstIsOnly
    <3> QED BY <1>4, <1>t, <3>1 DEF RemovePath, Unlinked, TypeOK
  <2> QED BY <2>2, <2>3, <2>4, FilesKept
<1>5. ASSUME NEW p \in Closers, CloseAll(p) PROVE FirstSocketStays'
  <2>2. UNCHANGED <<lInst, lPg, isDir, lPc>>
    BY <1>5 DEF CloseAll
  <2>3. ASSUME NEW l \in Listeners, Serving(l)' PROVE Serving(l) /\ l \notin closers
    BY <1>5, <2>2, <2>3, Zenon DEF CloseAll, Serving
  <2>4. ASSUME NEW l \in Listeners, Serving(l)' PROVE sock'[lInst[l]] = sock[lInst[l]]
    <3>1. lInst[l] \in Instances
      BY <1>0, <2>3, <2>4
    <3>2. \A m \in closers : lInst[m] # lInst[l]
      BY <1>t, <2>3, <2>4, FirstIsOnly, FuseAssumption DEF TypeOK, Listeners
    <3> QED BY <1>5, <3>1, <3>2 DEF CloseAll, Unlinked
  <2> QED BY <2>2, <2>3, <2>4, FilesKept
<1>6. ASSUME UNCHANGED <<sock, isDir, lInst, lPg, lOpen>>,
             \A l \in Listeners : lPc'[l] \in {"accept", "send"} => lPc[l] \in {"accept", "send"}
      PROVE  FirstSocketStays'
  <2>1. \A l \in Listeners : Serving(l)' => Serving(l)
    BY <1>6 DEF Serving
  <2> QED BY <1>6, <2>1, FilesKept
<1> DEFINE Elsewhere ==
      /\ UNCHANGED <<sock, isDir, lInst, lPg, lOpen>>
      /\ \A l \in Listeners : lPc'[l] \in {"accept", "send"} => lPc[l] \in {"accept", "send"}
<1> USE DEF vars, sockVars, lookVars, chanVars
<1>7. ASSUME NEW k \in Lookups, LookupHit(k) \/ \E i \in Instances : LookupCall(k, i) PROVE Elsewhere
  BY <1>7 DEF LookupHit, LookupCall
<1>8. ASSUME NEW l \in Listeners, Accept(l) PROVE Elsewhere
  BY <1>8, <1>t DEF Accept, LGoto, TypeOK
<1>9. ASSUME NEW l \in Listeners, Send(l) PROVE Elsewhere
  BY <1>9, <1>t DEF Send, LGoto, TypeOK
<1>10. ASSUME NEW l \in Listeners, AcceptError(l) PROVE Elsewhere
  BY <1>10, <1>t DEF AcceptError, LGoto, TypeOK
<1>11. ASSUME NEW l \in Listeners, RemoveListener(l) PROVE Elsewhere
  BY <1>11, <1>t DEF RemoveListener, LGoto, TypeOK
<1>12. ASSUME NEW p \in Closers, CloseDst(p) \/ Unmount(p) PROVE Elsewhere
  BY <1>12 DEF CloseDst, Unmount
<1>13. ASSUME OwnerCloses \/ ServeReturns \/ ServeFails \/ ForceUnmount \/ RunTakes \/ UNCHANGED vars
       PROVE  Elsewhere
  BY <1>13 DEF OwnerCloses, ServeReturns, ServeFails, ForceUnmount, RunTakes
<1> HIDE DEF Elsewhere
<1>14. Elsewhere => FirstSocketStays'
  BY <1>6 DEF Elsewhere
<1> QED
  BY <1>1, <1>2, <1>3, <1>4, <1>5, <1>7, <1>8, <1>9, <1>10, <1>11, <1>12, <1>13, <1>14
     DEF Next, LookupStep, LookupDone, CloseStep, CleanStep

\* The inductive invariant of Lookup, listenerLifecycle, newConn, removeListener
\* and Close holds for any instances, lookups and number of listeners.
THEOREM Invariance == Spec => []FuseInv
<1>1. FuseInv /\ [Next]_vars => FuseInv'
  BY TypeStep, LookupInvStep, SuccessionStep, LinksStep, NoSendStep, SocketStep DEF FuseInv
<1> QED BY InitInv, <1>1, PTL DEF Spec

\* Nobody but the listener's own clean-up and Close removes the socket of the
\* first listener of an instance, whatever lookups and other clean-ups do.
THEOREM FirstSocketIsKept == Spec => []FirstSocketStays
<1>1. FuseInv => FirstSocketStays
  BY DEF FuseInv
<1> QED BY <1>1, Invariance, PTL

\* newConn never sends on a channel that fsRoot.Close has closed.
THEOREM ChannelIsOpen == Spec => []NoSendOnClosed
<1>1. FuseInv => NoSendOnClosed
  BY DEF FuseInv
<1> QED BY <1>1, Invariance, PTL

\* An instance never has two listeners that removeListener has not been called
\* for, although Lookup decides by the links alone.
THEOREM OneListenerEach == Spec => []OneListener
<1>1. FuseInv => OneListener
  BY FuseAssumption DEF FuseInv, TypeOK, SuccessionInv, OneListener, Unremoved, Listeners
<1> QED BY <1>1, Invariance, PTL
=============================================================================

-------------------------- MODULE ConfigCacheSteps --------------------------
(***************************************************************************)
(* Lemmas for ConfigCacheProofs: the steps of callers, of the clock and of *)
(* a refresh preserve IInv, except the one that starts a refresh.          *)
(***************************************************************************)
EXTENDS ConfigCache, TLAPS

-----------------------------------------------------------------------------
(* Facts about entries and callers.                                        *)

\* Refresh numbers are positive, so the nil value None is not one of them.
LEMMA RefreshIsPositive == \A o \in Refreshes : o \in Nat /\ o # None /\ o > 0
BY ConstantsAssumption DEF Refreshes, None

\* The parts of an entry have their types, and any such parts make an entry.
LEMMA EntryParts ==
  /\ \A e \in Entry : /\ e.cfg \in Refreshes \cup {None}
                     /\ e.done \in Refreshes \cup {None}
                     /\ e.err \in BOOLEAN
  /\ \A x, y \in Refreshes \cup {None}, b \in BOOLEAN :
       [cfg |-> x, err |-> b, done |-> y] \in Entry
  /\ NoEntry \in Entry
  /\ CtxError \in Entry
BY DEF Entry, NoEntry, CtxError

\* A goroutine inside cachedCfg asks for a real instance: a refreshCertAfter
\* goroutine exists only after its refresh was started for one.
LEMMA ActiveInstance ==
  ASSUME IInv, NEW c \in Callers, pc[c] # "none"
  PROVE  InstanceOf(c) \in Instances /\ cache[InstanceOf(c)] \in Entry
<1>1. CASE c \in Dialers
  BY <1>1, ConstantsAssumption DEF InstanceOf, IInv, TypeOK
<1>2. CASE c \notin Dialers
  <2>1. c \in Refreshes
    BY <1>2 DEF Callers
  <2>2. refPc[c] # "unused"
    BY <2>1 DEF IInv, TimersAfterStore
  <2>3. refInst[c] \in Instances
    BY <2>1, <2>2, RefreshIsPositive DEF IInv, RefreshesInOrder, TypeOK
  <2> QED
    BY <1>2, <2>3 DEF InstanceOf, IInv, TypeOK
<1> QED
  BY <1>1, <1>2
-----------------------------------------------------------------------------
(* Steps that only move a caller.                                          *)

\* The types of what a caller's own steps change.
CallsTyped ==
  /\ pc \in [Callers -> DialPcs \cup TimerPcs]
  /\ \A d \in Dialers : pc[d] \in DialPcs
  /\ \A o \in Refreshes : pc[o] \in TimerPcs
  /\ ent \in [Callers -> Entry]

PcsOf(c) == IF c \in Dialers THEN DialPcs ELSE TimerPcs

\* A caller that moves to a control point of its own, with any entry, and to
\* the wait only with a channel, keeps what IInv says of callers.
LEMMA MoveStep ==
  ASSUME IInv,
         NEW c \in Callers, pc[c] # "none",
         NEW l \in PcsOf(c), NEW e \in Entry,
         l = "wait" => e.done # None,
         pc' = [pc EXCEPT ![c] = l],
         ent' = [ent EXCEPT ![c] = e] \/ (ent' = ent /\ e = ent[c]),
         refPc' = refPc
  PROVE  CallsTyped' /\ NoNilWait' /\ TimersAfterStore'
<1> USE DEF IInv, TypeOK
<1>1. Dialers \subseteq Callers /\ Refreshes \subseteq Callers
  BY DEF Callers
<1>2. c \in Dialers \/ c \in Refreshes
  BY DEF Callers
<1>3. CallsTyped'
  BY <1>1, <1>2, DialersAreNotRefreshes DEF CallsTyped, PcsOf
<1>4. NoNilWait'
  BY DEF NoNilWait
<1>5. TimersAfterStore'
  BY <1>1 DEF TimersAfterStore
<1> QED
  BY <1>3, <1>4, <1>5

\* A step that changes neither the cache nor what the refreshes have done
\* preserves IInv if it preserves what IInv says of callers.
LEMMA QuietStep ==
  ASSUME IInv,
         UNCHANGED <<cacheVars, nref, refPc, refInst, refErr, notAfter>>,
         now' \in 0..MaxTime, now' >= now,
         refreshCfgL' \in Refreshes \cup {None},
         wake' \in [Refreshes -> Int],
         CallsTyped', NoNilWait', TimersAfterStore'
  PROVE  IInv'
<1> USE DEF cacheVars
<1>1. TypeOK'
  BY DEF IInv, TypeOK, CallsTyped
<1>2. RefreshesInOrder' /\ EntriesOwned' /\ LatestInEntry'
  BY DEF IInv, RefreshesInOrder, EntriesOwned, LatestInEntry, Obtained, HasStored
<1>3. LimiterInv'
  <2>1. now \in Nat /\ now' \in Nat /\ \A i \in Instances : limiter[i] \in Nat \cup {FullToken}
    BY ConstantsAssumption DEF IInv, TypeOK
  <2>2. \A i \in Instances : RefreshesOf(i)' = RefreshesOf(i)
    BY DEF RefreshesOf
  <2> QED
    BY <2>1, <2>2 DEF IInv, LimiterInv, FullToken
<1>4. InvalidatedObtained' /\ SingleFlight' /\ CfgXorErr' /\ NeverResurrected'
  BY DEF IInv, InvalidatedObtained, Obtained, HasStored, SingleFlight, InFlight,
         CfgXorErr, NeverResurrected
<1>5. ResultsNotLost'
  <2>1. \A o \in Refreshes : now > notAfter[o] => now' > notAfter'[o]
    BY ConstantsAssumption DEF IInv, TypeOK
  <2> QED
    BY <2>1 DEF IInv, ResultsNotLost, Obtained, HasStored
<1> QED
  BY <1>1, <1>2, <1>3, <1>4, <1>5 DEF IInv

\* The steps of cachedCfg that start no refresh, and the steps of DialContext
\* other than the one that clears the entry, preserve IInv.
LEMMA CallerStep ==
  ASSUME IInv, NEW c \in Callers,
         \/ CfgRead(c) \/ CfgCheck(c) \/ CfgReuse(c) \/ CfgWait(c) \/ CfgReread(c)
         \/ c \in Dialers /\ (\/ Begin(c) \/ CfgCancel(c) \/ DialEnd(c) \/ DialTCP(c)
                             \/ HandshakeOk(c) \/ HandshakeFail(c) \/ InvalidateRead(c))
  PROVE  IInv'
<1> DEFINE Moves(l, e) ==
      /\ pc[c] # "none" /\ l \in PcsOf(c) /\ e \in Entry
      /\ l = "wait" => e.done # None
      /\ pc' = [pc EXCEPT ![c] = l]
      /\ ent' = [ent EXCEPT ![c] = e] \/ (ent' = ent /\ e = ent[c])
<1>1. UNCHANGED <<now, cacheVars, refVars>>
  BY DEF CfgRead, CfgCheck, CfgReuse, CfgWait, CfgReread, Begin, CfgCancel, DialEnd,
         DialTCP, HandshakeOk, HandshakeFail, InvalidateRead
<1>2. ASSUME NEW l, NEW e, Moves(l, e)
      PROVE  IInv'
  <2>1. CallsTyped' /\ NoNilWait' /\ TimersAfterStore'
    BY <1>1, <1>2, MoveStep, Zenon DEF refVars
  <2> QED
    BY <1>1, <2>1, QuietStep DEF refVars, IInv, TypeOK
<1>3. ent[c] \in Entry
  BY DEF IInv, TypeOK
<1>4. {"read", "check", "lock", "wait", "reread"} \subseteq PcsOf(c)
  BY DEF PcsOf, DialPcs, TimerPcs, CfgPcs
<1>5. c \in Dialers => DialPcs = PcsOf(c)
  BY DEF PcsOf
<1>6. ASSUME NEW e \in Entry, pc[c] # "none", Return(c, e)
      PROVE  IInv'
  <2>1. CASE c \in Dialers
    BY <1>2, <1>6, <2>1, Zenon DEF Return, PcsOf, DialPcs
  <2>2. CASE c \notin Dialers
    BY <1>2, <1>6, <2>2, EntryParts, Zenon DEF Return, PcsOf, TimerPcs
  <2> QED
    BY <2>1, <2>2
<1>7. ASSUME NEW e \in Entry, pc[c] # "none", ReturnOrWait(c, e), e.done # None
      PROVE  IInv'
  <2>1. CASE Return(c, e)
    BY <1>6, <1>7, <2>1
  <2>2. CASE pc' = [pc EXCEPT ![c] = "wait"] /\ ent' = [ent EXCEPT ![c] = e]
    BY <1>2, <1>4, <1>7, <2>2, Zenon
  <2> QED
    BY <1>7, <2>1, <2>2 DEF ReturnOrWait
<1>8. CASE CfgRead(c)
  <2>1. pc[c] # "none" /\ cache[InstanceOf(c)] \in Entry
    BY <1>8, ActiveInstance DEF CfgRead, Goto
  <2> QED
    BY <1>2, <1>4, <1>8, <2>1, Zenon DEF CfgRead, Goto
<1>9. CASE CfgCheck(c)
  <2>1. CASE NeedsRefresh(ent[c]) /\ Goto(c, "check", "lock") /\ UNCHANGED ent
    BY <1>2, <1>3, <1>4, <2>1, Zenon DEF Goto
  <2>2. CASE ~NeedsRefresh(ent[c]) /\ ReturnOrWait(c, ent[c])
    BY <1>3, <1>7, <1>9, <2>2 DEF CfgCheck, NeedsRefresh
  <2> QED
    BY <1>9, <2>1, <2>2 DEF CfgCheck
<1>10. CASE CfgReuse(c)
  <2>1. pc[c] # "none" /\ InstanceOf(c) \in Instances /\ EntryUnderLock(c) \in Entry
    BY <1>10, ActiveInstance DEF CfgReuse, EntryUnderLock
  <2>2. EntryUnderLock(c).done # None
    BY <1>10, <2>1 DEF CfgReuse, EntryUnderLock, NeedsRefresh, Allow, IInv, LimiterInv
  <2> QED
    BY <1>7, <1>10, <2>1, <2>2 DEF CfgReuse
<1>11. CASE CfgWait(c)
  BY <1>2, <1>3, <1>4, <1>11, Zenon DEF CfgWait, Goto
<1>12. CASE CfgReread(c)
  <2>1. pc[c] # "none" /\ cache[InstanceOf(c)] \in Entry
    BY <1>12, ActiveInstance DEF CfgReread
  <2> QED
    BY <1>6, <1>12, <2>1 DEF CfgReread
<1>13. CASE c \in Dialers /\ (Begin(c) \/ DialTCP(c) \/ HandshakeFail(c))
  BY <1>2, <1>3, <1>5, <1>13 DEF Begin, DialTCP, HandshakeFail, Goto, DialPcs, CfgPcs
<1>14. CASE c \in Dialers /\ (DialEnd(c) \/ HandshakeOk(c))
  BY <1>2, <1>5, <1>14, EntryParts DEF DialEnd, HandshakeOk, Goto, DialPcs
<1>15. CASE c \in Dialers /\ CfgCancel(c)
  BY <1>6, <1>15, EntryParts, SMTT(30) DEF CfgCancel
<1>16. CASE c \in Dialers /\ InvalidateRead(c)
  <2>1. CASE pc' = [pc EXCEPT ![c] = "idle"] /\ ent' = [ent EXCEPT ![c] = NoEntry]
    BY <1>2, <1>5, <1>16, <2>1, EntryParts, Zenon DEF InvalidateRead, DialPcs
  <2>2. CASE pc' = [pc EXCEPT ![c] = "invalWrite"] /\ UNCHANGED ent
    BY <1>2, <1>3, <1>5, <1>16, <2>2, Zenon DEF InvalidateRead, DialPcs
  <2> QED
    BY <1>16, <2>1, <2>2, SMTT(30) DEF InvalidateRead
<1> QED
  BY <1>8, <1>9, <1>10, <1>11, <1>12, <1>13, <1>14, <1>15, <1>16

\* The passing of time and the end of a refreshCertAfter's sleep preserve IInv.
LEMMA ClockStep ==
  ASSUME IInv, Tick \/ \E o \in Refreshes : TimerFire(o)
  PROVE  IInv'
<1>1. CASE Tick
  <2>1. now' \in 0..MaxTime /\ now' >= now
    BY <1>1, ConstantsAssumption DEF Tick, IInv, TypeOK
  <2>2. CallsTyped' /\ NoNilWait' /\ TimersAfterStore'
    BY <1>1 DEF Tick, callVars, refVars, IInv, TypeOK, CallsTyped, NoNilWait, TimersAfterStore
  <2> QED
    BY <1>1, <2>1, <2>2, QuietStep DEF Tick, refVars, IInv, TypeOK
<1>2. ASSUME NEW o \in Refreshes, TimerFire(o)
      PROVE  IInv'
  <2>1. o \in Callers /\ "read" \in PcsOf(o) /\ ent[o] \in Entry /\ refPc' = refPc
    BY <1>2, DialersAreNotRefreshes
    DEF Callers, PcsOf, TimerPcs, CfgPcs, IInv, TypeOK, TimerFire
  <2>2. CallsTyped' /\ NoNilWait' /\ TimersAfterStore'
    BY <1>2, <2>1, MoveStep, Zenon DEF TimerFire, Goto
  <2>3. wake' \in [Refreshes -> Int]
    BY <1>2 DEF TimerFire, IInv, TypeOK
  <2>4. now \in 0..MaxTime /\ now >= now /\ refreshCfgL \in Refreshes \cup {None}
    BY ConstantsAssumption DEF IInv, TypeOK
  <2> QED
    BY <1>2, <2>2, <2>3, <2>4, QuietStep DEF TimerFire
<1> QED
  BY <1>1, <1>2, SMTT(30)

-----------------------------------------------------------------------------
(* Steps of a refresh.                                                     *)

\* What refreshCfg does until it returns changes nothing that IInv says of
\* others: the refresh has stored nothing yet.
LEMMA FetchStep ==
  ASSUME IInv, NEW o \in Refreshes, RefreshLock(o) \/ RefreshLocal(o) \/ RefreshRemote(o)
  PROVE  IInv'
<1> USE DEF IInv
<1>1. /\ UNCHANGED <<now, cacheVars, nref, refInst, wake, callVars>>
      /\ refPc[o] \in {"start", "local", "remote"}
  BY DEF RefreshLock, RefreshLocal, RefreshRemote, RefGoto
<1>2. \E l \in {"local", "remote", "fetched"} : refPc' = [refPc EXCEPT ![o] = l]
  BY DEF RefreshLock, RefreshLocal, RefreshRemote, RefGoto
<1>3. refErr' = refErr \/ refErr' = [refErr EXCEPT ![o] = TRUE]
  BY DEF RefreshLock, RefreshLocal, RefreshRemote, RefreshFailed
<1>4. notAfter' = notAfter \/ \E t \in Nat : notAfter' = [notAfter EXCEPT ![o] = t]
  <2>1. \A l \in Lifetimes : now + l \in Nat
    BY ConstantsAssumption DEF TypeOK
  <2> QED
    BY <2>1 DEF RefreshLock, RefreshLocal, RefreshRemote, RefreshFailed
<1>5. refreshCfgL' \in Refreshes \cup {None}
  BY DEF RefreshLock, RefreshLocal, RefreshRemote, RefreshFailed, TypeOK
<1>6. TypeOK'
  <2>1. refPc' \in [Refreshes -> RefPcs]
    BY <1>2 DEF TypeOK, RefPcs
  <2>2. refErr' \in [Refreshes -> BOOLEAN]
    BY <1>3, Zenon DEF TypeOK
  <2>3. notAfter' \in [Refreshes -> Nat]
    BY <1>4 DEF TypeOK
  <2> QED
    BY <1>1, <1>5, <2>1, <2>2, <2>3 DEF TypeOK, cacheVars, callVars
<1>7. \A p \in Refreshes :
        /\ Obtained(p)' <=> Obtained(p)
        /\ InFlight(p)' => InFlight(p)
        /\ Obtained(p) => notAfter'[p] = notAfter[p]
  BY <1>1, <1>2, <1>3, <1>4 DEF TypeOK, Obtained, HasStored, InFlight
<1>8. RefreshesInOrder' /\ EntriesOwned' /\ LatestInEntry'
  BY <1>1, <1>2, <1>7 DEF TypeOK, Entry, RefreshesInOrder, EntriesOwned, LatestInEntry, cacheVars
<1>9. TimersAfterStore' /\ NoNilWait'
  BY <1>1, <1>2 DEF TypeOK, TimersAfterStore, NoNilWait, callVars
<1>10. LimiterInv'
  BY <1>1 DEF LimiterInv, RefreshesOf, cacheVars
<1>11. InvalidatedObtained' /\ CfgXorErr' /\ NeverResurrected' /\ SingleFlight'
  BY <1>1, <1>7 DEF TypeOK, InvalidatedObtained, CfgXorErr, NeverResurrected, SingleFlight,
                    cacheVars
<1>12. ResultsNotLost'
  BY <1>1, <1>7 DEF ResultsNotLost, cacheVars
<1> QED
  BY <1>6, <1>8, <1>9, <1>10, <1>11, <1>12

\* Scheduling the next refresh and closing the channel change only the
\* control point of the refresh and its own refreshCertAfter goroutine.
LEMMA FinishStep ==
  ASSUME IInv, NEW o \in Refreshes, RefreshSchedule(o) \/ RefreshClose(o)
  PROVE  IInv'
<1> USE DEF IInv
<1>1. /\ UNCHANGED <<now, cacheVars, nref, refInst, refErr, notAfter, refreshCfgL>>
      /\ refPc[o] \in {"stored", "closing"}
  BY DEF RefreshSchedule, RefreshClose, RefGoto
<1>2. \E l \in {"closing", "closed"} : refPc' = [refPc EXCEPT ![o] = l]
  BY DEF RefreshSchedule, RefreshClose, RefGoto
<1>3. o \in Callers /\ o \notin Dialers /\ Refreshes \subseteq Callers /\ Dialers \subseteq Callers
  BY DialersAreNotRefreshes DEF Callers
<1>4. pc' = pc \/ pc' = [pc EXCEPT ![o] = "sleep"]
  BY DEF RefreshSchedule, RefreshClose, callVars
<1>5. ent' = ent \/ ent' = [ent EXCEPT ![o] = NoEntry]
  BY DEF RefreshSchedule, RefreshClose, callVars
<1>6. wake' \in [Refreshes -> Int]
  <2>1. CASE RefreshClose(o)
    BY <2>1 DEF RefreshClose, TypeOK
  <2>2. CASE RefreshSchedule(o)
    <3>1. IsValid(ent[o]) => ent[o].cfg \in Refreshes
      BY <1>3, EntryParts DEF IsValid, TypeOK
    <3>2. IsValid(ent[o]) => notAfter[ent[o].cfg] \in Nat
      BY <3>1 DEF TypeOK
    <3>3. IsValid(ent[o]) => RefreshTime(ent[o]) \in Int
      BY <3>2, ConstantsAssumption DEF RefreshTime
    <3> QED
      BY <2>2, <3>3 DEF RefreshSchedule, TypeOK
  <2> QED
    BY <2>1, <2>2
<1>7. TypeOK'
  <2>1. CallsTyped'
    <3>1. pc' \in [Callers -> DialPcs \cup TimerPcs]
      BY <1>4 DEF TypeOK, TimerPcs
    <3>2. \A d \in Dialers : pc'[d] \in DialPcs
      BY <1>3, <1>4 DEF TypeOK
    <3>3. \A p \in Refreshes : pc'[p] \in TimerPcs
      BY <1>3, <1>4 DEF TypeOK, TimerPcs
    <3>4. ent' \in [Callers -> Entry]
      BY <1>5, EntryParts DEF TypeOK
    <3> QED
      BY <3>1, <3>2, <3>3, <3>4 DEF CallsTyped
  <2>2. refPc' \in [Refreshes -> RefPcs]
    BY <1>2 DEF TypeOK, RefPcs
  <2> QED
    BY <1>1, <1>6, <2>1, <2>2 DEF TypeOK, CallsTyped, cacheVars
<1>8. \A p \in Refreshes :
        /\ Obtained(p)' <=> Obtained(p)
        /\ InFlight(p)' => InFlight(p)
  BY <1>1, <1>2 DEF TypeOK, Obtained, HasStored, InFlight
<1>9. RefreshesInOrder' /\ EntriesOwned' /\ LatestInEntry'
  BY <1>1, <1>2, <1>8 DEF TypeOK, Entry, RefreshesInOrder, EntriesOwned, LatestInEntry, cacheVars
<1>10. TimersAfterStore'
  BY <1>1, <1>2, <1>3, <1>4 DEF TypeOK, TimersAfterStore
<1>11. NoNilWait'
  <2>1. CASE RefreshClose(o)
    BY <2>1 DEF RefreshClose, NoNilWait, callVars
  <2>2. CASE RefreshSchedule(o)
    <3>1. pc[o] = "none"
      BY <2>2 DEF RefreshSchedule, RefGoto, TimersAfterStore
    <3>2. pc'[o] # "wait"
      BY <1>3, <1>4, <3>1 DEF TypeOK
    <3> QED
      BY <1>3, <1>4, <1>5, <3>2 DEF NoNilWait, TypeOK
  <2> QED
    BY <2>1, <2>2
<1>12. LimiterInv'
  <2>1. \A j \in Instances : RefreshesOf(j)' = RefreshesOf(j)
    BY <1>1 DEF RefreshesOf
  <2>2. cache' = cache /\ limiter' = limiter /\ now' = now
    BY <1>1 DEF cacheVars
  <2> QED
    BY <2>1, <2>2, Zenon DEF LimiterInv
<1>13. InvalidatedObtained' /\ CfgXorErr' /\ NeverResurrected' /\ SingleFlight'
  <2>1. cache' = cache /\ invalidated' = invalidated /\ refInst' = refInst
    BY <1>1 DEF cacheVars
  <2>2. InvalidatedObtained'
    BY <1>8, <2>1, SMTT(30) DEF TypeOK, InvalidatedObtained
  <2>3. CfgXorErr' /\ NeverResurrected'
    BY <2>1, SMTT(30) DEF CfgXorErr, NeverResurrected
  <2>4. SingleFlight'
    BY <1>8, <2>1, SMTT(30) DEF SingleFlight
  <2> QED
    BY <2>2, <2>3, <2>4
<1>14. ResultsNotLost'
  BY <1>1, <1>8 DEF ResultsNotLost, cacheVars
<1> QED
  BY <1>7, <1>9, <1>10, <1>11, <1>12, <1>13, <1>14

\* Storing the result of a refresh: it replaces the entry that holds its
\* channel, by its own config or by the one found there.
LEMMA StoreStep ==
  ASSUME IInv, NEW o \in Refreshes, RefreshStore(o)
  PROVE  IInv'
<1> USE DEF IInv
<1> DEFINE i == refInst[o]
           old == cache[i]
           new == StoredEntry(o)
<1>1. /\ UNCHANGED <<now, limiter, invalidated, nref, refInst, refErr, notAfter>>
      /\ UNCHANGED <<refreshCfgL, wake, pc>>
      /\ refPc[o] = "fetched" /\ refPc' = [refPc EXCEPT ![o] = "stored"]
      /\ cache' = [cache EXCEPT ![i] = new]
      /\ ent' = [ent EXCEPT ![o] = new]
  BY DEF RefreshStore, RefGoto
<1>2. o <= nref /\ i \in Instances
  BY <1>1, RefreshIsPositive DEF RefreshesInOrder, TypeOK
<1>3. old \in Entry /\ old.done = o
  BY <1>1, <1>2, SMTT(30) DEF TypeOK, SingleFlight, InFlight
<1>4. /\ new \in Entry /\ new.done = o
      /\ new.cfg # None => ~new.err
      /\ \/ new.cfg = o /\ ~refErr[o]
         \/ new.cfg = old.cfg /\ refErr[o]
         \/ new.cfg = None /\ refErr[o] /\ IsExpired(old.cfg)
  <2>1. refErr[o] \in BOOLEAN
    BY DEF TypeOK
  <2>2. old.cfg # None => ~old.err
    BY <1>2 DEF CfgXorErr
  <2>3. CASE refErr[o] /\ ~IsExpired(old.cfg)
    <3>1. new = [cfg |-> old.cfg, err |-> old.err, done |-> o]
      BY <2>3 DEF StoredEntry
    <3>2. old.cfg \in Refreshes \cup {None} /\ old.err \in BOOLEAN
      BY <1>3, EntryParts
    <3>3. new \in Entry
      BY <3>1, <3>2, EntryParts
    <3> QED
      BY <2>2, <2>3, <3>1, <3>3
  <2>4. CASE refErr[o] /\ IsExpired(old.cfg)
    <3>1. new = [cfg |-> None, err |-> refErr[o], done |-> o]
      BY <2>4 DEF StoredEntry
    <3>2. new \in Entry
      BY <2>1, <3>1, EntryParts
    <3>3. new.cfg = None /\ new.done = o
      BY <3>1, SMTT(30)
    <3> QED
      BY <2>4, <3>2, <3>3
  <2>5. CASE ~refErr[o]
    <3>1. new = [cfg |-> o, err |-> refErr[o], done |-> o]
      BY <2>5 DEF StoredEntry
    <3>2. new \in Entry
      BY <2>1, <3>1, EntryParts
    <3>3. new.cfg = o /\ new.done = o /\ ~new.err
      BY <2>5, <3>1, SMTT(30)
    <3> QED
      BY <2>5, <3>2, <3>3
  <2> QED
    BY <2>3, <2>4, <2>5, Zenon
<1> HIDE DEF new
<1>5. /\ cache'[i] = new
      /\ \A j \in Instances \ {i} : cache'[j] = cache[j]
  BY <1>1, <1>2 DEF TypeOK
<1>6. \A p \in Refreshes :
        /\ Obtained(p) => p # o /\ Obtained(p)'
        /\ Obtained(p)' => Obtained(p) \/ (p = o /\ ~refErr[o])
        /\ InFlight(p)' => InFlight(p)
  BY <1>1 DEF TypeOK, Obtained, HasStored, InFlight
<1>7. ~refErr[o] => Obtained(o)'
  BY <1>1 DEF TypeOK, Obtained, HasStored
<1>8. o \in Callers /\ pc[o] = "none"
  BY <1>1, SMTT(30) DEF Callers, TimersAfterStore
<1>9. TypeOK'
  BY <1>1, <1>2, <1>4, Zenon DEF TypeOK, RefPcs
<1>10. RefreshesInOrder'
  BY <1>1, <1>2 DEF RefreshesInOrder, TypeOK
<1>11. EntriesOwned'
  <2>1. ASSUME NEW j \in Instances, NEW x \in Refreshes
        PROVE  /\ cache'[j].done = x => refInst'[x] = j
               /\ cache'[j].cfg = x => refInst'[x] = j /\ Obtained(x)'
    <3>1. CASE j = i
      BY <1>1, <1>2, <1>4, <1>5, <1>6, <1>7, <3>1, RefreshIsPositive, SMTT(30) DEF EntriesOwned
    <3>2. CASE j # i
      BY <1>1, <1>5, <1>6, <3>2, RefreshIsPositive DEF EntriesOwned
    <3> QED
      BY <3>1, <3>2
  <2>2. \A j \in Instances : /\ cache'[j].done \in Refreshes \cup {None}
                            /\ cache'[j].cfg \in Refreshes \cup {None}
    BY <1>9, EntryParts DEF TypeOK
  <2> QED
    BY <2>1, <2>2 DEF EntriesOwned, Obtained, HasStored
<1>12. \A j \in Instances : cache'[j].done = cache[j].done
  BY <1>3, <1>4, <1>5
<1>13. LatestInEntry' /\ SingleFlight'
  BY <1>1, <1>6, <1>12, SMTT(30) DEF LatestInEntry, SingleFlight, RefreshesInOrder, InFlight, TypeOK
<1>14. TimersAfterStore' /\ NoNilWait'
  BY <1>1, <1>8 DEF TimersAfterStore, NoNilWait, TypeOK
<1>15. LimiterInv'
  BY <1>1, <1>12, SMTT(30) DEF LimiterInv, RefreshesOf
<1>16. InvalidatedObtained' /\ CfgXorErr'
  BY <1>1, <1>4, <1>5, <1>6, Zenon DEF InvalidatedObtained, CfgXorErr, TypeOK
<1>17. NeverResurrected'
  <2>1. o \notin invalidated /\ None \notin invalidated
    <3>1. invalidated \subseteq Refreshes /\ None \notin Refreshes
      BY RefreshIsPositive DEF TypeOK
    <3>2. ~Obtained(o)
      BY <1>6
    <3> QED
      BY <3>1, <3>2 DEF InvalidatedObtained
  <2> QED
    BY <1>1, <1>2, <1>4, <1>5, <2>1, SMTT(30) DEF NeverResurrected
<1>18. ResultsNotLost'
  <2> SUFFICES ASSUME NEW p \in Refreshes, Obtained(p)'
               PROVE  \/ cache'[refInst[p]].cfg >= p
                      \/ \E q \in Refreshes :
                           /\ q >= p /\ Obtained(q)'
                           /\ refInst[q] = refInst[p]
                           /\ q \in invalidated \/ now > notAfter[q]
    BY <1>1 DEF ResultsNotLost
  <2>0. refInst[p] \in Instances /\ p <= nref /\ p \in Nat
    <3>1. p \in Nat /\ nref \in Nat
      BY RefreshIsPositive DEF TypeOK
    <3>2. CASE p = o
      BY <1>2, <3>1, <3>2
    <3>3. CASE Obtained(p)
      <4>1. refPc[p] # "unused"
        BY <3>3 DEF Obtained, HasStored
      <4> QED
        BY <3>1, <4>1 DEF RefreshesInOrder
    <3> QED
      BY <1>6, <3>2, <3>3
  <2>1. CASE p = o
    <3>1. ~refErr[o]
      BY <1>1, <2>1 DEF Obtained
    <3>2. cache'[refInst[p]] = new /\ new.cfg = p
      BY <1>4, <1>5, <2>1, <3>1
    <3> QED
      BY <2>0, <3>2
  <2>2. CASE Obtained(p) /\ refInst[p] # i
    BY <1>5, <1>6, <2>0, <2>2 DEF ResultsNotLost
  <2>3. CASE Obtained(p) /\ refInst[p] = i
    <3>1. p <= o
      BY <1>3, <2>0, <2>3, SMTT(30) DEF LatestInEntry
    <3>2. CASE old.cfg >= p
      <4>1. CASE new.cfg = o
        BY <1>5, <2>3, <3>1, <4>1, RefreshIsPositive, Zenon
      <4>2. CASE new.cfg = old.cfg
        BY <1>5, <2>3, <3>2, <4>2
      <4>3. CASE new.cfg = None /\ IsExpired(old.cfg)
        <5>0. old.cfg \in Refreshes \cup {None}
          BY <1>3, EntryParts
        <5>1. PICK q \in Refreshes : q = old.cfg
          <6>1. p > 0
            BY RefreshIsPositive
          <6>2. old.cfg # None
            BY <2>0, <3>2, <6>1, SMTT(30) DEF None
          <6> QED
            BY <5>0, <6>2
        <5>2. now > notAfter[q] /\ Obtained(q) /\ refInst[q] = i
          BY <1>2, <4>3, <5>1, RefreshIsPositive, Zenon DEF IsExpired, EntriesOwned
        <5>3. q >= p /\ Obtained(q)'
          BY <1>6, <3>2, <5>1, <5>2, SMTT(30)
        <5> QED
          BY <2>3, <5>2, <5>3
      <4> QED
        BY <1>4, <4>1, <4>2, <4>3, SMTT(30)
    <3>3. CASE ~(old.cfg >= p)
      <4>1. PICK q \in Refreshes :
              /\ q >= p /\ Obtained(q)
              /\ refInst[q] = refInst[p]
              /\ q \in invalidated \/ now > notAfter[q]
        BY <2>3, <3>3, SMTT(30) DEF ResultsNotLost
      <4>2. Obtained(q)'
        BY <1>6, <4>1
      <4> QED
        BY <4>1, <4>2
    <3> QED
      BY <3>2, <3>3
  <2> QED
    BY <1>6, <2>1, <2>2, <2>3, Zenon
<1> QED
  BY <1>9, <1>10, <1>11, <1>13, <1>14, <1>15, <1>16, <1>17, <1>18

-----------------------------------------------------------------------------
(* Steps that change the cache on behalf of a caller.                      *)

\* invalidateCfg clears an entry only if it holds the config that failed, and
\* keeps the channel of a pending refresh.
LEMMA InvalidateStep ==
  ASSUME IInv, NEW d \in Dialers, InvalidateWrite(d)
  PROVE  IInv'
<1> USE DEF IInv
<1> DEFINE i == Target[d]
           x == cache[i].cfg
<1>1. /\ UNCHANGED <<now, limiter, refVars>>
      /\ pc[d] = "invalWrite"
      /\ pc' = [pc EXCEPT ![d] = "idle"]
      /\ ent' = [ent EXCEPT ![d] = NoEntry]
  BY DEF InvalidateWrite, Goto
<1>2. i \in Instances /\ d \in Callers /\ cache[i] \in Entry /\ x \in Refreshes \cup {None}
  BY ConstantsAssumption, EntryParts, SMTT(30) DEF Callers, TypeOK
<1>3. CallsTyped' /\ NoNilWait' /\ TimersAfterStore'
  <2>1. "idle" \in PcsOf(d) /\ "idle" # "wait"
    BY DEF PcsOf, DialPcs
  <2> QED
    BY <1>1, <1>2, <2>1, MoveStep, EntryParts, Zenon DEF refVars
<1>4. CASE UNCHANGED <<cache, invalidated>>
  <2>1. UNCHANGED <<cacheVars, nref, refPc, refInst, refErr, notAfter>>
    BY <1>1, <1>4 DEF cacheVars, refVars
  <2>2. now \in 0..MaxTime /\ now' = now /\ now' >= now
    BY <1>1, ConstantsAssumption DEF TypeOK
  <2>3. refreshCfgL' \in Refreshes \cup {None} /\ wake' \in [Refreshes -> Int]
    BY <1>1 DEF refVars, TypeOK
  <2> HIDE DEF IInv
  <2> QED
    BY <1>3, <2>1, <2>2, <2>3, QuietStep
<1>5. CASE /\ SameCfg(d)
           /\ cache' = [cache EXCEPT ![i] = [cfg |-> None, err |-> FALSE, done |-> cache[i].done]]
           /\ invalidated' = invalidated \cup ({ent[d].cfg} \ {None})
  <2>1. invalidated' = invalidated \cup ({x} \ {None})
    BY <1>5 DEF SameCfg
  <2>2. /\ cache'[i].cfg = None /\ cache'[i].err = FALSE
        /\ \A j \in Instances : cache'[j].done = cache[j].done
        /\ \A j \in Instances \ {i} : cache'[j] = cache[j]
    BY <1>2, <1>5 DEF TypeOK
  <2>3. cache' \in [Instances -> Entry]
    <3>1. [cfg |-> None, err |-> FALSE, done |-> cache[i].done] \in Entry
      BY <1>2, EntryParts, Zenon
    <3> QED
      BY <1>2, <1>5, <3>1 DEF TypeOK
  <2>4. TypeOK'
    BY <1>1, <1>2, <1>3, <2>1, <2>3, Zenon DEF TypeOK, CallsTyped, refVars
  <2>5. \A p \in Refreshes : (Obtained(p)' <=> Obtained(p)) /\ (InFlight(p)' <=> InFlight(p))
    BY <1>1, Zenon DEF Obtained, HasStored, InFlight, refVars
  <2>6. RefreshesInOrder' /\ LatestInEntry' /\ SingleFlight'
    <3>1. RefreshesInOrder'
      BY <1>1, SMTT(30) DEF RefreshesInOrder, refVars
    <3>2. LatestInEntry'
      BY <1>1, <2>2 DEF RefreshesInOrder, LatestInEntry, refVars
    <3>3. \A p \in Refreshes : InFlight(p) => refInst[p] \in Instances
      BY RefreshIsPositive DEF RefreshesInOrder, InFlight, TypeOK
    <3>4. refInst' = refInst /\ SingleFlight
      BY <1>1 DEF refVars
    <3>5. SingleFlight'
      BY <2>2, <2>5, <3>3, <3>4, Zenon DEF SingleFlight
    <3> QED
      BY <3>1, <3>2, <3>5
  <2>7. EntriesOwned'
    <3>1. refInst' = refInst /\ refPc' = refPc /\ refErr' = refErr
      BY <1>1 DEF refVars
    <3>2. ASSUME NEW j \in Instances
          PROVE  /\ cache'[j].done = cache[j].done
                 /\ cache'[j].cfg # None => cache'[j].cfg = cache[j].cfg
      BY <2>2
    <3> QED
      BY <3>1, <3>2 DEF EntriesOwned, Obtained, HasStored
  <2>8. LimiterInv'
    <3>1. \A j \in Instances : RefreshesOf(j)' = RefreshesOf(j)
      BY <1>1 DEF RefreshesOf, refVars
    <3> QED
      BY <1>1, <2>2, <3>1, Zenon DEF LimiterInv
  <2>9. InvalidatedObtained'
    BY <1>1, <1>2, <2>1, Zenon DEF InvalidatedObtained, EntriesOwned, Obtained, HasStored, refVars
  <2>10. CfgXorErr'
    BY <2>2, SMTT(30) DEF CfgXorErr
  <2>11. NeverResurrected'
    <3>1. ASSUME NEW j \in Instances, j # i, cache[j].cfg \in Refreshes
          PROVE  cache[j].cfg # x
      BY <1>2, <3>1, RefreshIsPositive DEF EntriesOwned
    <3>2. None \notin invalidated'
      BY <2>1, RefreshIsPositive DEF TypeOK
    <3>3. \A j \in Instances : cache[j].cfg \in Refreshes \cup {None}
      BY EntryParts, SMTT(30) DEF TypeOK
    <3> QED
      BY <2>1, <2>2, <3>1, <3>2, <3>3, SMTT(30) DEF NeverResurrected
  <2>12. ResultsNotLost'
    <3> SUFFICES ASSUME NEW p \in Refreshes, Obtained(p)
                 PROVE  \/ cache'[refInst[p]].cfg >= p
                        \/ \E q \in Refreshes :
                             /\ q >= p /\ Obtained(q)
                             /\ refInst[q] = refInst[p]
                             /\ q \in invalidated' \/ now > notAfter[q]
      BY <1>1, <2>5 DEF ResultsNotLost, refVars
    <3>1. refInst[p] \in Instances
      BY RefreshIsPositive DEF RefreshesInOrder, TypeOK, Obtained, HasStored
    <3>2. CASE ~(cache[refInst[p]].cfg >= p)
      BY <2>1, <3>2 DEF ResultsNotLost
    <3>3. CASE cache[refInst[p]].cfg >= p /\ refInst[p] # i
      BY <2>2, <3>1, <3>3
    <3>4. CASE cache[refInst[p]].cfg >= p /\ refInst[p] = i
      <4>1. x # None /\ x \in Refreshes
        BY <1>2, <3>4, RefreshIsPositive, SMTT(30) DEF None
      <4>2. x \in invalidated' /\ Obtained(x) /\ refInst[x] = i
        BY <1>2, <2>1, <4>1 DEF EntriesOwned
      <4> QED
        BY <3>4, <4>1, <4>2
    <3> QED
      BY <3>2, <3>3, <3>4
  <2> QED
    BY <1>3, <2>4, <2>6, <2>7, <2>8, <2>9, <2>10, <2>11, <2>12
<1> QED
  BY <1>4, <1>5 DEF InvalidateWrite
=============================================================================

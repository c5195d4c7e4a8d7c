-------------------------- MODULE ConfigCacheProofs --------------------------
(***************************************************************************)
(* Proofs about ConfigCache: IInv is inductive, the safety properties      *)
(* follow from it, and ConfigCache implements ConfigRegister, for any      *)
(* instances, dialers, lifetimes, throttle, buffer and bounds.             *)
(***************************************************************************)
EXTENDS ConfigRefinement, ConfigCacheSteps, FiniteSetTheorems

-----------------------------------------------------------------------------
(* The step that starts a refresh, and the inductive invariant.            *)

\* Starting a refresh: the instance has none pending, the new one is the latest
\* of all, and the limiter has given out a token.
LEMMA StartStep ==
  ASSUME IInv, NEW c \in Callers, CfgStart(c)
  PROVE  IInv'
<1> USE DEF IInv
<1> DEFINE i == InstanceOf(c)
           o == nref + 1
           old == cache[i]
           e == [cfg |-> old.cfg, err |-> old.err, done |-> o]
<1>1. /\ UNCHANGED <<now, refErr, notAfter, refreshCfgL, wake, invalidated>>
      /\ pc[c] = "lock" /\ NeedsRefresh(old) /\ Allow(i) /\ nref < MaxRefreshes
      /\ nref' = o
      /\ refPc' = [refPc EXCEPT ![o] = "start"]
      /\ refInst' = [refInst EXCEPT ![o] = i]
      /\ limiter' = [limiter EXCEPT ![i] = now]
      /\ cache' = [cache EXCEPT ![i] = e]
      /\ ReturnOrWait(c, e)
  BY DEF CfgStart, EntryUnderLock
<1>2. i \in Instances /\ old \in Entry
  BY <1>1, ActiveInstance, SMTT(30)
<1>3. /\ o \in Refreshes /\ o \in Nat /\ nref \in Nat /\ nref < o
      /\ refPc[o] = "unused" /\ refInst[o] = None
  BY <1>1, ConstantsAssumption, SMTT(30) DEF TypeOK, RefreshesInOrder, Refreshes
<1>4. e \in Entry /\ e.cfg = old.cfg /\ e.err = old.err /\ e.done = o
  BY <1>2, <1>3, EntryParts, SMTT(30)
<1> HIDE DEF e
<1>5. /\ cache'[i] = e
      /\ \A j \in Instances \ {i} : cache'[j] = cache[j]
      /\ \A j \in Instances : cache'[j].cfg = cache[j].cfg /\ cache'[j].err = cache[j].err
      /\ cache' \in [Instances -> Entry]
  BY <1>1, <1>2, <1>4, SMTT(30) DEF TypeOK
<1>6. /\ refPc'[o] = "start" /\ refInst'[o] = i
      /\ \A p \in Refreshes \ {o} : refPc'[p] = refPc[p] /\ refInst'[p] = refInst[p]
  BY <1>1, <1>3 DEF TypeOK
<1> HIDE DEF i, o
<1>7. o # None /\ \A p \in Refreshes : Obtained(p)' <=> Obtained(p)
  BY <1>1, <1>3, <1>6, RefreshIsPositive DEF Obtained, HasStored
<1>8. \A p \in Refreshes : Obtained(p) => p # o
  BY <1>3 DEF Obtained, HasStored
<1>9. CallsTyped' /\ NoNilWait' /\ TimersAfterStore'
  <2>1. ASSUME NEW l \in PcsOf(c), NEW f \in Entry, l = "wait" => f.done # None,
               pc' = [pc EXCEPT ![c] = l], ent' = [ent EXCEPT ![c] = f]
        PROVE  CallsTyped' /\ NoNilWait' /\ TimersAfterStore'
    <3>1. Dialers \subseteq Callers /\ Refreshes \subseteq Callers
      BY SMTT(30) DEF Callers
    <3>2. CallsTyped'
      BY <2>1, <3>1, DialersAreNotRefreshes DEF TypeOK, CallsTyped, PcsOf, Callers
    <3>3. NoNilWait'
      BY <2>1 DEF NoNilWait, TypeOK
    <3>4. c # o
      BY <1>1, <1>3, SMTT(30) DEF TimersAfterStore
    <3>5. TimersAfterStore'
      BY <1>1, <1>3, <1>6, <2>1, <3>1, <3>4 DEF TimersAfterStore, TypeOK
    <3> QED
      BY <3>2, <3>3, <3>5
  <2>2. CASE Return(c, e)
    <3>1. CASE c \in Dialers
      BY <1>4, <2>1, <2>2, <3>1, Zenon DEF Return, PcsOf, DialPcs
    <3>2. CASE c \notin Dialers
      BY <2>1, <2>2, <3>2, EntryParts, Zenon DEF Return, PcsOf, TimerPcs
    <3> QED
      BY <3>1, <3>2, SMTT(30)
  <2>3. CASE pc' = [pc EXCEPT ![c] = "wait"] /\ ent' = [ent EXCEPT ![c] = e]
    BY <1>4, <1>7, <2>1, <2>3, Zenon DEF PcsOf, DialPcs, TimerPcs, CfgPcs
  <2> QED
    BY <1>1, <2>2, <2>3 DEF ReturnOrWait
<1>10. TypeOK'
  <2>1. limiter' \in [Instances -> Nat \cup {FullToken}]
    BY <1>1, <1>2, ConstantsAssumption DEF TypeOK
  <2>2. nref' \in 0..MaxRefreshes
    BY <1>1, <1>3, ConstantsAssumption DEF TypeOK, o
  <2>3. refPc' \in [Refreshes -> RefPcs] /\ refInst' \in [Refreshes -> Instances \cup {None}]
    BY <1>1, <1>2, <1>3 DEF TypeOK, RefPcs
  <2> QED
    BY <1>1, <1>5, <1>9, <2>1, <2>2, <2>3 DEF TypeOK, CallsTyped
<1>11. RefreshesInOrder'
  <2>1. \A p \in Refreshes : p \in Nat /\ (p > nref' => p > nref /\ p # o)
                            /\ (p <= nref' /\ p # o => p <= nref)
    BY <1>1, <1>3, RefreshIsPositive DEF o
  <2> QED
    BY <1>2, <1>6, <2>1 DEF RefreshesInOrder
<1>12. \A j \in Instances : cache[j].cfg \in Refreshes \cup {None} /\ cache[j].done \in Refreshes \cup {None}
  BY EntryParts, SMTT(30) DEF TypeOK
<1>13. EntriesOwned'
  <2>1. ASSUME NEW j \in Instances, cache'[j].done # None
        PROVE  refInst'[cache'[j].done] = j
    <3>1. CASE j = i
      BY <1>4, <1>5, <1>6, <3>1
    <3>2. CASE j # i
      <4>1. cache[j].done \in Refreshes /\ refInst[cache[j].done] = j
        BY <1>5, <1>12, <2>1, <3>2 DEF EntriesOwned
      <4>2. cache[j].done # o
        BY <1>3, <4>1, NoneIsNoInstance
      <4> QED
        BY <1>5, <1>6, <3>2, <4>1, <4>2
    <3> QED
      BY <3>1, <3>2
  <2>2. ASSUME NEW j \in Instances, NEW x \in Refreshes, x = cache[j].cfg
        PROVE  refInst'[x] = j /\ Obtained(x)'
    BY <1>6, <1>7, <1>8, <2>2, RefreshIsPositive DEF EntriesOwned
  <2>3. ASSUME NEW j \in Instances, cache'[j].cfg # None
        PROVE  refInst'[cache'[j].cfg] = j /\ Obtained(cache[j].cfg)'
    <3>1. PICK x \in Refreshes : x = cache[j].cfg /\ x = cache'[j].cfg
      BY <1>5, <1>12, <2>3
    <3>2. refInst'[x] = j /\ Obtained(x)'
      BY <2>2, <3>1, Zenon
    <3> QED
      BY <3>1, <3>2 DEF Obtained, HasStored
  <2> QED
    BY <2>1, <2>3 DEF EntriesOwned
<1>14. LatestInEntry'
  <2> SUFFICES ASSUME NEW p \in Refreshes, p <= nref'
               PROVE  cache'[refInst'[p]].done >= p
    BY DEF LatestInEntry
  <2>1. CASE p = o
    BY <1>3, <1>4, <1>5, <1>6, <2>1
  <2>2. CASE p # o
    <3>1. p <= nref /\ p <= o /\ refInst[p] \in Instances
      BY <1>1, <1>3, <2>2, RefreshIsPositive DEF RefreshesInOrder, o
    <3> QED
      BY <1>4, <1>5, <1>6, <2>2, <3>1, RefreshIsPositive DEF LatestInEntry
  <2> QED
    BY <2>1, <2>2
<1>15. SingleFlight'
  <2> SUFFICES ASSUME NEW p \in Refreshes, InFlight(p)'
               PROVE  cache'[refInst'[p]].done = p
    BY DEF SingleFlight
  <2>1. CASE p = o
    BY <1>4, <1>5, <1>6, <2>1
  <2>2. CASE p # o
    <3>1. InFlight(p) /\ refInst[p] \in Instances /\ cache[refInst[p]].done = p
      BY <1>6, <2>2, RefreshIsPositive DEF SingleFlight, InFlight, RefreshesInOrder, TypeOK
    <3>2. refInst[p] # i
      BY <1>1, <3>1, RefreshIsPositive, SMTT(30) DEF NeedsRefresh, IsClosed, InFlight
    <3> QED
      BY <1>5, <1>6, <2>2, <3>1, <3>2
  <2> QED
    BY <2>1, <2>2
<1>16. LimiterInv'
  <2>1. /\ limiter'[i] = now /\ now \in Nat /\ Throttle \in Nat
        /\ \A j \in Instances \ {i} : limiter'[j] = limiter[j]
        /\ limiter[i] \in Nat \cup {FullToken}
    BY <1>1, <1>2, ConstantsAssumption, SMTT(30) DEF TypeOK
  <2>2. \A j \in Instances \ {i} : RefreshesOf(j)' = RefreshesOf(j)
    BY <1>2, <1>3, <1>6, NoneIsNoInstance, Zenon DEF RefreshesOf
  <2>3. PICK k \in Instances : k = i
    BY <1>2
  <2>4. PICK q \in Refreshes : q = o
    BY <1>3
  <2>5. RefreshesOf(k)' = RefreshesOf(k) \cup {q} /\ q \notin RefreshesOf(k)
    BY <1>2, <1>3, <1>6, <2>3, <2>4, NoneIsNoInstance, Zenon DEF RefreshesOf
  <2>6. /\ IsFiniteSet(RefreshesOf(k))
        /\ Cardinality(RefreshesOf(k)) \in Nat
        /\ Cardinality(RefreshesOf(k)') = Cardinality(RefreshesOf(k)) + 1
    <3>1. IsFiniteSet(Refreshes)
      BY FS_Interval, ConstantsAssumption DEF Refreshes
    <3>2. IsFiniteSet(RefreshesOf(k))
      BY <3>1, FS_Subset DEF RefreshesOf
    <3> QED
      BY <2>5, <3>2, FS_AddElement, FS_CardinalityType
  <2>7. Cardinality(RefreshesOf(k)) * Throttle <= now
    <3>1. CASE limiter[k] = FullToken
      <4>1. Cardinality(RefreshesOf(k)) = 0
        BY <3>1, FS_EmptySet, Zenon DEF LimiterInv
      <4> QED
        BY <2>1, <4>1
    <3>2. CASE limiter[k] # FullToken
      <4> DEFINE n == Cardinality(RefreshesOf(k))
      <4>1. (n - 1) * Throttle <= limiter[k] /\ now - limiter[k] >= Throttle /\ limiter[k] \in Nat
        BY <1>1, <2>1, <2>3, <3>2 DEF LimiterInv, Allow
      <4>2. n \in Nat
        BY <2>6
      <4> HIDE DEF n
      <4>3. n * Throttle = (n - 1) * Throttle + Throttle
        BY <2>1, <4>2
      <4>4. (n - 1) * Throttle \in Int
        BY <2>1, <4>2
      <4>5. n * Throttle <= now
        BY <2>1, <4>1, <4>3, <4>4
      <4> QED
        BY <4>5 DEF n
    <3> QED
      BY <3>1, <3>2
  <2>8. (Cardinality(RefreshesOf(k)') - 1) * Throttle <= limiter'[k]
    BY <2>1, <2>3, <2>6, <2>7
  <2>9. cache'[k].done # None /\ limiter'[k] # FullToken /\ limiter'[k] <= now
    BY <1>4, <1>5, <1>7, <2>1, <2>3, SMTT(30) DEF FullToken
  <2>10. ASSUME NEW j \in Instances, j # k
         PROVE  /\ limiter'[j] = limiter[j] /\ RefreshesOf(j)' = RefreshesOf(j)
                /\ cache'[j].done = cache[j].done
    BY <1>5, <2>1, <2>2, <2>3, <2>10
  <2>11. now' = now
    BY <1>1, SMTT(30)
  <2> QED
    BY <2>8, <2>9, <2>10, <2>11 DEF LimiterInv
<1>17. InvalidatedObtained' /\ CfgXorErr' /\ NeverResurrected'
  BY <1>1, <1>5, <1>7 DEF InvalidatedObtained, CfgXorErr, NeverResurrected, TypeOK
<1>18. ResultsNotLost'
  <2>1. \A p \in Refreshes : Obtained(p) => refInst'[p] = refInst[p] /\ refInst[p] \in Instances
    BY <1>6, <1>8, RefreshIsPositive DEF RefreshesInOrder, TypeOK, Obtained, HasStored
  <2> QED
    BY <1>1, <1>5, <1>7, <2>1, SMTT(30) DEF ResultsNotLost
<1> QED
  BY <1>9, <1>10, <1>11, <1>13, <1>14, <1>15, <1>16, <1>17, <1>18, SMTT(30)

-----------------------------------------------------------------------------
(* The theorems.                                                           *)

\* A client that has done nothing yet satisfies the inductive invariant.
LEMMA InitInv == Init => IInv
<1> SUFFICES ASSUME Init
             PROVE  IInv
  OBVIOUS
<1> USE DEF Init
<1>1. TypeOK
  <2>1. NoEntry \in Entry
    BY EntryParts
  <2>2. \A c \in Callers : pc[c] = (IF c \in Dialers THEN "idle" ELSE "none")
    OBVIOUS
  <2>3. \A o \in Refreshes : o \in Callers /\ o \notin Dialers
    BY DialersAreNotRefreshes DEF Callers
  <2>4. CallsTyped
    BY <2>1, <2>2, <2>3 DEF CallsTyped, Callers, DialPcs, TimerPcs
  <2> QED
    BY <2>1, <2>4, ConstantsAssumption DEF TypeOK, CallsTyped, RefPcs, FullToken
<1>2. RefreshesInOrder /\ LatestInEntry
  BY RefreshIsPositive DEF RefreshesInOrder, LatestInEntry
<1>3. EntriesOwned /\ CfgXorErr /\ NeverResurrected /\ InvalidatedObtained
  BY DEF EntriesOwned, CfgXorErr, NeverResurrected, InvalidatedObtained, NoEntry
<1>4. TimersAfterStore
  BY DialersAreNotRefreshes DEF TimersAfterStore, Callers
<1>5. LimiterInv
  BY NoneIsNoInstance DEF LimiterInv, RefreshesOf
<1>6. SingleFlight /\ ResultsNotLost
  BY DEF SingleFlight, InFlight, ResultsNotLost, Obtained, HasStored
<1>7. NoNilWait
  BY DEF NoNilWait
<1> QED
  BY <1>1, <1>2, <1>3, <1>4, <1>5, <1>6, <1>7 DEF IInv

\* Every step of every goroutine preserves the inductive invariant.
LEMMA NextInv == IInv /\ [Next]_vars => IInv'
<1> SUFFICES ASSUME IInv, [Next]_vars
             PROVE  IInv'
  OBVIOUS
<1>1. CASE Tick
  BY <1>1, ClockStep
<1>2. ASSUME NEW c \in Callers, CfgStep(c)
      PROVE  IInv'
  BY <1>2, CallerStep, StartStep DEF CfgStep
<1>3. ASSUME NEW d \in Dialers, DialStep(d)
      PROVE  IInv'
  <2>1. d \in Callers
    BY DEF Callers
  <2> QED
    BY <1>3, <2>1, CallerStep, InvalidateStep DEF DialStep
<1>4. ASSUME NEW o \in Refreshes, RefreshLock(o) \/ RefreshStep(o) \/ TimerFire(o)
      PROVE  IInv'
  BY <1>4, FetchStep, StoreStep, FinishStep, ClockStep, SMTT(30) DEF RefreshStep
<1>5. CASE UNCHANGED vars
  <2>1. UNCHANGED <<now, cache, limiter, invalidated, nref, refPc, refInst, refErr, notAfter,
                    refreshCfgL, wake, pc, ent>>
    BY <1>5 DEF vars, cacheVars, refVars, callVars
  <2>2. CallsTyped' /\ NoNilWait' /\ TimersAfterStore'
    BY <2>1 DEF IInv, TypeOK, CallsTyped, NoNilWait, TimersAfterStore
  <2>3. now \in 0..MaxTime /\ now >= now
    BY ConstantsAssumption DEF IInv, TypeOK
  <2> QED
    BY <2>1, <2>2, <2>3, QuietStep DEF cacheVars, IInv, TypeOK
<1> QED
  BY <1>1, <1>2, <1>3, <1>4, <1>5 DEF Next

\* The inductive invariant holds in every reachable state: what startRefresh,
\* cachedCfg and invalidateCfg maintain together, for any number of dialers.
THEOREM Invariance == Spec => []IInv
BY InitInv, NextInv, PTL DEF Spec

\* Every variable keeps its type, and a refreshCertAfter goroutine never goes
\* on to dial with what cachedCfg returned to it.
THEOREM TypeCorrect == Spec => []TypeOK
<1>1. IInv => TypeOK
  BY DEF IInv
<1> QED
  BY <1>1, Invariance, PTL

\* cachedCfg and startRefresh never run two refreshes of one instance at once.
THEOREM OneRefreshAtATime == Spec => []SingleFlight
<1>1. IInv => SingleFlight
  BY DEF IInv
<1> QED
  BY <1>1, Invariance, PTL

\* No caller of cachedCfg waits on a nil channel.
THEOREM WaitsOnAChannel == Spec => []NoNilWait
<1>1. IInv => NoNilWait
  BY DEF IInv
<1> QED
  BY <1>1, Invariance, PTL

\* The entries that startRefresh and invalidateCfg write hold a config or an
\* error, never both.
THEOREM CfgOrErr == Spec => []CfgXorErr
<1>1. IInv => CfgXorErr
  BY DEF IInv
<1> QED
  BY <1>1, Invariance, PTL

\* A config that invalidateCfg has thrown out is never in the cache again.
THEOREM InvalidatedStaysOut == Spec => []NeverResurrected
<1>1. IInv => NeverResurrected
  BY DEF IInv
<1> QED
  BY <1>1, Invariance, PTL

\* A config that a refresh obtained is not lost to a failing refresh or to the
\* invalidation of an older one.
THEOREM ObtainedIsKept == Spec => []ResultsNotLost
<1>1. IInv => ResultsNotLost
  BY DEF IInv
<1> QED
  BY <1>1, Invariance, PTL

\* The limiter in cachedCfg bounds the refreshes of an instance by the time
\* that has passed.
THEOREM RefreshesAreThrottled == Spec => []RefreshQuota
<1>1. IInv => RefreshQuota
  <2> SUFFICES ASSUME IInv, NEW i \in Instances, Cardinality(RefreshesOf(i)) > 0
               PROVE  (Cardinality(RefreshesOf(i)) - 1) * Throttle <= now
    BY DEF RefreshQuota
  <2>1. limiter[i] # FullToken
    BY FS_EmptySet, SMTT(30) DEF IInv, LimiterInv
  <2>2. /\ (Cardinality(RefreshesOf(i)) - 1) * Throttle <= limiter[i]
        /\ limiter[i] <= now
    BY <2>1 DEF IInv, LimiterInv
  <2>3. IsFiniteSet(Refreshes)
    BY FS_Interval, ConstantsAssumption DEF Refreshes
  <2>4. Cardinality(RefreshesOf(i)) \in Nat
    BY <2>3, FS_Subset, FS_CardinalityType DEF RefreshesOf
  <2>5. (Cardinality(RefreshesOf(i)) - 1) * Throttle \in Int /\ limiter[i] \in Int /\ now \in Int
    BY <2>1, <2>4, ConstantsAssumption, SMTT(30) DEF IInv, TypeOK
  <2> QED
    BY <2>2, <2>5
<1> QED
  BY <1>1, Invariance, PTL

\* No step of startRefresh, cachedCfg or invalidateCfg puts an older config in
\* the place of a newer one.
THEOREM NoOlderConfig == Spec => CfgOnlyAdvances
<1> DEFINE Advances == \A i \in Instances : cache'[i].cfg = None \/ cache'[i].cfg >= cache[i].cfg
<1>1. IInv /\ [Next]_vars => [Advances]_vars
  <2> SUFFICES ASSUME IInv, Next
               PROVE  Advances
    BY SMTT(30) DEF vars
  <2>0. \A i \in Instances : /\ cache[i] \in Entry
                            /\ cache[i].cfg \in Nat
    BY EntryParts, RefreshIsPositive, SMTT(30) DEF IInv, TypeOK, None
  <2>1. CASE cache' = cache
    BY <2>0, <2>1
  <2>2. ASSUME NEW o \in Refreshes, RefreshStore(o)
        PROVE  Advances
    <3> DEFINE i == refInst[o]
               new == StoredEntry(o)
    <3>1. cache' = [cache EXCEPT ![i] = new] /\ refPc[o] = "fetched"
      BY <2>2 DEF RefreshStore, RefGoto
    <3>2. i \in Instances /\ cache[i].done = o
      BY <3>1, RefreshIsPositive DEF IInv, RefreshesInOrder, TypeOK, SingleFlight, InFlight
    <3>3. o >= cache[i].cfg
      <4>1. CASE cache[i].cfg = None
        BY <4>1, RefreshIsPositive DEF None
      <4>2. CASE cache[i].cfg # None
        <5>1. PICK q \in Refreshes : q = cache[i].cfg
          BY <2>0, <3>2, <4>2, EntryParts
        <5>2. refInst[q] = i /\ q <= nref
          BY <3>2, <4>2, <5>1, RefreshIsPositive, SMTT(30)
          DEF IInv, EntriesOwned, Obtained, HasStored, RefreshesInOrder, TypeOK
        <5> QED
          BY <3>2, <5>1, <5>2, SMTT(30) DEF IInv, LatestInEntry
      <4> QED
        BY <4>1, <4>2
    <3>4. new.cfg \in {cache[i].cfg, None, o}
      BY DEF StoredEntry
    <3> QED
      BY <2>0, <3>1, <3>2, <3>3, <3>4, SMTT(30) DEF IInv, TypeOK
  <2>3. ASSUME NEW c \in Callers, CfgStart(c)
        PROVE  Advances
    <3>1. InstanceOf(c) \in Instances
      BY <2>3, ActiveInstance, SMTT(30) DEF CfgStart
    <3>2. \A i \in Instances : cache'[i].cfg = cache[i].cfg
      BY <2>3, <3>1 DEF CfgStart, EntryUnderLock, IInv, TypeOK
    <3>3. \A i \in Instances : cache'[i].cfg >= cache[i].cfg
      <4> SUFFICES ASSUME NEW i \in Instances
                   PROVE  cache'[i].cfg >= cache[i].cfg
        OBVIOUS
      <4>1. cache[i].cfg \in Nat /\ cache'[i].cfg = cache[i].cfg
        BY <2>0, <3>2
      <4> QED
        BY <4>1
    <3> QED
      BY <3>3
  <2>4. ASSUME NEW d \in Dialers, InvalidateWrite(d)
        PROVE  Advances
    <3>1. Target[d] \in Instances /\ cache \in [Instances -> Entry]
      BY ConstantsAssumption DEF IInv, TypeOK
    <3>2. CASE cache' = cache
      BY <2>1, <3>2
    <3>3. CASE cache' = [cache EXCEPT ![Target[d]] =
                           [cfg |-> None, err |-> FALSE, done |-> cache[Target[d]].done]]
      <4>1. \A i \in Instances : cache'[i].cfg = None \/ cache'[i] = cache[i]
        BY <3>1, <3>3, SMTT(30)
      <4> QED
        BY <2>0, <4>1
    <3> QED
      BY <2>4, <3>2, <3>3 DEF InvalidateWrite
  <2>5. ASSUME NEW o \in Refreshes, RefreshLock(o) \/ RefreshStep(o) \/ TimerFire(o)
        PROVE  Advances
    BY <2>1, <2>2, <2>5, Zenon DEF RefreshStep, RefreshLock, RefreshLocal, RefreshRemote,
       RefreshSchedule, RefreshClose, TimerFire, cacheVars
  <2>6. ASSUME NEW c \in Callers, CfgStep(c)
        PROVE  Advances
    BY <2>1, <2>3, <2>6, Zenon DEF CfgStep, CfgRead, CfgCheck, CfgReuse, CfgWait, CfgReread, cacheVars
  <2>7. ASSUME NEW d \in Dialers, DialStep(d)
        PROVE  Advances
    BY <2>1, <2>4, <2>7, Zenon DEF DialStep, Begin, CfgCancel, DialEnd, DialTCP, HandshakeOk,
       HandshakeFail, InvalidateRead, cacheVars
  <2> QED
    BY <2>1, <2>5, <2>6, <2>7 DEF Next, Tick, cacheVars
<1> QED
  BY <1>1, Invariance, PTL DEF Spec, CfgOnlyAdvances

-----------------------------------------------------------------------------
(* Under IInv every step of the cache is a step of the register of         *)
(* ConfigRegister, or leaves it as it is.                                  *)

\* What an entry says of its instance's register, pointwise.
LEMMA BarsOf ==
  ASSUME NEW i \in Instances
  PROVE  /\ valBar[i] = cache[i].cfg /\ valBar'[i] = cache'[i].cfg
         /\ phaseBar[i] = PhaseOf(cache[i].done)
         /\ phaseBar'[i] = PhaseOf(cache[i].done)'
BY DEF valBar, phaseBar

\* The dialers' side of a step.
LEMMA HoldersFrom ==
  ASSUME ent' \in [Callers -> Entry],
         \A d \in Dialers : ent'[d].cfg \in {ent[d].cfg, None, cache[Target[d]].cfg}
  PROVE  Register!HoldersMove
<1>1. \A d \in Dialers : valBar[Target[d]] = cache[Target[d]].cfg
  BY ConstantsAssumption DEF valBar
<1>2. heldBar' \in [Dialers -> Refreshes \cup {None}]
  BY EntryParts DEF heldBar, Callers
<1>3. \A d \in Dialers : heldBar'[d] \in {heldBar[d], None, valBar[Target[d]]}
  BY <1>1 DEF heldBar
<1> QED
  BY <1>2, <1>3 DEF Register!HoldersMove, Register!Empty, None

\* Dialers only take what is in the cache.
LEMMA DialersHold ==
  ASSUME IInv, [Next]_vars
  PROVE  Register!HoldersMove
<1> DEFINE Kept(d) == ent'[d].cfg \in {ent[d].cfg, None, cache[Target[d]].cfg}
<1>1. ent' \in [Callers -> Entry]
  BY NextInv DEF IInv, TypeOK
<1>2. ASSUME NEW d \in Dialers PROVE Kept(d)
  <2>t. ent \in [Callers -> Entry] /\ d \in Callers /\ NoEntry.cfg = None /\ CtxError.cfg = None
    BY DEF IInv, TypeOK, Callers, NoEntry, CtxError
  <2>1. ASSUME NEW c \in Callers, NEW e, ent' = [ent EXCEPT ![c] = e],
               c = d => e.cfg \in {ent[d].cfg, None, cache[Target[d]].cfg}
        PROVE  Kept(d)
    BY <2>t, <2>1
  <2>2. ASSUME NEW c \in Callers, CfgStep(c) PROVE Kept(d)
    <3>i. c = d => InstanceOf(c) = Target[d]
      BY DEF InstanceOf
    <3>1. CASE CfgRead(c)
      BY <2>1, <3>1, <3>i DEF CfgRead
    <3>2. CASE CfgCheck(c)
      BY <2>1, <2>t, <3>2 DEF CfgCheck, ReturnOrWait, Return
    <3>3. CASE CfgStart(c)
      BY <2>1, <3>3, <3>i DEF CfgStart, ReturnOrWait, Return, EntryUnderLock
    <3>4. CASE CfgReuse(c)
      BY <2>1, <3>4, <3>i DEF CfgReuse, ReturnOrWait, Return, EntryUnderLock
    <3>5. CASE CfgWait(c)
      BY <3>5 DEF CfgWait
    <3>6. CASE CfgReread(c)
      BY <2>1, <3>6, <3>i DEF CfgReread, Return
    <3> QED BY <2>2, <3>1, <3>2, <3>3, <3>4, <3>5, <3>6 DEF CfgStep
  <2>3. ASSUME NEW c \in Dialers, DialStep(c) PROVE Kept(d)
    <3>t. c \in Callers
      BY DEF Callers
    <3>1. CASE CfgCancel(c)
      BY <2>1, <2>t, <3>t, <3>1 DEF CfgCancel, Return
    <3>2. CASE ent' = [ent EXCEPT ![c] = NoEntry] \/ UNCHANGED ent
      BY <2>1, <2>t, <3>t, <3>2
    <3> QED
      BY <2>3, <3>1, <3>2
         DEF DialStep, Begin, DialEnd, DialTCP, HandshakeOk, HandshakeFail, InvalidateRead, InvalidateWrite
  <2>4. ASSUME NEW o \in Refreshes, RefreshLock(o) \/ RefreshStep(o) \/ TimerFire(o) PROVE Kept(d)
    <3>1. o # d /\ o \in Callers
      BY DialersAreNotRefreshes DEF Callers
    <3>2. CASE RefreshStore(o)
      BY <2>1, <3>1, <3>2 DEF RefreshStore
    <3>3. CASE RefreshSchedule(o)
      BY <2>1, <3>1, <3>3 DEF RefreshSchedule
    <3>4. CASE UNCHANGED ent
      BY <3>4
    <3> QED
      BY <2>4, <3>2, <3>3, <3>4
         DEF RefreshLock, RefreshStep, RefreshLocal, RefreshRemote, RefreshClose, TimerFire, callVars
  <2>5. CASE Tick \/ UNCHANGED vars
    BY <2>5 DEF Tick, vars, callVars
  <2> QED BY <2>2, <2>3, <2>4, <2>5 DEF Next
<1> QED BY <1>1, <1>2, HoldersFrom

\* The channel in an entry belongs to a refresh that has begun.
LEMMA DoneIsUsed ==
  ASSUME IInv, NEW i \in Instances
  PROVE  LET p == cache[i].done
         IN p = None \/ (p \in Refreshes /\ p <= nref /\ refInst[p] = i)
<1>1. cache[i].done \in Refreshes \cup {None}
  BY EntryParts DEF IInv, TypeOK
<1>2. \A p \in Refreshes : refInst[p] = i => p <= nref
  BY RefreshIsPositive, NoneIsNoInstance DEF IInv, TypeOK, RefreshesInOrder
<1> QED
  BY <1>1, <1>2 DEF IInv, EntriesOwned

\* The registers depend on the entries, the phases of the refreshes in them and
\* the refreshes that have obtained a config.
LEMMA RegisterKept ==
  ASSUME IInv,
         \A i \in Instances : cache'[i].cfg = cache[i].cfg,
         \A i \in Instances : PhaseOf(cache[i].done)' = PhaseOf(cache[i].done),
         \A i \in Instances, o \in Refreshes :
           (refInst'[o] = i /\ Obtained(o)') <=> (refInst[o] = i /\ Obtained(o))
  PROVE  UNCHANGED Register!regVars
<1>1. valBar' = valBar
  BY DEF valBar
<1>2. usedBar' = usedBar
  BY DEF usedBar
<1>3. phaseBar' = phaseBar
  BY DEF phaseBar
<1> QED
  BY <1>1, <1>2, <1>3 DEF Register!regVars

\* A step of one refresh before it stores, or after that and before it closes
\* its channel, shows nothing.
LEMMA QuietRefresh ==
  ASSUME IInv, NEW o \in Refreshes, NEW l \in RefPcs,
         refPc' = [refPc EXCEPT ![o] = l],
         refPc[o] # "closed", l # "closed",
         l \in {"stored", "closing"} <=> refPc[o] \in {"stored", "closing"},
         UNCHANGED <<cache, refInst>>,
         \A p \in Refreshes : p # o \/ HasStored(o) => refErr'[p] = refErr[p]
  PROVE  UNCHANGED Register!regVars
<1> USE DEF IInv, TypeOK
<1>1. \A p \in Refreshes : (HasStored(p)' <=> HasStored(p)) /\ (IsClosed(p)' <=> IsClosed(p))
  BY DEF HasStored, IsClosed
<1>2. ASSUME NEW i \in Instances PROVE PhaseOf(cache[i].done)' = PhaseOf(cache[i].done)
  BY <1>1, DoneIsUsed DEF PhaseOf
<1>3. \A p \in Refreshes : Obtained(p)' <=> Obtained(p)
  BY <1>1 DEF Obtained
<1> QED
  BY <1>2, <1>3, RegisterKept

\* startRefresh, called by cachedCfg, begins a refresh of the register.
LEMMA StartRefines ==
  ASSUME IInv, NEW c \in Callers, CfgStart(c)
  PROVE  Register!Start(InstanceOf(c))
<1> DEFINE i == InstanceOf(c)
<1>0. PICK o \in Refreshes : o = nref + 1
  BY ConstantsAssumption DEF CfgStart, IInv, TypeOK, Refreshes
<1>1. i \in Instances /\ cache[i] \in Entry
  BY ActiveInstance DEF CfgStart
<1>2. /\ o # None /\ NeedsRefresh(cache[i])
      /\ refPc' = [refPc EXCEPT ![o] = "start"] /\ refInst' = [refInst EXCEPT ![o] = i]
      /\ cache' = [cache EXCEPT ![i] = [cfg |-> cache[i].cfg, err |-> cache[i].err, done |-> o]]
      /\ refErr' = refErr
  BY <1>0, RefreshIsPositive DEF CfgStart, EntryUnderLock
<1>3. refPc[o] = "unused" /\ nref \in Nat /\ ~(o <= nref)
  BY <1>0 DEF IInv, RefreshesInOrder, TypeOK
<1>4. /\ cache'[i].cfg = cache[i].cfg /\ cache'[i].done = o
      /\ \A j \in Instances : j # i => cache'[j] = cache[j]
  BY <1>1, <1>2 DEF IInv, TypeOK
<1>5. valBar' = valBar
  BY <1>4 DEF valBar
<1>6. usedBar' = usedBar
  <2>1. \A p \in Refreshes : p # o => refPc'[p] = refPc[p] /\ refInst'[p] = refInst[p]
    BY <1>2 DEF IInv, TypeOK
  <2>2. ~Obtained(o) /\ ~Obtained(o)'
    BY <1>2, <1>3 DEF Obtained, HasStored, IInv, TypeOK
  <2>3. \A p \in Refreshes : p # o => (Obtained(p)' <=> Obtained(p))
    BY <1>2, <2>1 DEF Obtained, HasStored
  <2> QED
    BY <2>1, <2>2, <2>3 DEF usedBar
<1>7. phaseBar[i] = "idle"
  BY <1>1, <1>2, BarsOf DEF NeedsRefresh, PhaseOf
<1>8. phaseBar'[i] = "fetching"
  BY <1>1, <1>2, <1>4, BarsOf DEF PhaseOf, IsClosed, HasStored, IInv, TypeOK
<1>9. ASSUME NEW j \in Instances, j # i PROVE phaseBar'[j] = phaseBar[j]
  <2>1. cache[j].done # o
    BY <1>2, <1>3, DoneIsUsed
  <2>2. cache[j].done = None \/ refPc'[cache[j].done] = refPc[cache[j].done]
    BY <1>2, <2>1, DoneIsUsed DEF IInv, TypeOK
  <2> QED
    BY <1>4, <1>9, <2>2, BarsOf DEF PhaseOf, IsClosed, HasStored
<1>10. phaseBar' = [phaseBar EXCEPT ![i] = "fetching"]
  BY <1>1, <1>8, <1>9, Zenon DEF phaseBar
<1> QED
  BY <1>1, <1>5, <1>6, <1>7, <1>10 DEF Register!Start, Register!Advance

\* A refresh that is under way is the one in the entry of its instance.
LEMMA InFlightEntry ==
  ASSUME IInv, NEW o \in Refreshes, InFlight(o)
  PROVE  refInst[o] \in Instances /\ cache[refInst[o]].done = o /\ o # None
BY RefreshIsPositive DEF IInv, TypeOK, InFlight, RefreshesInOrder, SingleFlight

\* A step of refresh o in the phases of the registers.
LEMMA PhaseMoves ==
  ASSUME IInv, NEW o \in Refreshes, NEW l \in RefPcs, InFlight(o),
         refPc' = [refPc EXCEPT ![o] = l],
         \A j \in Instances : cache'[j].done = cache[j].done
  PROVE  phaseBar' = [phaseBar EXCEPT ![refInst[o]] = PhaseOf(o)']
<1>1. \A j \in Instances : cache'[j].done = cache[j].done
  OBVIOUS
<1>2. ASSUME NEW j \in Instances, j # refInst[o] PROVE phaseBar'[j] = phaseBar[j]
  <2>1. cache[j].done # o
    BY <1>2, DoneIsUsed, InFlightEntry
  <2>2. cache[j].done = None \/ refPc'[cache[j].done] = refPc[cache[j].done]
    BY <2>1, DoneIsUsed DEF IInv, TypeOK
  <2> QED
    BY <1>1, <2>2, BarsOf DEF PhaseOf, IsClosed, HasStored
<1>3. phaseBar'[refInst[o]] = PhaseOf(o)'
  <2>1. refInst[o] \in Instances /\ cache'[refInst[o]].done = o
    BY <1>1, InFlightEntry, Zenon
  <2> QED
    BY <2>1, Zenon DEF phaseBar
<1> QED
  BY <1>2, <1>3, InFlightEntry, Zenon DEF phaseBar

\* startRefresh publishes its config, or fails and keeps or drops the old one.
LEMMA StoreRefines ==
  ASSUME IInv, NEW o \in Refreshes, RefreshStore(o)
  PROVE  Register!Publish(refInst[o]) \/ Register!Fail(refInst[o])
<1> DEFINE i == refInst[o]
<1>1. /\ refPc[o] = "fetched" /\ refPc' = [refPc EXCEPT ![o] = "stored"]
      /\ cache' = [cache EXCEPT ![i] = StoredEntry(o)]
      /\ UNCHANGED <<refInst, refErr>>
  BY DEF RefreshStore, RefGoto
<1>2. i \in Instances /\ cache[i].done = o /\ o # None /\ InFlight(o)
  BY <1>1, InFlightEntry DEF InFlight
<1>3. /\ cache'[i].done = o
      /\ cache'[i].cfg \in (IF refErr[o] THEN {cache[i].cfg, None} ELSE {o})
      /\ \A j \in Instances : j # i => cache'[j] = cache[j]
  BY <1>1, <1>2 DEF StoredEntry, IInv, TypeOK
<1>4. /\ phaseBar[i] = "fetching"
      /\ phaseBar' = [phaseBar EXCEPT ![i] = "stored"]
  <2>1. PhaseOf(o)' = "stored" /\ PhaseOf(o) = "fetching"
    BY <1>1, <1>2 DEF PhaseOf, IsClosed, HasStored, IInv, TypeOK
  <2>2. \A j \in Instances : cache'[j].done = cache[j].done
    BY <1>2, <1>3
  <2> QED
    BY <1>1, <1>2, <2>1, <2>2, PhaseMoves, BarsOf, Zenon DEF RefPcs
<1>5. /\ ~Obtained(o) /\ (Obtained(o)' <=> ~refErr[o])
      /\ \A p \in Refreshes : p # o => (Obtained(p)' <=> Obtained(p))
  BY <1>1 DEF Obtained, HasStored, IInv, TypeOK
<1>6. CASE refErr[o]
  <2>1. usedBar' = usedBar
    BY <1>1, <1>5, <1>6 DEF usedBar
  <2>2. valBar' \in {valBar, [valBar EXCEPT ![i] = None]}
    <3>1. CASE cache'[i].cfg = cache[i].cfg
      <4>1. valBar' = valBar
        BY <1>3, <3>1 DEF valBar
      <4> QED BY <4>1
    <3>2. CASE cache'[i].cfg = None
      <4>1. valBar' = [valBar EXCEPT ![i] = None]
        BY <1>2, <1>3, <3>2, Zenon DEF valBar
      <4> QED BY <4>1
    <3> QED BY <1>3, <1>6, <3>1, <3>2
  <2> QED
    BY <1>4, <2>1, <2>2 DEF Register!Fail, Register!Advance, Register!Empty, None
<1>7. CASE ~refErr[o]
  <2>1. usedBar' = [usedBar EXCEPT ![i] = @ \cup {o}]
    BY <1>1, <1>2, <1>5, <1>7, Zenon DEF usedBar
  <2>2. valBar' = [valBar EXCEPT ![i] = o]
    BY <1>2, <1>3, <1>7, Zenon DEF valBar
  <2>3. ASSUME NEW u \in usedBar[i] PROVE o > u
    <3>1. u \in Refreshes /\ refInst[u] = i /\ u # o
      BY <1>2, <1>5 DEF usedBar
    <3>2. u <= nref
      BY <1>2, <3>1, RefreshIsPositive, NoneIsNoInstance DEF IInv, TypeOK, RefreshesInOrder
    <3>3. cache[i].done >= u
      BY <3>1, <3>2 DEF IInv, LatestInEntry
    <3> QED
      BY <1>2, <3>1, <3>3, RefreshIsPositive
  <2> QED
    BY <1>4, <2>1, <2>2, <2>3, Zenon DEF Register!Publish, Register!Advance
<1> QED BY <1>6, <1>7

\* The deferred close ends the refresh of the register.
LEMMA CloseRefines ==
  ASSUME IInv, NEW o \in Refreshes, RefreshClose(o)
  PROVE  Register!Finish(refInst[o])
<1> DEFINE i == refInst[o]
<1>1. /\ refPc[o] = "closing" /\ refPc' = [refPc EXCEPT ![o] = "closed"]
      /\ UNCHANGED <<cache, refInst, refErr>>
  BY DEF RefreshClose, RefGoto, cacheVars
<1>2. i \in Instances /\ cache[i].done = o /\ o # None /\ InFlight(o)
  BY <1>1, InFlightEntry DEF InFlight
<1>3. PhaseOf(o)' = "idle" /\ PhaseOf(o) = "stored"
  BY <1>1, <1>2 DEF PhaseOf, IsClosed, HasStored, IInv, TypeOK
<1>4. phaseBar[i] = "stored" /\ phaseBar' = [phaseBar EXCEPT ![i] = "idle"]
  BY <1>1, <1>2, <1>3, PhaseMoves, BarsOf, Zenon DEF RefPcs
<1>5. \A p \in Refreshes : Obtained(p)' <=> Obtained(p)
  BY <1>1 DEF Obtained, HasStored, IInv, TypeOK
<1>6. valBar' = valBar /\ usedBar' = usedBar
  BY <1>1, <1>5 DEF valBar, usedBar
<1> QED
  BY <1>4, <1>6 DEF Register!Finish, Register!Advance

\* invalidateCfg throws out the version its dialer holds, or nothing.
LEMMA InvalidateRefines ==
  ASSUME IInv, NEW d \in Dialers, InvalidateWrite(d)
  PROVE  Register!Discard(Target[d]) \/ UNCHANGED Register!regVars
<1> DEFINE i == Target[d]
<1>1. i \in Instances /\ UNCHANGED <<refPc, refInst, refErr>>
  BY ConstantsAssumption DEF InvalidateWrite, refVars
<1>2. \A p \in Refreshes : Obtained(p)' <=> Obtained(p)
  BY <1>1 DEF Obtained, HasStored
<1>3. usedBar' = usedBar
  BY <1>1, <1>2 DEF usedBar
<1>4. CASE SameCfg(d)
  <2>1. cache' = [cache EXCEPT ![i] = [cfg |-> None, err |-> FALSE, done |-> cache[i].done]]
    BY <1>4 DEF InvalidateWrite
  <2>2. valBar' = [valBar EXCEPT ![i] = None]
    BY <1>1, <2>1, Zenon DEF valBar, IInv, TypeOK
  <2>3. phaseBar' = phaseBar
    BY <1>1, <2>1 DEF phaseBar, PhaseOf, IsClosed, HasStored, IInv, TypeOK
  <2>4. heldBar[d] = valBar[i]
    BY <1>1, <1>4 DEF heldBar, valBar, SameCfg
  <2> QED
    BY <1>3, <2>2, <2>3, <2>4 DEF Register!Discard, Register!Empty, None
<1>5. CASE ~SameCfg(d)
  <2>1. cache' = cache
    BY <1>5 DEF InvalidateWrite
  <2>2. valBar' = valBar /\ phaseBar' = phaseBar
    BY <1>1, <2>1 DEF valBar, phaseBar, PhaseOf, IsClosed, HasStored
  <2> QED BY <1>3, <2>2 DEF Register!regVars
<1> QED BY <1>4, <1>5

\* A step that changes neither entries nor refreshes shows nothing.
LEMMA CallRefines ==
  ASSUME IInv, UNCHANGED <<cache, refPc, refInst, refErr>>
  PROVE  UNCHANGED Register!regVars
BY DEF Register!regVars, valBar, usedBar, phaseBar, PhaseOf, IsClosed, HasStored, Obtained

\* An empty cache is a register without a value.
LEMMA InitRefines == Init => Register!Init
<1> SUFFICES ASSUME Init PROVE Register!Init
  OBVIOUS
<1>1. valBar = [i \in Instances |-> 0] /\ heldBar = [d \in Dialers |-> 0]
  BY DEF Init, valBar, heldBar, NoEntry, None, Callers
<1>2. usedBar = [i \in Instances |-> {}]
  BY DEF Init, usedBar, Obtained, HasStored
<1>3. phaseBar = [i \in Instances |-> "idle"]
  BY DEF Init, phaseBar, PhaseOf, NoEntry, None
<1> QED
  BY <1>1, <1>2, <1>3 DEF Register!Init, Register!Empty

\* A step of the cache is one of the register or leaves it as it is.
LEMMA NextRefines == IInv /\ [Next]_vars => [Register!Next]_(Register!vars)
<1> SUFFICES ASSUME IInv, [Next]_vars PROVE Register!Next
  OBVIOUS
<1> DEFINE Shown == \/ \E i \in Instances : \/ Register!Start(i) \/ Register!Publish(i)
                                           \/ Register!Fail(i) \/ Register!Finish(i)
                                           \/ Register!Discard(i)
                    \/ UNCHANGED Register!regVars
<1>1. ASSUME NEW c \in Callers, CfgStep(c) PROVE Shown
  <2>1. CASE CfgStart(c)
    <3>1. InstanceOf(c) \in Instances
      BY <2>1, ActiveInstance DEF CfgStart
    <3> QED BY <2>1, <3>1, StartRefines
  <2>2. CASE ~CfgStart(c)
    BY <1>1, <2>2, CallRefines
       DEF CfgStep, CfgRead, CfgCheck, CfgReuse, CfgWait, CfgReread, cacheVars, refVars
  <2> QED BY <2>1, <2>2
<1>2. ASSUME NEW d \in Dialers, DialStep(d) PROVE Shown
  <2>1. CASE InvalidateWrite(d)
    <3>1. Target[d] \in Instances
      BY ConstantsAssumption
    <3> QED BY <2>1, <3>1, InvalidateRefines
  <2>2. CASE ~InvalidateWrite(d)
    BY <1>2, <2>2, CallRefines
       DEF DialStep, Begin, CfgCancel, DialEnd, DialTCP, HandshakeOk, HandshakeFail,
           InvalidateRead, cacheVars, refVars
  <2> QED BY <2>1, <2>2
<1>3. ASSUME NEW o \in Refreshes, RefreshStore(o) PROVE Shown
  <2>1. refInst[o] \in Instances
    BY <1>3, InFlightEntry DEF RefreshStore, RefGoto, InFlight
  <2> QED BY <1>3, <2>1, StoreRefines
<1>4. ASSUME NEW o \in Refreshes, RefreshClose(o) PROVE Shown
  <2>1. refInst[o] \in Instances
    BY <1>4, InFlightEntry DEF RefreshClose, RefGoto, InFlight
  <2> QED BY <1>4, <2>1, CloseRefines
<1>5. ASSUME NEW o \in Refreshes, RefreshLock(o) \/ RefreshLocal(o) \/ RefreshRemote(o) PROVE Shown
  <2>1. PICK l \in RefPcs : /\ refPc' = [refPc EXCEPT ![o] = l]
                            /\ l \in {"local", "remote", "fetched"}
    BY <1>5 DEF RefreshLock, RefreshLocal, RefreshRemote, RefGoto, RefPcs
  <2>2. refPc[o] \in {"start", "local", "remote"} /\ UNCHANGED <<cache, refInst>>
    BY <1>5 DEF RefreshLock, RefreshLocal, RefreshRemote, RefGoto, cacheVars
  <2>3. \A p \in Refreshes : p # o => refErr'[p] = refErr[p]
    BY <1>5 DEF RefreshLock, RefreshLocal, RefreshRemote, RefreshFailed, IInv, TypeOK
  <2> QED
    BY <2>1, <2>2, <2>3, QuietRefresh, Zenon DEF HasStored
<1>6. ASSUME NEW o \in Refreshes, RefreshSchedule(o) PROVE Shown
  <2>1. /\ refPc[o] = "stored" /\ refPc' = [refPc EXCEPT ![o] = "closing"]
        /\ UNCHANGED <<cache, refInst, refErr>>
    BY <1>6 DEF RefreshSchedule, RefGoto, cacheVars
  <2> QED
    BY <2>1, QuietRefresh, Zenon DEF RefPcs
<1>7. ASSUME NEW o \in Refreshes, TimerFire(o) PROVE Shown
  BY <1>7, CallRefines DEF TimerFire, cacheVars
<1>8. ASSUME Tick \/ UNCHANGED vars PROVE Shown
  BY <1>8, CallRefines DEF Tick, vars, cacheVars, refVars
<1>9. Shown
  BY <1>1, <1>2, <1>3, <1>4, <1>5, <1>6, <1>7, <1>8 DEF Next, RefreshStep
<1> QED
  BY <1>9, DialersHold DEF Register!Next

\* The cache implements the register: every critical section of cachedCfg,
\* startRefresh and invalidateCfg is a step of ConfigRegister or none.
THEOREM Refinement == Spec => RefinesRegister
BY InitRefines, NextRefines, Invariance, PTL DEF Spec, RefinesRegister, Register!Spec
==============================================================================

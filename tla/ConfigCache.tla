---------------------------- MODULE ConfigCache ----------------------------
(***************************************************************************)
(* The connection-configuration cache of proxy.Client                      *)
(* (src/proxy/proxy/client.go): cachedCfg, startRefresh, refreshCfg,       *)
(* refreshCertAfter, tryConnect and invalidateCfg, run by any number of    *)
(* goroutines.                                                             *)
(*                                                                         *)
(* Every critical section of cacheL is one action, because nothing inside  *)
(* one blocks.  Between critical sections a goroutine works on `ent`, its  *)
(* private copy of the cache entry, which other goroutines make stale.     *)
(*                                                                         *)
(* A call of startRefresh is named by a number, and so are the three       *)
(* things it creates: its `done` channel, the *tls.Config it builds and    *)
(* the refreshCertAfter goroutine it may leave behind.  Pointer equality   *)
(* on configs and channels is equality of these numbers.  An entry's addr  *)
(* and version are set and cleared together with its cfg and are not kept  *)
(* apart from it; lastRefreshed is only logged.                            *)
(***************************************************************************)
EXTENDS Integers, FiniteSets

CONSTANTS
  Instances,     \* instance connection names
  Dialers,       \* goroutines that call DialContext or InstanceVersionContext
  Target,        \* the instance each of them asks for
  Lifetimes,     \* how long a certificate issued by the API may be valid
  Throttle,      \* Client.RefreshCfgThrottle, in ticks
  Buffer,        \* Client.RefreshCfgBuffer, in ticks
  LateMargin,    \* the 5 seconds of the late reschedule, in ticks
  MaxTime,       \* bound: the clock stops here
  MaxRefreshes   \* bound: number of startRefresh calls; see RefreshQuota

ASSUME ConstantsAssumption ==
  /\ Target \in [Dialers -> Instances]
  /\ Lifetimes \subseteq Nat
  /\ Throttle \in Nat \ {0}
  /\ Buffer \in Nat
  /\ LateMargin \in Nat
  /\ MaxTime \in Nat
  /\ MaxRefreshes \in Nat

Refreshes == 1..MaxRefreshes

\* A Go nil: no config, no channel, no instance.
None == 0

ASSUME DialersAreNotRefreshes == Dialers \cap Refreshes = {}

ASSUME NoneIsNoInstance == None \notin Instances

\* The goroutines that call cachedCfg: dialers, and the refreshCertAfter
\* goroutine that refresh o leaves behind (also named o).
Callers == Dialers \cup Refreshes

Entry == [cfg : Refreshes \cup {None}, err : BOOLEAN, done : Refreshes \cup {None}]

\* The zero cacheEntry, which a map lookup returns for an absent key.
NoEntry == [cfg |-> None, err |-> FALSE, done |-> None]

\* Limiter value of an instance whose limiter still holds its first token.
FullToken == -1

VARIABLES
  now,        \* the clock
  cache,      \* Client.cfgCache
  limiter,    \* Client.limiters: when the last token was taken
  nref,       \* number of startRefresh calls so far
  refPc,      \* control point of the goroutine of each startRefresh
  refInst,    \* the instance it refreshes
  refErr,     \* whether its refreshCfg returned an error
  notAfter,   \* expiry of the certificate in the config it built
  refreshCfgL,\* holder of the mutex around the API calls
  wake,       \* deadline of the refreshCertAfter goroutine it left behind
  pc,         \* control point of each caller
  ent,        \* each goroutine's private copy `e` of a cache entry
  invalidated \* history: configs that invalidateCfg has thrown out

cacheVars == <<cache, limiter, invalidated>>
refVars   == <<nref, refPc, refInst, refErr, notAfter, refreshCfgL, wake>>
callVars  == <<pc, ent>>
vars == <<now, cacheVars, refVars, callVars>>

RefPcs == {"unused", "start", "local", "remote", "fetched", "stored", "closing", "closed"}
CfgPcs == {"read", "check", "lock", "wait", "reread"}
DialPcs == CfgPcs \cup {"idle", "returned", "handshake", "invalRead", "invalWrite"}
TimerPcs == CfgPcs \cup {"none", "sleep", "ended"}

\* Every variable has its type; a refreshCertAfter goroutine, which calls
\* cachedCfg like a dialer does, drops the result and never goes on to dial.
TypeOK ==
  /\ now \in 0..MaxTime
  /\ cache \in [Instances -> Entry]
  /\ limiter \in [Instances -> Nat \cup {FullToken}]
  /\ nref \in 0..MaxRefreshes
  /\ refPc \in [Refreshes -> RefPcs]
  /\ refInst \in [Refreshes -> Instances \cup {None}]
  /\ refErr \in [Refreshes -> BOOLEAN]
  /\ notAfter \in [Refreshes -> Nat]
  /\ refreshCfgL \in Refreshes \cup {None}
  /\ wake \in [Refreshes -> Int]
  /\ pc \in [Callers -> DialPcs \cup TimerPcs]
  /\ \A d \in Dialers : pc[d] \in DialPcs
  /\ \A o \in Refreshes : pc[o] \in TimerPcs
  /\ ent \in [Callers -> Entry]
  /\ invalidated \in SUBSET Refreshes

Init ==
  /\ now = 0
  /\ cache = [i \in Instances |-> NoEntry]
  /\ limiter = [i \in Instances |-> FullToken]
  /\ nref = 0
  /\ refPc = [o \in Refreshes |-> "unused"]
  /\ refInst = [o \in Refreshes |-> None]
  /\ refErr = [o \in Refreshes |-> FALSE]
  /\ notAfter = [o \in Refreshes |-> 0]
  /\ refreshCfgL = None
  /\ wake = [o \in Refreshes |-> 0]
  /\ pc = [c \in Callers |-> IF c \in Dialers THEN "idle" ELSE "none"]
  /\ ent = [c \in Callers |-> NoEntry]
  /\ invalidated = {}

-----------------------------------------------------------------------------
(* Predicates on entries.                                                  *)

InstanceOf(c) == IF c \in Dialers THEN Target[c] ELSE refInst[c]

IsValid(e) == ~e.err /\ e.cfg # None

IsExpired(cfg) == cfg = None \/ now > notAfter[cfg]

\* A receive on the done channel of refresh o does not block.  One on a nil
\* channel always does.
IsClosed(o) == o # None /\ refPc[o] = "closed"

ExpiresSoon(e) == e.cfg # None /\ notAfter[e.cfg] - now <= Buffer

\* Mutant: a pending refresh is not waited for but started again.
NeedsRefreshWhilePending(e) ==
  \/ e.done = None
  \/ ~IsValid(e)
  \/ ExpiresSoon(e)

NeedsRefresh(e) ==
  \/ e.done = None
  \/ (~IsValid(e) \/ ExpiresSoon(e)) /\ IsClosed(e.done)

\* Mutant: the limiter always has a token.
AllowAlways(i) == TRUE

\* Mutant: a limiter with no burst, which has no token when it is created.
AllowWithoutBurst(i) == limiter[i] # FullToken /\ now - limiter[i] >= Throttle

\* rate.Limiter.Allow for rate.NewLimiter(rate.Every(throttle), 1): the bucket
\* holds one token and a taken token is back after Throttle ticks.
Allow(i) == limiter[i] = FullToken \/ now - limiter[i] >= Throttle

-----------------------------------------------------------------------------
(* cachedCfg.                                                              *)

Goto(c, from, to) == pc[c] = from /\ pc' = [pc EXCEPT ![c] = to]

\* Mutant: a refreshCertAfter goroutine goes on as a dialer does.
ReturnToDial(c, e) ==
  /\ pc' = [pc EXCEPT ![c] = "returned"]
  /\ ent' = [ent EXCEPT ![c] = e]

\* A dialer keeps the result, a refreshCertAfter goroutine ends.
Return(c, e) ==
  /\ pc' = [pc EXCEPT ![c] = IF c \in Dialers THEN "returned" ELSE "ended"]
  /\ ent' = [ent EXCEPT ![c] = IF c \in Dialers THEN e ELSE NoEntry]

ReturnOrWait(c, e) ==
  \/ IsValid(e) /\ Return(c, e)
  \/ /\ ~IsValid(e)
     /\ pc' = [pc EXCEPT ![c] = "wait"]
     /\ ent' = [ent EXCEPT ![c] = e]

\* A connection arrives, or FUSE asks for the database version.
Begin(d) ==
  /\ Goto(d, "idle", "read")
  /\ UNCHANGED <<now, cacheVars, refVars, ent>>

\* The first critical section, under the read lock.
CfgRead(c) ==
  /\ Goto(c, "read", "check")
  /\ ent' = [ent EXCEPT ![c] = cache[InstanceOf(c)]]
  /\ UNCHANGED <<now, cacheVars, refVars>>

\* The unlocked check of the private copy.
CfgCheck(c) ==
  /\ pc[c] = "check"
  /\ \/ /\ NeedsRefresh(ent[c])
        /\ Goto(c, "check", "lock")
        /\ UNCHANGED ent
     \/ /\ ~NeedsRefresh(ent[c])
        /\ ReturnOrWait(c, ent[c])
  /\ UNCHANGED <<now, cacheVars, refVars>>

\* Mutant: the entry is not read again under the write lock.
EntryBeforeLock(c) == ent[c]

\* The entry as it is read again under the write lock.
EntryUnderLock(c) == cache[InstanceOf(c)]

\* The second critical section when it starts a refresh.
CfgStart(c) ==
  LET i == InstanceOf(c)
      o == nref + 1
      old == EntryUnderLock(c)
      e == [cfg |-> old.cfg, err |-> old.err, done |-> o]
  IN /\ pc[c] = "lock"
     /\ NeedsRefresh(old)
     /\ Allow(i)
     /\ nref < MaxRefreshes
     /\ nref' = o
     /\ refPc' = [refPc EXCEPT ![o] = "start"]
     /\ refInst' = [refInst EXCEPT ![o] = i]
     /\ limiter' = [limiter EXCEPT ![i] = now]
     /\ cache' = [cache EXCEPT ![i] = e]
     /\ ReturnOrWait(c, e)
     /\ UNCHANGED <<now, refErr, notAfter, refreshCfgL, wake, invalidated>>

\* The second critical section when another goroutine was faster or the
\* refresh is throttled: the entry found there is used.
CfgReuse(c) ==
  /\ pc[c] = "lock"
  /\ ~(NeedsRefresh(EntryUnderLock(c)) /\ Allow(InstanceOf(c)))
  /\ ReturnOrWait(c, EntryUnderLock(c))
  /\ UNCHANGED <<now, cacheVars, refVars>>

\* The wait ends because the done channel is closed.
CfgWait(c) ==
  /\ IsClosed(ent[c].done)
  /\ Goto(c, "wait", "reread")
  /\ UNCHANGED <<now, cacheVars, refVars, ent>>

\* What cachedCfg returns when its context is done.
CtxError == [cfg |-> None, err |-> TRUE, done |-> None]

\* The wait ends because the dialer's context is done.
CfgCancel(d) ==
  /\ pc[d] = "wait"
  /\ Return(d, CtxError)
  /\ UNCHANGED <<now, cacheVars, refVars>>

\* The third critical section, under the read lock.
CfgReread(c) ==
  /\ pc[c] = "reread"
  /\ Return(c, cache[InstanceOf(c)])
  /\ UNCHANGED <<now, cacheVars, refVars>>

-----------------------------------------------------------------------------
(* DialContext after cachedCfg, tryConnect and invalidateCfg.              *)

\* The dialer is done: cachedCfg returned an error, or it was called for
\* InstanceVersionContext, or the TCP dial failed.
DialEnd(d) ==
  /\ Goto(d, "returned", "idle")
  /\ ent' = [ent EXCEPT ![d] = NoEntry]
  /\ UNCHANGED <<now, cacheVars, refVars>>

DialTCP(d) ==
  /\ ~ent[d].err
  /\ Goto(d, "returned", "handshake")
  /\ UNCHANGED <<now, cacheVars, refVars, ent>>

\* A handshake with a nil tls.Config has no ServerName and cannot succeed.
HandshakeOk(d) ==
  /\ ent[d].cfg # None
  /\ Goto(d, "handshake", "idle")
  /\ ent' = [ent EXCEPT ![d] = NoEntry]
  /\ UNCHANGED <<now, cacheVars, refVars>>

HandshakeFail(d) ==
  /\ Goto(d, "handshake", "invalRead")
  /\ UNCHANGED <<now, cacheVars, refVars, ent>>

\* Mutant: the configs are not compared.
SameCfgAssumed(d) == TRUE

SameCfg(d) == cache[Target[d]].cfg = ent[d].cfg

\* invalidateCfg, first critical section: not our config any more, or go on.
InvalidateRead(d) ==
  /\ pc[d] = "invalRead"
  /\ \/ /\ cache[Target[d]].cfg # ent[d].cfg
        /\ pc' = [pc EXCEPT ![d] = "idle"]
        /\ ent' = [ent EXCEPT ![d] = NoEntry]
     \/ /\ cache[Target[d]].cfg = ent[d].cfg
        /\ pc' = [pc EXCEPT ![d] = "invalWrite"]
        /\ UNCHANGED ent
  /\ UNCHANGED <<now, cacheVars, refVars>>

\* invalidateCfg, second critical section: check again, then clear.
InvalidateWrite(d) ==
  /\ Goto(d, "invalWrite", "idle")
  /\ ent' = [ent EXCEPT ![d] = NoEntry]
  /\ \/ /\ SameCfg(d)
        /\ cache' = [cache EXCEPT ![Target[d]] = [cfg |-> None, err |-> FALSE, done |-> cache[Target[d]].done]]
        /\ invalidated' = invalidated \cup ({ent[d].cfg} \ {None})
     \/ /\ ~SameCfg(d)
        /\ UNCHANGED <<cache, invalidated>>
  /\ UNCHANGED <<now, limiter, refVars>>

-----------------------------------------------------------------------------
(* The goroutine of startRefresh, with refreshCfg inlined.                 *)

RefGoto(o, from, to) == refPc[o] = from /\ refPc' = [refPc EXCEPT ![o] = to]

RefreshLock(o) ==
  /\ RefGoto(o, "start", "local")
  /\ refreshCfgL = None
  /\ refreshCfgL' = o
  /\ UNCHANGED <<now, cacheVars, nref, refInst, refErr, notAfter, wake, callVars>>

\* An API call failed: refreshCfg unlocks and returns the error.
RefreshFailed(o) ==
  /\ refErr' = [refErr EXCEPT ![o] = TRUE]
  /\ refreshCfgL' = None
  /\ UNCHANGED notAfter

\* Certs.Local: a fresh client certificate, or an error.
RefreshLocal(o) ==
  /\ \/ /\ RefGoto(o, "local", "remote")
        /\ \E l \in Lifetimes : notAfter' = [notAfter EXCEPT ![o] = now + l]
        /\ UNCHANGED <<refErr, refreshCfgL>>
     \/ /\ RefGoto(o, "local", "fetched")
        /\ RefreshFailed(o)
  /\ UNCHANGED <<now, cacheVars, nref, refInst, wake, callVars>>

\* Certs.Remote: the server's address and certificate, or an error.
RefreshRemote(o) ==
  /\ RefGoto(o, "remote", "fetched")
  /\ \/ refreshCfgL' = None /\ UNCHANGED <<refErr, notAfter>>
     \/ RefreshFailed(o)
  /\ UNCHANGED <<now, cacheVars, nref, refInst, wake, callVars>>

\* Mutant: the old config is kept but the new error is not cleared.
StoredWithError(o) ==
  [cfg |-> IF refErr[o] THEN cache[refInst[o]].cfg ELSE o, err |-> refErr[o], done |-> o]

\* What refresh o stores: its own result, or the result found in the cache
\* if it failed and the config found there has not expired.
StoredEntry(o) ==
  LET old == cache[refInst[o]]
      fallback == refErr[o] /\ ~IsExpired(old.cfg)
  IN [cfg  |-> IF fallback THEN old.cfg ELSE IF refErr[o] THEN None ELSE o,
      err  |-> IF fallback THEN old.err ELSE refErr[o],
      done |-> o]

RefreshStore(o) ==
  /\ RefGoto(o, "fetched", "stored")
  /\ cache' = [cache EXCEPT ![refInst[o]] = StoredEntry(o)]
  /\ ent' = [ent EXCEPT ![o] = StoredEntry(o)]
  /\ UNCHANGED <<now, limiter, invalidated, nref, refInst, refErr, notAfter,
                 refreshCfgL, wake, pc>>

\* When the certificate of a valid entry is to be refreshed: Buffer before it
\* expires, or LateMargin before if that has passed already.
RefreshTime(e) ==
  IF ExpiresSoon(e) THEN notAfter[e.cfg] - LateMargin ELSE notAfter[e.cfg] - Buffer

\* A valid entry leaves a refreshCertAfter goroutine behind, another does not.
RefreshSchedule(o) ==
  /\ RefGoto(o, "stored", "closing")
  /\ \/ /\ IsValid(ent[o])
        /\ wake' = [wake EXCEPT ![o] = RefreshTime(ent[o])]
        /\ pc' = [pc EXCEPT ![o] = "sleep"]
     \/ /\ ~IsValid(ent[o])
        /\ UNCHANGED <<wake, pc>>
  /\ ent' = [ent EXCEPT ![o] = NoEntry]
  /\ UNCHANGED <<now, cacheVars, nref, refInst, refErr, notAfter, refreshCfgL>>

\* Mutant: the early return for an invalid entry leaves the channel open.
RefreshCloseScheduled(o) ==
  /\ RefGoto(o, "closing", "closed")
  /\ pc[o] # "none"
  /\ UNCHANGED <<now, cacheVars, nref, refInst, refErr, notAfter, refreshCfgL,
                 wake, callVars>>

\* The deferred close(done).
RefreshClose(o) ==
  /\ RefGoto(o, "closing", "closed")
  /\ UNCHANGED <<now, cacheVars, nref, refInst, refErr, notAfter, refreshCfgL,
                 wake, callVars>>

\* refreshCertAfter wakes up and calls cachedCfg.
TimerFire(o) ==
  /\ Goto(o, "sleep", "read")
  /\ now >= wake[o]
  /\ wake' = [wake EXCEPT ![o] = 0]
  /\ UNCHANGED <<now, cacheVars, nref, refPc, refInst, refErr, notAfter,
                 refreshCfgL, ent>>

-----------------------------------------------------------------------------
Tick ==
  /\ now < MaxTime
  /\ now' = now + 1
  /\ UNCHANGED <<cacheVars, refVars, callVars>>

\* The steps of a call of cachedCfg that are taken without outside help.
CfgStep(c) ==
  \/ CfgRead(c) \/ CfgCheck(c) \/ CfgStart(c) \/ CfgReuse(c)
  \/ CfgWait(c) \/ CfgReread(c)

DialStep(d) ==
  \/ Begin(d) \/ CfgCancel(d) \/ DialEnd(d) \/ DialTCP(d) \/ HandshakeOk(d)
  \/ HandshakeFail(d) \/ InvalidateRead(d) \/ InvalidateWrite(d)

\* The steps of a refresh that do not wait for the mutex.
RefreshStep(o) ==
  \/ RefreshLocal(o) \/ RefreshRemote(o) \/ RefreshStore(o)
  \/ RefreshSchedule(o) \/ RefreshClose(o)

Next ==
  \/ Tick
  \/ \E c \in Callers : CfgStep(c)
  \/ \E d \in Dialers : DialStep(d)
  \/ \E o \in Refreshes : RefreshLock(o) \/ RefreshStep(o) \/ TimerFire(o)

Spec == Init /\ [][Next]_vars

\* Goroutines run, API calls return, and a sync.Mutex starves nobody.
Fairness ==
  /\ \A c \in Callers : WF_vars(CfgStep(c))
  /\ \A o \in Refreshes : WF_vars(RefreshStep(o)) /\ SF_vars(RefreshLock(o))

FairSpec == Spec /\ Fairness

-----------------------------------------------------------------------------
(* Properties.                                                             *)

InFlight(o) == refPc[o] \notin {"unused", "closed"}

HasStored(o) == refPc[o] \in {"stored", "closing", "closed"}

\* Refresh o has put a config of its own into the cache.
Obtained(o) == HasStored(o) /\ ~refErr[o]

\* An unfinished refresh of an instance is the one in its cache entry, so an
\* instance never has two: needsRefresh, evaluated under the write lock of
\* cachedCfg, starts none while the entry's done channel is open, and neither
\* startRefresh nor invalidateCfg loses the channel of a pending one.
SingleFlight ==
  \A o \in Refreshes : InFlight(o) => cache[refInst[o]].done = o

\* A goroutine that waits in cachedCfg waits on a channel that exists: with a
\* throttled or lost first refresh e.done would be nil, and the receive in
\* its select would never return.
NoNilWait == \A c \in Callers : pc[c] = "wait" => ent[c].done # None

\* A cache entry never holds a config and an error at once, although
\* startRefresh mixes its own result with the one it finds in the cache:
\* otherwise every dial would fail next to a usable config.
CfgXorErr == \A i \in Instances : cache[i].cfg # None => ~cache[i].err

\* A config thrown out after a failed handshake never comes back: not from
\* the private copy of a goroutine between the critical sections of
\* cachedCfg, and not from the fallback of startRefresh.
NeverResurrected == \A i \in Instances : cache[i].cfg \notin invalidated

\* The config a refresh obtained stays in the cache until a newer one replaces
\* it, or it (or that newer one) expires or is thrown out: a failing refresh
\* keeps it, and a late invalidateCfg of an older config does not clear it.
ResultsNotLost ==
  \A o \in Refreshes :
    Obtained(o) =>
      \/ cache[refInst[o]].cfg >= o
      \/ \E p \in Refreshes :
           /\ p >= o /\ Obtained(p)
           /\ refInst[p] = refInst[o]
           /\ p \in invalidated \/ now > notAfter[p]

RefreshesOf(i) == {o \in Refreshes : refInst[o] = i}

\* However many connections fail and callers ask, no instance is refreshed
\* more often than the throttle of cachedCfg allows.
RefreshQuota ==
  \A i \in Instances :
    LET n == Cardinality(RefreshesOf(i))
    IN n > 0 => (n - 1) * Throttle <= now

\* A config in the cache is only ever replaced by a newer one or dropped: a
\* refresh that ends late, or a goroutine holding an old copy of the entry,
\* never brings an older config back over a newer one.
CfgOnlyAdvances ==
  [][\A i \in Instances : cache'[i].cfg = None \/ cache'[i].cfg >= cache[i].cfg]_vars

\* Every call of cachedCfg returns, whatever fails and whoever refreshes, even
\* if its context is never done.
CallsReturn ==
  \A c \in Callers : pc[c] = "read" ~> pc[c] \in {"returned", "ended"}

\* The comment in cachedCfg, "if the previous result was invalid, wait for the
\* next result to complete": a result without error has a config.
UsableResult ==
  \A d \in Dialers : pc[d] = "returned" /\ ~ent[d].err => ent[d].cfg # None

\* The comment on refreshCertAfter, "refreshes the epehemeral certificate of
\* the instance after timeToRefresh": when it finds under the write lock that
\* the certificate is due and nobody has refreshed it since, it may refresh.
TimerRefreshes ==
  \A o \in Refreshes :
    /\ pc[o] = "lock"
    /\ NeedsRefresh(cache[refInst[o]])
    /\ \A p \in Refreshes : refInst[p] = refInst[o] => p <= o
    => Allow(refInst[o])

-----------------------------------------------------------------------------
(* The inductive invariant behind the safety properties.                   *)

\* Refresh numbers are given out in order.
RefreshesInOrder ==
  \A o \in Refreshes :
    /\ o <= nref => refPc[o] # "unused" /\ refInst[o] \in Instances
    /\ o > nref => refPc[o] = "unused" /\ refInst[o] = None

\* An entry's channel and config belong to refreshes of that instance, and the
\* config was stored by a refresh that succeeded.
EntriesOwned ==
  \A i \in Instances :
    /\ cache[i].done # None => refInst[cache[i].done] = i
    /\ cache[i].cfg # None => refInst[cache[i].cfg] = i /\ Obtained(cache[i].cfg)

\* An entry's channel is the one of the instance's latest refresh.
LatestInEntry ==
  \A o \in Refreshes : o <= nref => cache[refInst[o]].done >= o

\* A refresh leaves its refreshCertAfter goroutine behind after it has stored.
TimersAfterStore ==
  \A o \in Refreshes : pc[o] # "none" => refPc[o] \in {"closing", "closed"}

\* A refresh was started for each instance whose limiter was used, and the
\* quota holds with the time the last token was taken.
LimiterInv ==
  \A i \in Instances :
    /\ limiter[i] = FullToken => RefreshesOf(i) = {}
    /\ limiter[i] # FullToken =>
         /\ cache[i].done # None
         /\ limiter[i] <= now
         /\ (Cardinality(RefreshesOf(i)) - 1) * Throttle <= limiter[i]

InvalidatedObtained == \A o \in invalidated : Obtained(o)

\* The conjunction is inductive: the structure of the refreshes and entries
\* that startRefresh, cachedCfg and invalidateCfg maintain together.
IInv ==
  /\ TypeOK
  /\ RefreshesInOrder
  /\ EntriesOwned
  /\ LatestInEntry
  /\ TimersAfterStore
  /\ LimiterInv
  /\ InvalidatedObtained
  /\ SingleFlight
  /\ NoNilWait
  /\ CfgXorErr
  /\ NeverResurrected
  /\ ResultsNotLost
=============================================================================

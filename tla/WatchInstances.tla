--------------------------- MODULE WatchInstances ---------------------------
(***************************************************************************)
(* The local sockets of the proxy without FUSE: WatchInstances,            *)
(* watchInstancesLoop and listenInstance                                   *)
(* (src/cmd/cloud_sql_proxy/proxy.go).                                     *)
(*                                                                         *)
(* A configuration is an instance and an address, which is the path of a   *)
(* Unix socket or a TCP port.  bound is the listener a client that         *)
(* connects to the address gets: the owner of the port, or of the socket   *)
(* file.  Opening a Unix socket removes the file at its path before, and   *)
(* closing one removes the file at its path, whoever made it.              *)
(***************************************************************************)
EXTENDS Naturals, Sequences

CONSTANTS
  Insts,         \* instance names
  Addrs,         \* socket paths and ports
  UnixAddrs,     \* the socket paths among them
  Static,        \* the configurations given at startup, a sequence
  Updates,       \* lists of configurations an update may parse to
  MaxUpdates,    \* bound: number of updates received
  MaxListeners   \* bound: number of listeners opened

Cfg == [inst : Insts, addr : Addrs]

Lists == {Static} \cup Updates

\* The configurations of a list, the instances it names, and those it names
\* more than once.  parseInstanceConfigs accepts any list.
Entries(list) == {list[n] : n \in DOMAIN list}
InstsOf(list) == {list[n].inst : n \in DOMAIN list}
Repeated(list) ==
  {i \in Insts : \E m, n \in DOMAIN list : m # n /\ list[m].inst = i /\ list[n].inst = i}

ASSUME WatchAssumption ==
  MaxUpdates \in Nat /\ MaxListeners \in Nat /\ Lists \subseteq Seq(Cfg)

None == 0

Listeners == 1..MaxListeners

VARIABLES
  loop,     \* control point of WatchInstances, then of watchInstancesLoop
  cfgs,     \* the configurations of the current list still to be handled
  latest,   \* the instances of the latest valid update
  static,   \* staticInstances: the listener of each instance, or None
  dynamic,  \* dynamicInstances
  still,    \* stillOpen
  updates,  \* number of updates received
  lMade,    \* number of listeners made
  lInst,    \* the instance of each listener
  lAddr,    \* its address
  lOpen,    \* whether it is open
  bound,    \* the listener that each address leads to, or None
  seen,     \* history: the configurations of the lists received so far
  twice,    \* history: the instances that one of these lists has more than once
  hurt,     \* history: instances whose last Listen or whose Accept has failed
  recent    \* history: those for which this happened since the latest update

lisVars == <<lMade, lInst, lAddr, lOpen, bound>>
hurtVars == <<hurt, recent>>
listsVars == <<seen, twice>>
watchVars == <<loop, cfgs, latest, static, dynamic, still, updates, lisVars, hurtVars, listsVars>>

NoListeners == [i \in Insts |-> None]

\* Every variable has its type.
WatchTypeOK ==
  /\ loop \in {"static", "wait", "open", "failed", "ended"}
  /\ cfgs \in Seq(Cfg)
  /\ latest \in SUBSET Insts
  /\ static \in [Insts -> 0..lMade]
  /\ dynamic \in [Insts -> 0..lMade]
  /\ still \in [Insts -> 0..lMade]
  /\ updates \in 0..MaxUpdates
  /\ lMade \in {0} \cup Listeners
  /\ lInst \in [Listeners -> Insts \cup {None}]
  /\ lAddr \in [Listeners -> Addrs \cup {None}]
  /\ lOpen \in [Listeners -> BOOLEAN]
  /\ bound \in [Addrs -> 0..lMade]
  /\ seen \in SUBSET Cfg
  /\ twice \in SUBSET Insts /\ hurt \in SUBSET Insts /\ recent \in SUBSET Insts

WatchInit ==
  /\ loop = "static"
  /\ cfgs = Static
  /\ latest = {}
  /\ static = NoListeners
  /\ dynamic = NoListeners
  /\ still = NoListeners
  /\ updates = 0
  /\ lMade = 0
  /\ lInst = [l \in Listeners |-> None]
  /\ lAddr = [l \in Listeners |-> None]
  /\ lOpen = [l \in Listeners |-> FALSE]
  /\ bound = [a \in Addrs |-> None]
  /\ seen = Entries(Static)
  /\ twice = Repeated(Static)
  /\ hurt = {}
  /\ recent = {}

-----------------------------------------------------------------------------
(* Sockets.                                                                *)

\* A path is made free by removing the file, a port must be free.
CanListen(cfg) == cfg.addr \in UnixAddrs \/ bound[cfg.addr] = None

\* listenInstance opens listener made + 1.
ListenInstance(cfg) ==
  LET l == lMade + 1
  IN /\ CanListen(cfg)
     /\ l \in Listeners
     /\ lMade' = l
     /\ lInst' = [lInst EXCEPT ![l] = cfg.inst]
     /\ lAddr' = [lAddr EXCEPT ![l] = cfg.addr]
     /\ lOpen' = [lOpen EXCEPT ![l] = TRUE]
     /\ bound' = [bound EXCEPT ![cfg.addr] = l]
     /\ hurt' = hurt \ {cfg.inst}
     /\ UNCHANGED recent

\* The machine has failed instance i.
Hurt(i) == hurt' = hurt \cup {i} /\ recent' = recent \cup {i}

\* listenInstance fails after it has removed the file at the path, because the
\* port is taken or for whatever reason of the machine.
ListenFails(cfg) ==
  /\ bound' = [bound EXCEPT ![cfg.addr] = IF cfg.addr \in UnixAddrs THEN None ELSE @]
  /\ IF CanListen(cfg) THEN Hurt(cfg.inst) ELSE UNCHANGED hurtVars
  /\ UNCHANGED <<lMade, lInst, lAddr, lOpen>>

\* Close of the listeners in ls that are open.
CloseListeners(ls) ==
  LET closing == {l \in ls \cap Listeners : lOpen[l]}
  IN /\ lOpen' = [l \in Listeners |-> lOpen[l] /\ l \notin ls]
     /\ bound' = [a \in Addrs |->
          IF \E l \in closing : lAddr[l] = a /\ (a \in UnixAddrs \/ bound[a] = l)
            THEN None ELSE bound[a]]
     /\ UNCHANGED <<lMade, lInst, lAddr>>

\* Accept fails for good; the accepting goroutine closes the listener and ends.
AcceptFails(l) ==
  /\ lOpen[l]
  /\ loop \notin {"failed", "ended"}
  /\ CloseListeners({l})
  /\ Hurt(lInst[l])
  /\ UNCHANGED <<loop, cfgs, latest, static, dynamic, still, updates, listsVars>>

-----------------------------------------------------------------------------
(* WatchInstances.                                                         *)

StaticOpen ==
  LET cfg == Head(cfgs)
  IN /\ loop = "static" /\ cfgs # <<>>
     /\ ListenInstance(cfg)
     /\ static' = [static EXCEPT ![cfg.inst] = lMade']
     /\ cfgs' = Tail(cfgs)
     /\ UNCHANGED <<loop, latest, dynamic, still, updates, listsVars>>

\* The error is returned, and main exits.
StaticFails ==
  /\ loop = "static" /\ cfgs # <<>>
  /\ ListenFails(Head(cfgs))
  /\ loop' = "failed"
  /\ UNCHANGED <<cfgs, latest, static, dynamic, still, updates, listsVars>>

StaticDone ==
  /\ loop = "static" /\ cfgs = <<>>
  /\ loop' = "wait"
  /\ UNCHANGED <<cfgs, latest, static, dynamic, still, updates, lisVars, hurtVars, listsVars>>

-----------------------------------------------------------------------------
(* watchInstancesLoop.                                                     *)

\* An update that parses.
Update(list) ==
  /\ loop = "wait" /\ updates < MaxUpdates
  /\ updates' = updates + 1
  /\ loop' = "open"
  /\ cfgs' = list
  /\ latest' = InstsOf(list)
  /\ still' = NoListeners
  /\ seen' = seen \cup Entries(list)
  /\ twice' = twice \cup Repeated(list)
  /\ recent' = {}
  /\ UNCHANGED <<static, dynamic, lisVars, hurt>>

\* An update that does not parse is skipped.
BadUpdate ==
  /\ loop = "wait" /\ updates < MaxUpdates
  /\ updates' = updates + 1
  /\ UNCHANGED <<loop, cfgs, latest, static, dynamic, still, lisVars, hurtVars, listsVars>>

\* Mutant: instances on the static list are not recognised.
NeverStatic(i) == FALSE

IsStatic(i) == static[i] # None

\* The first configuration of the rest of the list.
SkipStatic ==
  /\ loop = "open" /\ cfgs # <<>>
  /\ IsStatic(Head(cfgs).inst)
  /\ cfgs' = Tail(cfgs)
  /\ UNCHANGED <<loop, latest, static, dynamic, still, updates, lisVars, hurtVars, listsVars>>

\* Mutant: the instance stays in dynamicInstances too.
KeepOpenInBoth ==
  LET i == Head(cfgs).inst
  IN /\ loop = "open" /\ cfgs # <<>>
     /\ ~IsStatic(i) /\ dynamic[i] # None
     /\ still' = [still EXCEPT ![i] = dynamic[i]]
     /\ cfgs' = Tail(cfgs)
     /\ UNCHANGED <<loop, latest, static, dynamic, updates, lisVars, hurtVars, listsVars>>

KeepOpen ==
  LET i == Head(cfgs).inst
  IN /\ loop = "open" /\ cfgs # <<>>
     /\ ~IsStatic(i) /\ dynamic[i] # None
     /\ still' = [still EXCEPT ![i] = dynamic[i]]
     /\ dynamic' = [dynamic EXCEPT ![i] = None]
     /\ cfgs' = Tail(cfgs)
     /\ UNCHANGED <<loop, latest, static, updates, lisVars, hurtVars, listsVars>>

IsNew(i) == ~IsStatic(i) /\ dynamic[i] = None

OpenNew ==
  LET cfg == Head(cfgs)
  IN /\ loop = "open" /\ cfgs # <<>>
     /\ IsNew(cfg.inst)
     /\ ListenInstance(cfg)
     /\ still' = [still EXCEPT ![cfg.inst] = lMade']
     /\ cfgs' = Tail(cfgs)
     /\ UNCHANGED <<loop, latest, static, dynamic, updates, listsVars>>

\* The error is logged.
OpenFails ==
  LET cfg == Head(cfgs)
  IN /\ loop = "open" /\ cfgs # <<>>
     /\ IsNew(cfg.inst)
     /\ ListenFails(cfg)
     /\ cfgs' = Tail(cfgs)
     /\ UNCHANGED <<loop, latest, static, dynamic, still, updates, listsVars>>

\* Mutant: the listeners that are not in the update are forgotten, not closed.
ForgetRest ==
  /\ loop = "open" /\ cfgs = <<>>
  /\ loop' = "wait"
  /\ dynamic' = still
  /\ still' = NoListeners
  /\ UNCHANGED <<cfgs, latest, static, updates, lisVars, hurtVars, listsVars>>

\* What is left in dynamicInstances is closed, and stillOpen takes its place.
CloseRest ==
  /\ loop = "open" /\ cfgs = <<>>
  /\ CloseListeners({dynamic[i] : i \in Insts})
  /\ loop' = "wait"
  /\ dynamic' = still
  /\ still' = NoListeners
  /\ UNCHANGED <<cfgs, latest, static, updates, hurtVars, listsVars>>

\* The channel of updates is closed.
UpdatesEnd ==
  /\ loop = "wait"
  /\ CloseListeners({static[i] : i \in Insts} \cup {dynamic[i] : i \in Insts})
  /\ loop' = "ended"
  /\ UNCHANGED <<cfgs, latest, static, dynamic, still, updates, hurtVars, listsVars>>

LoopStep == SkipStatic \/ KeepOpen \/ OpenNew \/ OpenFails \/ CloseRest

WatchNext ==
  \/ StaticOpen \/ StaticFails \/ StaticDone
  \/ (\E list \in Updates : Update(list)) \/ BadUpdate \/ LoopStep \/ UpdatesEnd
  \/ \E l \in Listeners : AcceptFails(l)

WatchSpec == WatchInit /\ [][WatchNext]_watchVars

-----------------------------------------------------------------------------
(* Properties.                                                             *)

\* The instances with a socket that a client can connect to.
Served == {lInst[l] : l \in {m \in Listeners : lOpen[m] /\ bound[lAddr[m]] = m}}

StaticInsts == {i \in Insts : static[i] # None}

\* The comment on WatchInstances: "The set of sockets in 'dir' is the union of
\* 'instances' and the most recent list from 'updates'", once that list has been
\* worked off, unless the machine has failed an instance since it came.
SocketsAreUnion == loop = "wait" => Served \ recent = (StaticInsts \cup latest) \ recent

\* In all lists so far instance i has one address, and no other instance has it.
Own(i) == \A c, d \in seen : c.inst = i => (d.inst = i <=> d.addr = c.addr)

\* Whatever the lists say and the machine does to other instances, an instance
\* with an address of its own has its socket after every update that lists it,
\* and one given at startup also while an update is worked off.  A Listen or an
\* Accept that fails costs the socket until the instance is opened anew.
OwnIsServed ==
  /\ loop = "wait" => \A i \in (StaticInsts \cup latest) \ hurt : Own(i) => i \in Served
  /\ loop \in {"wait", "open"} =>
       \A i \in StaticInsts \ hurt :
         Own(i) => lOpen[static[i]] /\ bound[lAddr[static[i]]] = static[i]

\* No socket is left of an instance that is not listed any more, unless it was
\* listed twice.
NoStaleSockets == loop = "wait" => Served \subseteq StaticInsts \cup latest \cup twice

\* An update never interrupts the service of an instance it lists: the listener
\* that is closed at the end of an update, or lost from dynamicInstances, is of
\* an instance that is not listed.
KeepsListed ==
  [][loop = "open" /\ loop' = "wait" =>
       \A l \in Listeners : lOpen[l] /\ ~lOpen'[l] => lInst[l] \notin latest]_watchVars

\* No listener is orphaned: one that is open is in a map, so that a later update
\* or the end of the updates closes it.  The exception is an instance that one
\* list has twice, whose second listener takes the place of the first.
InAMap ==
  loop # "failed" =>
    \A l \in Listeners :
      lOpen[l] => \/ \E i \in Insts : l \in {static[i], dynamic[i], still[i]}
                  \/ lInst[l] \in twice /\ \E m \in l + 1..lMade : lInst[m] = lInst[l]

\* Updates do not grow the set of listeners: between updates an instance that no
\* list had twice has one open listener at most, however often it was dropped and
\* listed again.
OneEach ==
  loop = "wait" =>
    \A l, m \in Listeners :
      lOpen[l] /\ lOpen[m] /\ lInst[l] = lInst[m] => l = m \/ lInst[l] \in twice

\* After each update the sockets are those of the static instances and of the
\* latest list, as far as instances do not share an address.
SocketsAvailable == OwnIsServed /\ NoStaleSockets

\* Every open listener of watchInstancesLoop can still be closed, and between
\* updates an instance has one at most, as far as no list has an instance twice.
NoOrphans == InAMap /\ OneEach
=============================================================================

---------------------------- MODULE WatchProofs ----------------------------
(***************************************************************************)
(* WatchInv is an inductive invariant of WatchInstances, for any lists of  *)
(* configurations.  There is one lemma per step of the loop, on top of     *)
(* three about what opening a socket, failing to, and closing some do to   *)
(* the listeners.                                                          *)
(***************************************************************************)
EXTENDS WatchInstances, TLAPS

\* The listeners of instance i in the three maps.
Holder(i) == {static[i], dynamic[i], still[i]} \ {None}

\* An instance is in one map at most.
MapsInv ==
  \A i \in Insts : /\ static[i] # None => dynamic[i] = None /\ still[i] = None
                   /\ dynamic[i] # None => still[i] = None

\* A listener is made from a configuration, an address leads to an open listener
\* for it, and a port to all of them.
ListenersInv ==
  /\ \A l \in 1..lMade : [inst |-> lInst[l], addr |-> lAddr[l]] \in seen
  /\ \A l \in Listeners : lOpen[l] => l <= lMade
  /\ \A x \in Addrs : bound[x] # None => lOpen[bound[x]] /\ lAddr[bound[x]] = x
  /\ \A l \in Listeners : lOpen[l] /\ lAddr[l] \notin UnixAddrs => bound[lAddr[l]] = l

\* Another listener has taken the place of l, because its instance was listed
\* twice.  With one address this cannot happen to a port, which is taken.
Replaced(l) ==
  /\ lInst[l] \in twice /\ \E m \in 1..lMade : m > l /\ lInst[m] = lInst[l]
  /\ Own(lInst[l]) => lAddr[l] \in UnixAddrs

\* The maps have the open listeners, each for its instance, unless they were
\* replaced.  Those of the instances that have an address of their own, and for
\* which nothing has failed, are open and lead to their address.
HoldersInv ==
  /\ \A i \in Insts : \A l \in Holder(i) : lInst[l] = i
  /\ \A l \in Listeners : lOpen[l] => Replaced(l) \/ l \in Holder(lInst[l])
  /\ loop # "ended" =>
       \A i \in Insts \ hurt : Own(i) => \A l \in Holder(i) : lOpen[l] /\ bound[lAddr[l]] = l

\* The instances of the current list still to be handled.
Rest == {cfgs[n].inst : n \in DOMAIN cfgs}

\* How far the loop is: what has been handled is in the map it belongs to.
LoopInv ==
  /\ \A n \in DOMAIN cfgs : cfgs[n] \in seen
  /\ Repeated(cfgs) \subseteq twice
  /\ loop \in {"static", "failed"} => latest = {} /\ dynamic = NoListeners /\ still = NoListeners
  /\ loop = "static" => \A i \in Rest : static[i] = None \/ i \in twice
  /\ loop = "wait" => cfgs = <<>> /\ still = NoListeners
  /\ loop = "wait" => \A i \in Insts : dynamic[i] # None => i \in latest
  /\ loop = "open" => Rest \subseteq latest
  /\ loop = "open" => \A i \in Rest : still[i] = None \/ i \in twice
  /\ loop = "open" => \A i \in Insts : still[i] # None => i \in latest
  /\ loop = "open" => \A i \in latest : dynamic[i] # None => i \in Rest
  /\ loop \in {"wait", "open"} => \A i \in latest \ (hurt \cup Rest) : Own(i) => Holder(i) # {}

\* The inductive invariant.
WatchInv == WatchTypeOK /\ MapsInv /\ ListenersInv /\ HoldersInv /\ LoopInv

\* What a configuration in one of the lists received is made of.
LEMMA SeenFacts ==
  ASSUME WatchTypeOK
  PROVE  \A c \in seen : c \in Cfg /\ c.inst \in Insts /\ c.addr \in Addrs
BY Zenon DEF WatchTypeOK, Cfg

\* More lists can only take an address away from an instance.
LEMMA OwnShrinks ==
  ASSUME seen \subseteq seen', NEW i, Own(i)'
  PROVE  Own(i)
BY Zenon DEF Own

\* The first configuration of the rest, and what stays of the rest after it.
LEMMA NextConfig ==
  ASSUME WatchTypeOK, LoopInv, cfgs # <<>>
  PROVE  /\ Head(cfgs) \in seen /\ Head(cfgs).inst \in Rest
         /\ cfgs' = Tail(cfgs) /\ UNCHANGED listsVars =>
              /\ cfgs' \in Seq(Cfg)
              /\ \A n \in DOMAIN cfgs' : cfgs'[n] \in seen'
              /\ Repeated(cfgs)' \subseteq twice'
              /\ Rest' \subseteq Rest /\ Rest \ {Head(cfgs).inst} \subseteq Rest'
              /\ Head(cfgs).inst \in Rest' => Head(cfgs).inst \in twice
<1>1. cfgs \in Seq(Cfg) /\ Head(cfgs) = cfgs[1] /\ 1 \in DOMAIN cfgs
  BY DEF WatchTypeOK
<1>2. Head(cfgs) \in seen /\ Head(cfgs).inst \in Rest
  BY <1>1, Zenon DEF LoopInv, Rest
<1>3. ASSUME cfgs' = Tail(cfgs), UNCHANGED listsVars
      PROVE  /\ cfgs' \in Seq(Cfg)
             /\ \A n \in DOMAIN cfgs' : cfgs'[n] \in seen'
             /\ Repeated(cfgs)' \subseteq twice'
             /\ Rest' \subseteq Rest /\ Rest \ {Head(cfgs).inst} \subseteq Rest'
             /\ Head(cfgs).inst \in Rest' => Head(cfgs).inst \in twice
  <2>0. seen' = seen /\ twice' = twice
    BY <1>3, Zenon DEF listsVars
  <2>1. /\ cfgs' \in Seq(Cfg)
        /\ DOMAIN cfgs = 1..Len(cfgs) /\ DOMAIN cfgs' = 1..Len(cfgs) - 1
        /\ \A n \in DOMAIN cfgs' : n + 1 \in DOMAIN cfgs /\ n + 1 # 1 /\ cfgs'[n] = cfgs[n + 1]
        /\ \A n \in DOMAIN cfgs \ {1} : n - 1 \in DOMAIN cfgs' /\ cfgs[n] = cfgs'[n - 1]
    BY <1>1, <1>3
  <2>2. \A n \in DOMAIN cfgs' : cfgs'[n] \in seen'
    BY <2>0, <2>1, Zenon DEF LoopInv
  <2>3. Repeated(cfgs)' \subseteq twice'
    <3>1. ASSUME NEW i \in Repeated(cfgs)' PROVE i \in Repeated(cfgs)
      <4>1. PICK m, n \in DOMAIN cfgs' : m # n /\ cfgs'[m].inst = i /\ cfgs'[n].inst = i
        BY <3>1, Zenon DEF Repeated
      <4>2. /\ m + 1 \in DOMAIN cfgs /\ n + 1 \in DOMAIN cfgs /\ m + 1 # n + 1
            /\ cfgs[m + 1].inst = i /\ cfgs[n + 1].inst = i
        BY <2>1, <4>1
      <4>3. i \in Insts
        BY <3>1, Zenon DEF Repeated
      <4> QED BY <4>2, <4>3, Zenon DEF Repeated
    <3> QED BY <2>0, <3>1, Zenon DEF LoopInv
  <2>4. Rest' \subseteq Rest
    BY <2>1 DEF Rest
  <2>5. Rest \ {Head(cfgs).inst} \subseteq Rest'
    BY <1>1, <2>1 DEF Rest
  <2>6. ASSUME Head(cfgs).inst \in Rest' PROVE Head(cfgs).inst \in twice
    <3>1. PICK n \in DOMAIN cfgs' : cfgs'[n].inst = Head(cfgs).inst
      BY <2>6, Zenon DEF Rest
    <3>2. n + 1 \in DOMAIN cfgs /\ n + 1 # 1 /\ cfgs[n + 1].inst = cfgs[1].inst
      BY <1>1, <2>1, <3>1, Zenon
    <3>3. cfgs[1].inst \in Insts
      BY <1>1, <1>2, SeenFacts, Zenon
    <3>4. cfgs[1].inst \in Repeated(cfgs)
      BY <1>1, <3>2, <3>3, Zenon DEF Repeated
    <3> QED BY <1>1, <3>4, Zenon DEF LoopInv
  <2> QED BY <2>1, <2>2, <2>3, <2>4, <2>5, <2>6, Zenon
<1> QED BY <1>2, <1>3, Zenon

\* WatchInstances starts with the static configurations.
LEMMA WatchInitInv == WatchInit => WatchInv
<1> SUFFICES ASSUME WatchInit PROVE WatchInv
  BY Zenon
<1> USE DEF WatchInit, NoListeners, None
<1>1. Static \in Seq(Cfg)
  BY WatchAssumption, Zenon DEF Lists
<1>2. seen \subseteq Cfg /\ twice \subseteq Insts
  BY <1>1 DEF Entries, Repeated
<1>3. WatchTypeOK
  BY <1>1, <1>2, WatchAssumption DEF WatchTypeOK
<1>4. MapsInv
  BY Zenon DEF MapsInv
<1>5. ListenersInv
  BY DEF ListenersInv
<1>6. HoldersInv
  BY Zenon DEF HoldersInv, Holder
<1>7. LoopInv
  <2>1. \A n \in DOMAIN cfgs : cfgs[n] \in seen
    BY Zenon DEF Entries
  <2>2. Rest \subseteq Insts
    BY <1>3, <2>1, SeenFacts, Zenon DEF Rest
  <2> QED BY <2>1, <2>2, Zenon DEF LoopInv
<1> QED BY <1>3, <1>4, <1>5, <1>6, <1>7, Zenon DEF WatchInv

\* The types of what listenInstance and Close change.
SocketsTyped ==
  /\ lMade \in {0} \cup Listeners
  /\ lInst \in [Listeners -> Insts \cup {None}]
  /\ lAddr \in [Listeners -> Addrs \cup {None}]
  /\ lOpen \in [Listeners -> BOOLEAN]
  /\ bound \in [Addrs -> 0..lMade]
  /\ seen \in SUBSET Cfg
  /\ twice \in SUBSET Insts /\ hurt \in SUBSET Insts /\ recent \in SUBSET Insts

\* A listener for an instance with an address of its own is the one that has
\* this address.
LEMMA ListenerFacts ==
  ASSUME WatchTypeOK, ListenersInv
  PROVE  /\ 1..lMade \subseteq Listeners /\ lMade \in Nat
         /\ \A l \in 1..lMade : lInst[l] \in Insts /\ lAddr[l] \in Addrs
         /\ \A l \in 1..lMade : \A c \in seen :
              Own(c.inst) => (lInst[l] = c.inst <=> lAddr[l] = c.addr)
         /\ \A l, m \in 1..lMade : Own(lInst[l]) => (lInst[m] = lInst[l] <=> lAddr[m] = lAddr[l])
         /\ \A l \in 1..lMade : \A c \in seen :
              Own(lInst[l]) => (c.inst = lInst[l] <=> c.addr = lAddr[l])
         /\ \A l \in Listeners : lOpen[l] => l \in 1..lMade
<1>1. 1..lMade \subseteq Listeners /\ lMade \in Nat
  BY WatchAssumption DEF WatchTypeOK, Listeners
<1>2. ASSUME NEW l \in 1..lMade
      PROVE  \E d \in seen : d.inst = lInst[l] /\ d.addr = lAddr[l]
  <2> DEFINE d == [inst |-> lInst[l], addr |-> lAddr[l]]
  <2>1. d \in seen
    BY Zenon DEF ListenersInv
  <2>2. d.inst = lInst[l] /\ d.addr = lAddr[l]
    BY Zenon
  <2> QED BY <2>1, <2>2, Zenon
<1>3. ASSUME NEW l \in 1..lMade PROVE lInst[l] \in Insts /\ lAddr[l] \in Addrs
  BY <1>2, SeenFacts, Zenon
<1>4. ASSUME NEW l \in 1..lMade, NEW c \in seen, Own(c.inst)
      PROVE  lInst[l] = c.inst <=> lAddr[l] = c.addr
  BY <1>2, <1>4, Zenon DEF Own
<1>5. ASSUME NEW l \in 1..lMade, NEW c \in seen, Own(lInst[l])
      PROVE  c.inst = lInst[l] <=> c.addr = lAddr[l]
  BY <1>2, <1>5, Zenon DEF Own
<1>6. ASSUME NEW l \in 1..lMade, NEW m \in 1..lMade, Own(lInst[l])
      PROVE  lInst[m] = lInst[l] <=> lAddr[m] = lAddr[l]
  BY <1>2, <1>5, <1>6, Zenon
<1>7. ASSUME NEW l \in Listeners, lOpen[l] PROVE l \in 1..lMade
  BY <1>1, <1>7 DEF ListenersInv, Listeners
<1> QED BY <1>1, <1>3, <1>4, <1>5, <1>6, <1>7, Zenon

\* A listener is opened, which replaces one of its instance only if that is
\* listed twice.
LEMMA OpenKeeps ==
  ASSUME WatchTypeOK, ListenersInv, HoldersInv, NEW cfg \in seen, ListenInstance(cfg),
         UNCHANGED listsVars, loop \in {"static", "open"}, loop' = loop,
         Holder(cfg.inst) = {} \/ cfg.inst \in twice,
         Holder(cfg.inst)' = {lMade'}, \A i \in Insts \ {cfg.inst} : Holder(i)' = Holder(i)
  PROVE  SocketsTyped' /\ ListenersInv' /\ HoldersInv'
<1>0. seen' = seen /\ twice' = twice /\ \A i : Own(i)' <=> Own(i)
  BY Zenon DEF listsVars, Own
<1>1. cfg.inst \in Insts /\ cfg.addr \in Addrs /\ cfg \in Cfg
  BY SeenFacts, Zenon
<1>2. lMade \in Nat /\ lMade' = lMade + 1 /\ lMade' \in Listeners /\ lMade' \notin 1..lMade
  BY ListenerFacts DEF ListenInstance
<1>3. /\ lInst' \in [Listeners -> Insts \cup {None}]
      /\ lAddr' \in [Listeners -> Addrs \cup {None}]
      /\ lInst'[lMade'] = cfg.inst /\ lAddr'[lMade'] = cfg.addr
      /\ \A l \in Listeners \ {lMade'} : lInst'[l] = lInst[l] /\ lAddr'[l] = lAddr[l]
  BY <1>1, <1>2, Zenon DEF ListenInstance, WatchTypeOK
<1>4. /\ lOpen' \in [Listeners -> BOOLEAN]
      /\ lOpen'[lMade'] /\ \A l \in Listeners \ {lMade'} : lOpen'[l] = lOpen[l]
  BY <1>1, <1>2, Zenon DEF ListenInstance, WatchTypeOK
<1>5. /\ bound' \in [Addrs -> 0..lMade']
      /\ bound'[cfg.addr] = lMade' /\ \A x \in Addrs \ {cfg.addr} : bound'[x] = bound[x]
  BY <1>1, <1>2 DEF ListenInstance, WatchTypeOK
<1>6. hurt' = hurt \ {cfg.inst} /\ recent' = recent
  BY Zenon DEF ListenInstance
<1>7. SocketsTyped'
  BY <1>0, <1>2, <1>3, <1>4, <1>5, <1>6, Zenon DEF SocketsTyped, WatchTypeOK
<1>8. ASSUME NEW l \in Listeners, lOpen[l], lAddr[l] \notin UnixAddrs PROVE lAddr[l] # cfg.addr
  <2>1. bound[lAddr[l]] = l /\ l # None
    BY <1>8 DEF ListenersInv, Listeners, None
  <2> QED BY <1>8, <2>1, Zenon DEF ListenInstance, CanListen
<1>9. ListenersInv'
  <2>1. ASSUME NEW l \in 1..lMade' PROVE [inst |-> lInst'[l], addr |-> lAddr'[l]] \in seen'
    <3>1. CASE l \in 1..lMade
      BY <3>1, <1>0, <1>2, <1>3, ListenerFacts, Zenon DEF ListenersInv
    <3>2. CASE l = lMade'
      BY <3>2, <1>0, <1>1, <1>3, Zenon DEF Cfg
    <3> QED BY <3>1, <3>2, <1>2
  <2>2. ASSUME NEW l \in Listeners, lOpen'[l] PROVE l <= lMade'
    BY <2>2, <1>2, <1>4, ListenerFacts
  <2>3. ASSUME NEW x \in Addrs, bound'[x] # None PROVE lOpen'[bound'[x]] /\ lAddr'[bound'[x]] = x
    <3>1. CASE x = cfg.addr
      BY <3>1, <1>3, <1>4, <1>5, Zenon
    <3>2. CASE x # cfg.addr
      <4>1. bound'[x] = bound[x] /\ lOpen[bound[x]] /\ lAddr[bound[x]] = x /\ bound[x] \in 1..lMade
        BY <3>2, <2>3, <1>5 DEF ListenersInv, WatchTypeOK, None
      <4> QED BY <4>1, <1>2, <1>3, <1>4, ListenerFacts
    <3> QED BY <3>1, <3>2, Zenon
  <2>4. ASSUME NEW l \in Listeners, lOpen'[l], lAddr'[l] \notin UnixAddrs PROVE bound'[lAddr'[l]] = l
    <3>1. CASE l = lMade'
      BY <3>1, <1>3, <1>5, Zenon
    <3>2. CASE l # lMade'
      <4>1. lOpen[l] /\ lAddr'[l] = lAddr[l] /\ lAddr[l] # cfg.addr /\ bound[lAddr[l]] = l
        BY <2>4, <3>2, <1>3, <1>4, <1>8, Zenon DEF ListenersInv
      <4>2. lAddr[l] \in Addrs
        BY <4>1, ListenerFacts, Zenon
      <4> QED BY <4>1, <4>2, <1>5, Zenon
    <3> QED BY <3>1, <3>2, Zenon
  <2> QED BY <2>1, <2>2, <2>3, <2>4, Zenon DEF ListenersInv
<1>10. ASSUME NEW i \in Insts, NEW l \in Holder(i)
       PROVE  l \in 1..lMade /\ l \in Listeners \ {lMade'} /\ lInst[l] = i
  <2>1. l \in 1..lMade
    BY DEF Holder, WatchTypeOK, None
  <2> QED BY <2>1, <1>2, ListenerFacts, Zenon DEF HoldersInv
<1>11. ASSUME NEW i \in Insts, NEW l \in Holder(i)' PROVE lInst'[l] = i
  BY <1>10, <1>3
<1>12. ASSUME NEW l \in Listeners \ {lMade'}, lOpen'[l] PROVE Replaced(l)' \/ (l \in Holder(lInst[l]))'
  <2>1. lOpen[l] /\ lInst'[l] = lInst[l] /\ lAddr'[l] = lAddr[l] /\ l \in 1..lMade /\ lInst[l] \in Insts
    BY <1>3, <1>4, <1>12, ListenerFacts, Zenon
  <2>2. CASE Replaced(l)
    <3>1. PICK m \in 1..lMade : m > l /\ lInst[m] = lInst[l]
      BY <2>2, Zenon DEF Replaced
    <3>2. m \in 1..lMade' /\ lInst'[m] = lInst[m]
      BY <3>1, <1>2, <1>3, ListenerFacts
    <3> QED BY <1>0, <2>1, <2>2, <3>1, <3>2, Zenon DEF Replaced
  <2>3. CASE l \in Holder(lInst[l]) /\ lInst[l] # cfg.inst
    BY <2>1, <2>3, Zenon
  <2>4. CASE l \in Holder(lInst[l]) /\ lInst[l] = cfg.inst
    <3>1. lInst'[l] \in twice'
      BY <1>0, <2>1, <2>4, Zenon
    <3>2. lMade' \in 1..lMade' /\ lMade' > l /\ lInst'[lMade'] = lInst'[l]
      BY <1>2, <1>3, <2>1, <2>4
    <3>3. ASSUME Own(cfg.inst) PROVE lAddr[l] \in UnixAddrs
      BY <3>3, <1>8, <2>1, <2>4, ListenerFacts, Zenon
    <3> QED BY <1>0, <2>1, <2>4, <3>1, <3>2, <3>3, Zenon DEF Replaced
  <2> QED BY <2>1, <2>2, <2>3, <2>4, Zenon DEF HoldersInv
<1>13. ASSUME NEW i \in Insts \ hurt', Own(i)', NEW l \in Holder(i)'
       PROVE  lOpen'[l] /\ bound'[lAddr'[l]] = l
  <2>1. CASE i = cfg.inst
    BY <2>1, <1>3, <1>4, <1>5
  <2>2. CASE i # cfg.inst
    <3>1. i \in Insts \ hurt /\ l \in Holder(i) /\ Own(i)
      BY <2>2, <1>0, <1>6, <1>13, Zenon
    <3>2. lOpen[l] /\ bound[lAddr[l]] = l
      BY <3>1, Zenon DEF HoldersInv
    <3>3. l \in 1..lMade /\ l \in Listeners \ {lMade'} /\ lInst[l] = i
      BY <3>1, <1>10, Zenon
    <3>4. lAddr[l] \in Addrs \ {cfg.addr}
      BY <2>2, <3>1, <3>3, ListenerFacts, Zenon
    <3> QED BY <3>2, <3>3, <3>4, <1>3, <1>4, <1>5
  <2> QED BY <2>1, <2>2, Zenon
<1>14. HoldersInv'
  <2>1. (lMade \in Holder(lInst[lMade]))'
    BY <1>3, Zenon
  <2> QED BY <1>11, <1>12, <1>13, <2>1, Zenon DEF HoldersInv
<1> QED BY <1>7, <1>9, <1>14, Zenon

\* listenInstance fails.
LEMMA FailKeeps ==
  ASSUME WatchTypeOK, ListenersInv, HoldersInv, NEW cfg \in seen, ListenFails(cfg),
         UNCHANGED listsVars, loop \in {"static", "open"}, loop' # "ended",
         \A i \in Insts : Holder(i)' = Holder(i)
  PROVE  SocketsTyped' /\ ListenersInv' /\ HoldersInv'
<1>0. seen' = seen /\ twice' = twice /\ \A i : Own(i)' <=> Own(i)
  BY Zenon DEF listsVars, Own
<1>1. cfg.inst \in Insts /\ cfg.addr \in Addrs
  BY SeenFacts, Zenon
<1>2. UNCHANGED <<lMade, lInst, lAddr, lOpen>>
  BY Zenon DEF ListenFails
<1>3. /\ bound' \in [Addrs -> 0..lMade]
      /\ bound'[cfg.addr] \in {None, bound[cfg.addr]}
      /\ cfg.addr \notin UnixAddrs => bound'[cfg.addr] = bound[cfg.addr]
      /\ \A x \in Addrs \ {cfg.addr} : bound'[x] = bound[x]
  <2>1. lMade \in Nat
    BY ListenerFacts, Zenon
  <2> QED BY <1>1, <2>1 DEF ListenFails, WatchTypeOK, None
<1>4. /\ hurt \subseteq hurt' /\ hurt' \subseteq Insts /\ recent' \subseteq Insts
      /\ cfg.inst \in hurt' \/ cfg.addr \notin UnixAddrs
  <2>1. CASE CanListen(cfg)
    BY <2>1, <1>1, Zenon DEF ListenFails, Hurt, WatchTypeOK
  <2>2. CASE ~CanListen(cfg)
    BY <2>2, Zenon DEF ListenFails, hurtVars, CanListen, WatchTypeOK
  <2> QED BY <2>1, <2>2, Zenon
<1>5. SocketsTyped'
  BY <1>0, <1>1, <1>2, <1>3, <1>4, Zenon DEF SocketsTyped, WatchTypeOK
<1>6. ListenersInv'
  <2>1. ASSUME NEW l \in Listeners, lOpen[l], lAddr[l] \notin UnixAddrs PROVE bound'[lAddr[l]] = l
    <3>1. bound[lAddr[l]] = l /\ lAddr[l] \in Addrs
      BY <2>1, ListenerFacts, Zenon DEF ListenersInv
    <3> QED BY <1>3, <2>1, <3>1, Zenon
  <2>2. ASSUME NEW x \in Addrs, bound'[x] # None PROVE lOpen[bound'[x]] /\ lAddr[bound'[x]] = x
    BY <1>3, <2>2 DEF ListenersInv
  <2> QED BY <1>0, <1>2, <2>1, <2>2, Zenon DEF ListenersInv
<1>7. ASSUME NEW i \in Insts \ hurt', Own(i)', NEW l \in Holder(i)'
      PROVE  lOpen'[l] /\ bound'[lAddr'[l]] = l
  <2>1. i \in Insts \ hurt /\ l \in Holder(i) /\ Own(i)
    BY <1>0, <1>4, <1>7, Zenon
  <2>2. lOpen[l] /\ bound[lAddr[l]] = l /\ lInst[l] = i
    BY <2>1, Zenon DEF HoldersInv
  <2>3. l \in 1..lMade
    BY <2>1 DEF Holder, WatchTypeOK, None
  <2>4. lAddr[l] \in Addrs
    BY <2>3, ListenerFacts, Zenon
  <2>5. bound'[lAddr[l]] = bound[lAddr[l]]
    <3>1. CASE i = cfg.inst
      BY <3>1, <1>3, <1>4, <1>7, <2>4, Zenon
    <3>2. CASE i # cfg.inst
      BY <3>2, <1>3, <2>1, <2>2, <2>3, <2>4, ListenerFacts
    <3> QED BY <3>1, <3>2, Zenon
  <2> QED BY <1>2, <2>2, <2>5, Zenon
<1>8. ASSUME NEW l \in Listeners, lOpen[l] PROVE Replaced(l)' \/ l \in Holder(lInst[l])'
  <2>1. lInst[l] \in Insts
    BY <1>8, ListenerFacts, Zenon
  <2> QED BY <1>0, <1>2, <1>8, <2>1 DEF HoldersInv, Replaced
<1>9. HoldersInv'
  BY <1>2, <1>7, <1>8 DEF HoldersInv
<1> QED BY <1>5, <1>6, <1>9, Zenon

\* Listeners are closed that are in no map any more, or whose instance is hurt,
\* or at the end.
LEMMA CloseKeeps ==
  ASSUME WatchTypeOK, ListenersInv, HoldersInv, NEW ls, ls \subseteq 0..lMade,
         CloseListeners(ls), UNCHANGED listsVars, loop # "ended",
         hurt \subseteq hurt', hurt' \subseteq Insts, recent' \subseteq Insts,
         \A i \in Insts : Holder(i)' \subseteq Holder(i),
         \A i \in Insts : \A l \in Holder(i) \ Holder(i)' : l \in ls,
         loop' # "ended" =>
           \A i \in Insts \ hurt' :
             Holder(i)' # {} => \A m \in ls \cap Listeners : lOpen[m] => lInst[m] # i
  PROVE  SocketsTyped' /\ ListenersInv' /\ HoldersInv'
<1>0. seen' = seen /\ twice' = twice /\ \A i : Own(i)' <=> Own(i)
  BY Zenon DEF listsVars, Own
<1>1. UNCHANGED <<lMade, lInst, lAddr>>
  BY Zenon DEF CloseListeners
<1>2. /\ lOpen' \in [Listeners -> BOOLEAN]
      /\ \A l \in Listeners : lOpen'[l] <=> (lOpen[l] /\ l \notin ls)
  BY Zenon DEF CloseListeners, WatchTypeOK
<1>3. /\ bound' \in [Addrs -> 0..lMade]
      /\ \A x \in Addrs :
           \/ bound'[x] = None
           \/ /\ bound'[x] = bound[x]
              /\ \A l \in ls \cap Listeners : lOpen[l] /\ lAddr[l] = x => bound[x] # l
      /\ \A x \in Addrs : bound'[x] # bound[x] =>
           \E l \in ls \cap Listeners : lOpen[l] /\ lAddr[l] = x /\ (x \in UnixAddrs \/ bound[x] = l)
  <2>1. lMade \in Nat
    BY ListenerFacts, Zenon
  <2> QED BY <2>1 DEF CloseListeners, WatchTypeOK, None
<1>4. SocketsTyped'
  BY <1>0, <1>1, <1>2, <1>3, Zenon DEF SocketsTyped, WatchTypeOK
<1>5. ListenersInv'
  <2>1. ASSUME NEW x \in Addrs, bound'[x] # None PROVE lOpen'[bound'[x]] /\ lAddr'[bound'[x]] = x
    <3>1. bound'[x] = bound[x] /\ \A l \in ls \cap Listeners : lOpen[l] /\ lAddr[l] = x => bound[x] # l
      BY <2>1, <1>3, Zenon
    <3>2. lOpen[bound[x]] /\ lAddr[bound[x]] = x /\ bound[x] \in 1..lMade
      BY <2>1, <3>1 DEF ListenersInv, WatchTypeOK, None
    <3> QED BY <3>1, <3>2, <1>1, <1>2, ListenerFacts, Zenon
  <2>2. ASSUME NEW l \in Listeners, lOpen'[l], lAddr[l] \notin UnixAddrs PROVE bound'[lAddr[l]] = l
    <3>1. lOpen[l] /\ l \notin ls /\ bound[lAddr[l]] = l
      BY <1>2, <2>2, Zenon DEF ListenersInv
    <3>2. lAddr[l] \in Addrs
      BY <3>1, ListenerFacts, Zenon
    <3> QED BY <1>3, <2>2, <3>1, <3>2
  <2>3. \A l \in 1..lMade : [inst |-> lInst[l], addr |-> lAddr[l]] \in seen'
    BY <1>0, Zenon DEF ListenersInv
  <2>4. \A l \in Listeners : lOpen'[l] => l <= lMade
    BY <1>2, Zenon DEF ListenersInv
  <2> QED BY <1>1, <2>1, <2>2, <2>3, <2>4, Zenon DEF ListenersInv
<1>6. ASSUME NEW l \in Listeners, lOpen'[l] PROVE Replaced(l)' \/ (l \in Holder(lInst[l]))'
  <2>1. lOpen[l] /\ l \notin ls /\ lInst[l] \in Insts /\ lInst'[l] = lInst[l]
    BY <1>1, <1>2, <1>6, ListenerFacts, Zenon
  <2>2. CASE Replaced(l)
    BY <1>0, <1>1, <2>2, Zenon DEF Replaced
  <2>3. CASE l \in Holder(lInst[l])
    BY <2>1, <2>3, Zenon
  <2> QED BY <2>1, <2>2, <2>3, Zenon DEF HoldersInv
<1>7. ASSUME loop' # "ended", NEW i \in Insts \ hurt', Own(i)', NEW l \in Holder(i)'
      PROVE  lOpen'[l] /\ bound'[lAddr'[l]] = l
  <2>1. l \in Holder(i) /\ i \in Insts \ hurt /\ Own(i)
    BY <1>0, <1>7, Zenon
  <2>2. lOpen[l] /\ bound[lAddr[l]] = l /\ lInst[l] = i
    BY <2>1, Zenon DEF HoldersInv
  <2>3. l \in 1..lMade /\ l \in Listeners /\ lAddr[l] \in Addrs
    <3>1. l \in 1..lMade
      BY <2>1 DEF Holder, WatchTypeOK, None
    <3> QED BY <3>1, ListenerFacts, Zenon
  <2>4. ASSUME NEW m \in ls \cap Listeners, lOpen[m], lAddr[m] = lAddr[l] PROVE FALSE
    <3>1. lInst[m] = i
      BY <2>1, <2>2, <2>3, <2>4, ListenerFacts, Zenon
    <3> QED BY <3>1, <2>4, <1>7, Zenon
  <2>5. bound'[lAddr[l]] = bound[lAddr[l]] /\ l \notin ls
    BY <1>3, <2>2, <2>3, <2>4, Zenon
  <2> QED BY <1>1, <1>2, <2>2, <2>3, <2>5, Zenon
<1>8. ASSUME NEW i \in Insts, NEW l \in Holder(i)' PROVE lInst'[l] = i
  BY <1>1, Zenon DEF HoldersInv
<1>9. HoldersInv'
  BY <1>6, <1>7, <1>8, Zenon DEF HoldersInv
<1> QED BY <1>4, <1>5, <1>9, Zenon

\* A static instance gets its listener.
LEMMA StaticOpenStep ==
  ASSUME WatchInv, StaticOpen
  PROVE  WatchInv'
<1> USE DEF WatchInv, None
<1>1. PICK cfg \in seen : cfg = Head(cfgs) /\ cfg.inst \in Rest /\ cfg.inst \in Insts
  BY NextConfig, SeenFacts, Zenon DEF StaticOpen
<1>2. /\ loop = "static" /\ ListenInstance(cfg) /\ cfgs' = Tail(cfgs) /\ cfgs # <<>>
      /\ static' = [static EXCEPT ![cfg.inst] = lMade']
      /\ UNCHANGED <<loop, latest, dynamic, still, updates, listsVars>>
  BY <1>1, Zenon DEF StaticOpen
<1>3. /\ latest = {} /\ dynamic = NoListeners /\ still = NoListeners
      /\ \A i \in Rest : static[i] = None \/ i \in twice
  BY <1>2, Zenon DEF LoopInv
<1>4. /\ cfgs' \in Seq(Cfg) /\ \A n \in DOMAIN cfgs' : cfgs'[n] \in seen'
      /\ Repeated(cfgs)' \subseteq twice'
      /\ Rest' \subseteq Rest /\ (cfg.inst \in Rest' => cfg.inst \in twice) /\ twice' = twice
  BY <1>1, <1>2, NextConfig, Zenon DEF listsVars
<1>5. lMade' = lMade + 1 /\ lMade \in Nat
  BY <1>2, ListenerFacts, Zenon DEF ListenInstance
<1>6. /\ static'[cfg.inst] = lMade' /\ \A i \in Insts \ {cfg.inst} : static'[i] = static[i]
      /\ static' \in [Insts -> 0..lMade']
  BY <1>1, <1>2, <1>5 DEF WatchTypeOK
<1>7. Holder(cfg.inst)' = {lMade'} /\ (Holder(cfg.inst) = {} \/ cfg.inst \in twice)
  BY <1>1, <1>2, <1>3, <1>5, <1>6 DEF Holder, NoListeners
<1>8. \A i \in Insts \ {cfg.inst} : Holder(i)' = Holder(i)
  BY <1>2, <1>6, Zenon DEF Holder
<1>9. SocketsTyped' /\ ListenersInv' /\ HoldersInv'
  BY <1>2, <1>7, <1>8, OpenKeeps, Zenon
<1>10. WatchTypeOK'
  BY <1>2, <1>4, <1>5, <1>6, <1>9 DEF WatchTypeOK, SocketsTyped
<1>11. MapsInv'
  BY <1>2, <1>3, Zenon DEF MapsInv, NoListeners
<1>12. LoopInv'
  <2>1. Rest \subseteq Insts
    BY SeenFacts, Zenon DEF LoopInv, Rest
  <2>2. \A i \in Rest' : static'[i] = None \/ i \in twice'
    BY <1>3, <1>4, <1>6, <2>1, Zenon
  <2> QED BY <1>2, <1>3, <1>4, <2>2, Zenon DEF LoopInv
<1> QED BY <1>9, <1>10, <1>11, <1>12, Zenon

\* An instance that the update adds gets its listener.
LEMMA OpenNewStep ==
  ASSUME WatchInv, OpenNew
  PROVE  WatchInv'
<1> USE DEF WatchInv, None
<1>1. PICK cfg \in seen : cfg = Head(cfgs) /\ cfg.inst \in Rest /\ cfg.inst \in Insts
  BY NextConfig, SeenFacts, Zenon DEF OpenNew
<1>2. /\ loop = "open" /\ ListenInstance(cfg) /\ cfgs' = Tail(cfgs) /\ cfgs # <<>>
      /\ static[cfg.inst] = None /\ dynamic[cfg.inst] = None
      /\ still' = [still EXCEPT ![cfg.inst] = lMade']
      /\ UNCHANGED <<loop, latest, static, dynamic, updates, listsVars>>
  BY <1>1, Zenon DEF OpenNew, IsNew, IsStatic
<1>3. /\ Rest \subseteq latest /\ \A i \in Rest : still[i] = None \/ i \in twice
      /\ \A i \in Insts : still[i] # None => i \in latest
      /\ \A i \in latest : dynamic[i] # None => i \in Rest
      /\ \A i \in latest \ (hurt \cup Rest) : Own(i) => Holder(i) # {}
  BY <1>2, Zenon DEF LoopInv
<1>4. /\ cfgs' \in Seq(Cfg) /\ \A n \in DOMAIN cfgs' : cfgs'[n] \in seen'
      /\ Repeated(cfgs)' \subseteq twice'
      /\ Rest' \subseteq Rest /\ Rest \ {cfg.inst} \subseteq Rest'
      /\ (cfg.inst \in Rest' => cfg.inst \in twice) /\ twice' = twice /\ seen' = seen
  BY <1>1, <1>2, NextConfig, Zenon DEF listsVars
<1>5. lMade' = lMade + 1 /\ lMade \in Nat /\ hurt' = hurt \ {cfg.inst}
  BY <1>2, ListenerFacts, Zenon DEF ListenInstance
<1>6. /\ still'[cfg.inst] = lMade' /\ \A i \in Insts \ {cfg.inst} : still'[i] = still[i]
      /\ still' \in [Insts -> 0..lMade']
  BY <1>1, <1>2, <1>5 DEF WatchTypeOK
<1>7. Holder(cfg.inst)' = {lMade'} /\ (Holder(cfg.inst) = {} \/ cfg.inst \in twice)
  BY <1>1, <1>2, <1>3, <1>5, <1>6 DEF Holder
<1>8. \A i \in Insts \ {cfg.inst} : Holder(i)' = Holder(i)
  BY <1>2, <1>6, Zenon DEF Holder
<1>9. SocketsTyped' /\ ListenersInv' /\ HoldersInv'
  BY <1>2, <1>7, <1>8, OpenKeeps, Zenon
<1>10. WatchTypeOK'
  BY <1>2, <1>4, <1>5, <1>6, <1>9 DEF WatchTypeOK, SocketsTyped
<1>11. MapsInv'
  BY <1>2, <1>6, Zenon DEF MapsInv
<1>12. LoopInv'
  <2>1. latest \subseteq Insts
    BY Zenon DEF WatchTypeOK
  <2>2. ASSUME NEW i \in latest \ (hurt' \cup Rest'), Own(i)' PROVE Holder(i)' # {}
    <3>1. Own(i)
      BY <1>4, <2>2, Zenon DEF Own
    <3> QED BY <1>3, <1>4, <1>5, <1>7, <1>8, <2>1, <3>1, Zenon
  <2>3. \A i \in Rest' : still'[i] = None \/ i \in twice'
    BY <1>3, <1>4, <1>6, <2>1, Zenon
  <2>4. \A i \in Insts : still'[i] # None => i \in latest
    BY <1>1, <1>3, <1>6, Zenon
  <2>5. \A i \in latest : dynamic[i] # None => i \in Rest'
    BY <1>2, <1>3, <1>4, Zenon
  <2> QED BY <1>2, <1>3, <1>4, <2>2, <2>3, <2>4, <2>5, Zenon DEF LoopInv
<1> QED BY <1>9, <1>10, <1>11, <1>12

\* A port that is taken, for an instance with an address of its own, is taken by
\* the listener that this instance has.
LEMMA BusyIsHeld ==
  ASSUME WatchInv, NEW cfg \in seen, Own(cfg.inst), ~CanListen(cfg)
  PROVE  Holder(cfg.inst) # {}
<1> DEFINE m == bound[cfg.addr]
<1>1. cfg.addr \in Addrs /\ cfg.addr \notin UnixAddrs /\ m # None
  BY SeenFacts, Zenon DEF WatchInv, CanListen
<1>2. lOpen[m] /\ lAddr[m] = cfg.addr /\ m \in 1..lMade
  BY <1>1 DEF WatchInv, WatchTypeOK, ListenersInv, None
<1>3. lInst[m] = cfg.inst /\ m \in Listeners
  BY <1>2, ListenerFacts DEF WatchInv
<1>4. ~Replaced(m)
  BY <1>1, <1>2, <1>3, Zenon DEF Replaced
<1> QED BY <1>2, <1>3, <1>4, Zenon DEF WatchInv, HoldersInv

\* The listener of a static or of an added instance cannot be opened.
LEMMA FailStep ==
  ASSUME WatchInv, StaticFails \/ OpenFails
  PROVE  WatchInv'
<1> USE DEF WatchInv, None
<1>1. PICK cfg \in seen : cfg = Head(cfgs) /\ cfg.inst \in Rest /\ cfg.inst \in Insts
  BY NextConfig, SeenFacts, Zenon DEF StaticFails, OpenFails
<1>2. /\ ListenFails(cfg) /\ cfgs # <<>>
      /\ UNCHANGED <<latest, static, dynamic, still, updates, listsVars>>
      /\ \/ loop = "static" /\ loop' = "failed" /\ cfgs' = cfgs
         \/ /\ loop = "open" /\ loop' = "open" /\ cfgs' = Tail(cfgs)
            /\ static[cfg.inst] = None /\ dynamic[cfg.inst] = None
  BY <1>1, Zenon DEF StaticFails, OpenFails, IsNew, IsStatic
<1>3. lMade' = lMade /\ twice' = twice /\ seen' = seen
  BY <1>2, Zenon DEF ListenFails, listsVars
<1>4. \A i \in Insts : Holder(i)' = Holder(i)
  BY <1>2, Zenon DEF Holder
<1>5. SocketsTyped' /\ ListenersInv' /\ HoldersInv'
  BY <1>2, <1>4, FailKeeps, Zenon
<1>6. MapsInv'
  BY <1>2, Zenon DEF MapsInv
<1>7. CASE loop = "static"
  <2>1. WatchTypeOK'
    BY <1>2, <1>3, <1>5, <1>7, Zenon DEF WatchTypeOK, SocketsTyped
  <2>2. LoopInv'
    BY <1>2, <1>3, <1>7, Zenon DEF LoopInv, NoListeners, Repeated
  <2> QED BY <1>5, <1>6, <2>1, <2>2, Zenon
<1>8. CASE loop = "open"
  <2>1. /\ cfgs' \in Seq(Cfg) /\ \A n \in DOMAIN cfgs' : cfgs'[n] \in seen'
        /\ Repeated(cfgs)' \subseteq twice'
        /\ Rest' \subseteq Rest /\ Rest \ {cfg.inst} \subseteq Rest'
    BY <1>1, <1>2, <1>8, NextConfig, Zenon
  <2>2. WatchTypeOK'
    BY <1>2, <1>3, <1>5, <1>8, <2>1, Zenon DEF WatchTypeOK, SocketsTyped
  <2>3. \A i \in latest : dynamic[i] # None => i \in Rest'
    BY <1>2, <1>8, <2>1, Zenon DEF LoopInv
  <2>4. ASSUME NEW i \in latest \ (hurt' \cup Rest'), Own(i)' PROVE Holder(i)' # {}
    <3>1. i \in Insts /\ Own(i)
      BY <1>3, <2>4, Zenon DEF WatchTypeOK, Own
    <3>2. hurt \subseteq hurt' /\ (CanListen(cfg) => cfg.inst \in hurt')
      BY <1>2, Zenon DEF ListenFails, Hurt, hurtVars
    <3>3. CASE i = cfg.inst
      BY <1>4, <2>4, <3>1, <3>2, <3>3, BusyIsHeld, Zenon
    <3>4. CASE i # cfg.inst
      BY <1>4, <1>8, <2>1, <2>4, <3>1, <3>2, <3>4, Zenon DEF LoopInv
    <3> QED BY <3>3, <3>4, Zenon
  <2>5. LoopInv'
    BY <1>2, <1>3, <1>8, <2>1, <2>3, <2>4, Zenon DEF LoopInv
  <2> QED BY <1>5, <1>6, <2>2, <2>5
<1> QED BY <1>2, <1>7, <1>8, Zenon

\* Accept fails and listenInstance closes the listener.
LEMMA AcceptFailsStep ==
  ASSUME WatchInv, NEW l \in Listeners, AcceptFails(l)
  PROVE  WatchInv'
<1> USE DEF WatchInv
<1>1. /\ lOpen[l] /\ loop \notin {"failed", "ended"} /\ CloseListeners({l})
      /\ hurt' = hurt \cup {lInst[l]} /\ recent' = recent \cup {lInst[l]}
      /\ UNCHANGED <<loop, cfgs, latest, static, dynamic, still, updates, listsVars>>
  BY Zenon DEF AcceptFails, Hurt
<1>2. l \in 1..lMade /\ lInst[l] \in Insts
  BY <1>1, ListenerFacts, Zenon
<1>3. \A i \in Insts : Holder(i)' = Holder(i)
  BY <1>1, Zenon DEF Holder
<1>4. \A i \in Insts \ hurt' : \A m \in {l} \cap Listeners : lInst[m] # i
  BY <1>1, Zenon
<1>5. /\ {l} \subseteq 0..lMade /\ hurt \subseteq hurt' /\ hurt' \subseteq Insts
      /\ recent' \subseteq Insts
  BY <1>1, <1>2 DEF WatchTypeOK
<1>6. SocketsTyped' /\ ListenersInv' /\ HoldersInv'
  BY <1>1, <1>3, <1>4, <1>5, CloseKeeps, Zenon
<1>7. WatchTypeOK'
  <2>1. lMade' = lMade
    BY <1>1, Zenon DEF CloseListeners
  <2> QED BY <1>1, <1>6, <2>1, Zenon DEF WatchTypeOK, SocketsTyped
<1>8. MapsInv'
  BY <1>1, Zenon DEF MapsInv
<1>9. LoopInv'
  <2>1. /\ Rest' = Rest /\ Repeated(cfgs)' = Repeated(cfgs) /\ seen' = seen /\ twice' = twice
        /\ \A i : Own(i)' <=> Own(i)
    BY <1>1, Zenon DEF Rest, Repeated, listsVars, Own
  <2>2. latest \subseteq Insts
    BY Zenon DEF WatchTypeOK
  <2>3. loop \in {"wait", "open"} =>
          \A i \in latest \ (hurt' \cup Rest') : Own(i)' => Holder(i)' # {}
    BY <1>3, <1>5, <2>1, <2>2, Zenon DEF LoopInv
  <2> QED BY <1>1, <2>1, <2>3, Zenon DEF LoopInv, NoListeners
<1> QED BY <1>6, <1>7, <1>8, <1>9, Zenon

\* A step that leaves the sockets and the listeners of each instance alone.
LEMMA SameHolders ==
  ASSUME WatchInv, UNCHANGED <<lisVars, hurt>>, recent' \subseteq Insts,
         seen \subseteq seen', seen' \subseteq Cfg, twice \subseteq twice', twice' \subseteq Insts,
         loop # "ended" \/ loop' = loop, \A i \in Insts : Holder(i)' = Holder(i)
  PROVE  SocketsTyped' /\ ListenersInv' /\ HoldersInv'
<1>1. /\ lMade' = lMade /\ lInst' = lInst /\ lAddr' = lAddr /\ lOpen' = lOpen /\ bound' = bound
      /\ hurt' = hurt
  BY Zenon DEF lisVars
<1>2. SocketsTyped'
  BY <1>1, Zenon DEF WatchInv, WatchTypeOK, SocketsTyped
<1>3. ListenersInv'
  BY <1>1, Zenon DEF WatchInv, ListenersInv
<1>4. ASSUME NEW l \in Listeners, lOpen'[l] PROVE Replaced(l)' \/ (l \in Holder(lInst[l]))'
  <2>1. lInst[l] \in Insts /\ lInst'[l] = lInst[l] /\ lOpen[l]
    BY <1>1, <1>4, ListenerFacts, Zenon DEF WatchInv
  <2>2. CASE Replaced(l)
    BY <1>1, <2>2, OwnShrinks, Zenon DEF Replaced
  <2>3. CASE l \in Holder(lInst[l])
    BY <2>1, <2>3, Zenon
  <2> QED BY <2>1, <2>2, <2>3, Zenon DEF WatchInv, HoldersInv
<1>5. ASSUME loop' # "ended", NEW i \in Insts \ hurt', Own(i)', NEW l \in Holder(i)'
      PROVE  lOpen'[l] /\ bound'[lAddr'[l]] = l
  <2>1. Own(i)
    BY <1>5, OwnShrinks, Zenon
  <2> QED BY <1>1, <1>5, <2>1 DEF WatchInv, HoldersInv
<1>6. \A i \in Insts : \A l \in Holder(i)' : lInst'[l] = i
  BY <1>1 DEF WatchInv, HoldersInv
<1>7. HoldersInv'
  BY <1>4, <1>5, <1>6, Zenon DEF HoldersInv
<1> QED BY <1>2, <1>3, <1>7, Zenon

\* The next list arrives on updates.
LEMMA UpdateStep ==
  ASSUME WatchInv, NEW list \in Updates, Update(list)
  PROVE  WatchInv'
<1> USE DEF WatchInv, None
<1>1. /\ loop = "wait" /\ loop' = "open" /\ cfgs' = list /\ latest' = InstsOf(list)
      /\ still' = NoListeners /\ still = NoListeners
      /\ seen' = seen \cup Entries(list) /\ twice' = twice \cup Repeated(list) /\ recent' = {}
      /\ UNCHANGED <<static, dynamic, lisVars, hurt>>
  BY Zenon DEF Update, LoopInv
<1>2. list \in Seq(Cfg)
  BY WatchAssumption, Zenon DEF Lists
<1>3. /\ Entries(list) \subseteq Cfg /\ Repeated(list) \subseteq Insts /\ InstsOf(list) \subseteq Insts
      /\ \A n \in DOMAIN list : list[n] \in Entries(list)
  <2>1. \A n \in DOMAIN list : list[n] \in Cfg /\ list[n].inst \in Insts
    <3>1. list \in [1..Len(list) -> Cfg] /\ DOMAIN list = 1..Len(list)
      BY <1>2
    <3>2. \A n \in DOMAIN list : list[n] \in Cfg
      BY <3>1, Zenon
    <3>3. \A c \in Cfg : c.inst \in Insts
      BY Zenon DEF Cfg
    <3> QED BY <3>2, <3>3, Zenon
  <2>2. \A n \in DOMAIN list : list[n] \in Entries(list)
    BY Zenon DEF Entries
  <2>3. Entries(list) \subseteq Cfg
    BY <2>1, Zenon DEF Entries
  <2>4. InstsOf(list) \subseteq Insts
    BY <2>1, Zenon DEF InstsOf
  <2>5. Repeated(list) \subseteq Insts
    BY Zenon DEF Repeated
  <2> QED BY <2>2, <2>3, <2>4, <2>5, Zenon
<1>4. seen \subseteq seen' /\ seen' \subseteq Cfg /\ twice \subseteq twice' /\ twice' \subseteq Insts
  BY <1>1, <1>3, Zenon DEF WatchTypeOK
<1>5. \A i \in Insts : Holder(i)' = Holder(i)
  BY <1>1, Zenon DEF Holder
<1>6. SocketsTyped' /\ ListenersInv' /\ HoldersInv'
  BY <1>1, <1>4, <1>5, SameHolders, Zenon
<1>7. MapsInv'
  BY <1>1, Zenon DEF MapsInv, NoListeners
<1>8. lMade' = lMade /\ lMade \in Nat /\ still' \in [Insts -> 0..lMade] /\ updates' \in 0..MaxUpdates
  BY <1>1, ListenerFacts, WatchAssumption DEF lisVars, NoListeners, Update, WatchTypeOK
<1>9. WatchTypeOK'
  BY <1>1, <1>2, <1>3, <1>6, <1>8, Zenon DEF WatchTypeOK, SocketsTyped
<1>10. LoopInv'
  <2>1. Rest' = latest'
    BY <1>1, Zenon DEF Rest, InstsOf
  <2>2. Repeated(cfgs)' \subseteq twice'
    BY <1>1 DEF Repeated
  <2>3. \A n \in DOMAIN cfgs' : cfgs'[n] \in seen'
    BY <1>1, <1>3, Zenon
  <2> QED BY <1>1, <1>3, <2>1, <2>2, <2>3, Zenon DEF LoopInv, NoListeners
<1> QED BY <1>6, <1>7, <1>9, <1>10, Zenon

\* The static instances are open, or an update does not parse.
LEMMA IdleStep ==
  ASSUME WatchInv, StaticDone \/ BadUpdate
  PROVE  WatchInv'
<1> USE DEF WatchInv, None
<1>1. /\ UNCHANGED <<cfgs, latest, static, dynamic, still, lisVars, hurtVars, listsVars>>
      /\ \/ loop = "static" /\ loop' = "wait" /\ cfgs = <<>> /\ updates' = updates
         \/ loop = "wait" /\ loop' = "wait" /\ updates < MaxUpdates /\ updates' = updates + 1
  BY Zenon DEF StaticDone, BadUpdate
<1>2. hurt' = hurt /\ recent' = recent /\ seen' = seen /\ twice' = twice /\ lMade' = lMade
  BY <1>1, Zenon DEF hurtVars, listsVars, lisVars
<1>3. \A i \in Insts : Holder(i)' = Holder(i)
  BY <1>1, Zenon DEF Holder
<1>4. SocketsTyped' /\ ListenersInv' /\ HoldersInv'
  BY <1>1, <1>2, <1>3, SameHolders, Zenon DEF WatchTypeOK
<1>5. MapsInv'
  BY <1>1, Zenon DEF MapsInv
<1>6. updates' \in 0..MaxUpdates
  BY <1>1, WatchAssumption DEF WatchTypeOK
<1>7. WatchTypeOK'
  BY <1>1, <1>2, <1>4, <1>6, Zenon DEF WatchTypeOK, SocketsTyped
<1>8. LoopInv'
  <2>1. /\ Rest' = Rest /\ Repeated(cfgs)' = Repeated(cfgs) /\ latest \subseteq Insts
        /\ \A i : Own(i)' <=> Own(i)
    BY <1>1, <1>2, Zenon DEF Rest, Repeated, Own, WatchTypeOK
  <2>2. CASE loop = "static"
    BY <1>1, <1>2, <2>1, <2>2, Zenon DEF LoopInv, NoListeners
  <2>3. CASE loop = "wait"
    BY <1>1, <1>2, <1>3, <2>1, <2>3, Zenon DEF LoopInv
  <2> QED BY <1>1, <2>2, <2>3, Zenon
<1> QED BY <1>4, <1>5, <1>7, <1>8, Zenon

\* An instance of the list has a listener, which is kept.
LEMMA KeepStep ==
  ASSUME WatchInv, SkipStatic \/ KeepOpen
  PROVE  WatchInv'
<1> USE DEF WatchInv, None
<1>1. PICK h \in Insts : h = Head(cfgs).inst /\ h \in Rest /\ h \in latest
  BY NextConfig, SeenFacts, Zenon DEF SkipStatic, KeepOpen, LoopInv
<1>2. /\ loop = "open" /\ cfgs # <<>> /\ cfgs' = Tail(cfgs)
      /\ UNCHANGED <<loop, latest, static, updates, lisVars, hurtVars, listsVars>>
      /\ \/ static[h] # None /\ UNCHANGED <<dynamic, still>>
         \/ /\ static[h] = None /\ dynamic[h] # None
            /\ still' = [still EXCEPT ![h] = dynamic[h]]
            /\ dynamic' = [dynamic EXCEPT ![h] = None]
  BY <1>1, Zenon DEF SkipStatic, KeepOpen, IsStatic
<1>3. /\ cfgs' \in Seq(Cfg) /\ \A n \in DOMAIN cfgs' : cfgs'[n] \in seen'
      /\ Repeated(cfgs)' \subseteq twice'
      /\ Rest' \subseteq Rest /\ Rest \ {h} \subseteq Rest' /\ (h \in Rest' => h \in twice)
  BY <1>1, <1>2, NextConfig, Zenon
<1>4. /\ lMade' = lMade /\ hurt' = hurt /\ recent' = recent /\ seen' = seen /\ twice' = twice
      /\ lMade \in Nat /\ latest \subseteq Insts /\ \A i : Own(i)' <=> Own(i)
  BY <1>2, ListenerFacts, Zenon DEF lisVars, hurtVars, listsVars, WatchTypeOK, Own
<1>5. /\ dynamic' \in [Insts -> 0..lMade] /\ still' \in [Insts -> 0..lMade]
      /\ dynamic'[h] = None /\ (dynamic[h] # None => still[h] = None)
      /\ still'[h] \in {dynamic[h], still[h]} \ {None} \/ (static[h] # None /\ still'[h] = still[h])
      /\ dynamic[h] # None => still'[h] = dynamic[h]
      /\ \A i \in Insts \ {h} : dynamic'[i] = dynamic[i] /\ still'[i] = still[i]
  <2>1. CASE static[h] # None
    BY <1>2, <2>1, Zenon DEF MapsInv, WatchTypeOK
  <2>2. CASE static[h] = None
    <3>1. dynamic[h] # None /\ still' = [still EXCEPT ![h] = dynamic[h]]
          /\ dynamic' = [dynamic EXCEPT ![h] = None]
      BY <1>2, <2>2, Zenon
    <3> QED BY <1>4, <2>2, <3>1, Zenon DEF MapsInv, WatchTypeOK
  <2> QED BY <2>1, <2>2, Zenon
<1>6. \A i \in Insts : Holder(i)' = Holder(i)
  <2>1. Holder(h)' = Holder(h)
    <3>1. CASE static[h] # None
      BY <1>2, <3>1, Zenon DEF Holder
    <3>2. CASE static[h] = None
      BY <1>2, <1>5, <3>2, Zenon DEF Holder
    <3> QED BY <3>1, <3>2, Zenon
  <2> QED BY <1>2, <1>5, <2>1, Zenon DEF Holder
<1>7. Holder(h) # {}
  BY <1>2, Zenon DEF Holder
<1>8. SocketsTyped' /\ ListenersInv' /\ HoldersInv'
  BY <1>2, <1>4, <1>6, SameHolders, Zenon DEF WatchTypeOK
<1>9. WatchTypeOK'
  BY <1>2, <1>3, <1>4, <1>5, <1>8, Zenon DEF WatchTypeOK, SocketsTyped
<1>10. MapsInv'
  BY <1>2, <1>5, Zenon DEF MapsInv
<1>11. LoopInv'
  <2>1. ASSUME NEW i \in latest \ (hurt \cup Rest'), Own(i) PROVE Holder(i)' # {}
    BY <1>2, <1>3, <1>4, <1>6, <1>7, <2>1, Zenon DEF LoopInv
  <2>2. \A i \in Rest' : still'[i] = None \/ i \in twice
    BY <1>2, <1>3, <1>4, <1>5, Zenon DEF LoopInv
  <2>3. \A i \in Insts : still'[i] # None => i \in latest
    BY <1>1, <1>2, <1>5, Zenon DEF LoopInv
  <2>4. \A i \in latest : dynamic'[i] # None => i \in Rest'
    BY <1>2, <1>3, <1>4, <1>5, Zenon DEF LoopInv
  <2>5. Rest' \subseteq latest
    BY <1>2, <1>3, Zenon DEF LoopInv
  <2> QED BY <1>2, <1>3, <1>4, <2>1, <2>2, <2>3, <2>4, <2>5, Zenon DEF LoopInv
<1> QED BY <1>8, <1>9, <1>10, <1>11, Zenon

\* The listeners of the instances that are not listed any more are closed.
LEMMA CloseRestStep ==
  ASSUME WatchInv, CloseRest
  PROVE  WatchInv'
<1> USE DEF WatchInv, None
<1>1. PICK ls : ls = {dynamic[i] : i \in Insts} /\ CloseListeners(ls)
  BY Zenon DEF CloseRest
<1>2. /\ loop = "open" /\ cfgs = <<>> /\ loop' = "wait" /\ dynamic' = still /\ still' = NoListeners
      /\ UNCHANGED <<cfgs, latest, static, updates, hurtVars, listsVars>>
  BY Zenon DEF CloseRest
<1>3. /\ lMade' = lMade /\ lMade \in Nat /\ latest \subseteq Insts
      /\ hurt' = hurt /\ recent' = recent /\ hurt \subseteq Insts /\ recent \subseteq Insts
      /\ seen' = seen /\ twice' = twice /\ \A i : Own(i)' <=> Own(i)
  BY <1>1, <1>2, ListenerFacts, Zenon DEF CloseListeners, WatchTypeOK, hurtVars, listsVars, Own
<1>4. ASSUME NEW i \in Insts
      PROVE  /\ dynamic[i] # None => Holder(i) = {dynamic[i]} /\ Holder(i)' = {}
             /\ dynamic[i] = None => Holder(i)' = Holder(i)
  BY <1>2, Zenon DEF MapsInv, Holder, NoListeners
<1>5. ASSUME NEW i \in Insts, Holder(i)' # {}, NEW m \in ls \cap Listeners PROVE lInst[m] # i
  <2>1. dynamic[i] = None
    BY <1>4, <1>5, Zenon
  <2>2. PICK j \in Insts : m = dynamic[j]
    BY <1>1, Zenon
  <2>3. m # None
    BY DEF Listeners
  <2>4. lInst[m] = j /\ dynamic[j] # None
    BY <2>2, <2>3, Zenon DEF HoldersInv, Holder
  <2> QED BY <2>1, <2>4, Zenon
<1>6. /\ ls \subseteq 0..lMade
      /\ \A i \in Insts : Holder(i)' \subseteq Holder(i)
      /\ \A i \in Insts : \A l \in Holder(i) \ Holder(i)' : l \in ls
  <2>1. ls \subseteq 0..lMade
    BY <1>1 DEF WatchTypeOK
  <2>2. \A i \in Insts : dynamic[i] \in ls
    BY <1>1, Zenon
  <2> QED BY <1>4, <2>1, <2>2, Zenon
<1>7. SocketsTyped' /\ ListenersInv' /\ HoldersInv'
  BY <1>1, <1>2, <1>3, <1>5, <1>6, CloseKeeps, Zenon
<1>8. WatchTypeOK'
  BY <1>2, <1>3, <1>7 DEF WatchTypeOK, SocketsTyped, NoListeners
<1>9. MapsInv'
  BY <1>2, Zenon DEF MapsInv, NoListeners
<1>10. LoopInv'
  <2>1. Rest = {} /\ Rest' = {} /\ Repeated(cfgs)' = Repeated(cfgs)
    BY <1>2 DEF Rest, Repeated
  <2>2. \A i \in latest : dynamic[i] = None
    BY <1>2, <2>1, Zenon DEF LoopInv
  <2>3. ASSUME NEW i \in latest \ (hurt' \cup Rest'), Own(i)' PROVE Holder(i)' # {}
    BY <1>2, <1>3, <1>4, <2>1, <2>2, <2>3, Zenon DEF LoopInv
  <2> QED BY <1>2, <1>3, <2>1, <2>3, Zenon DEF LoopInv
<1> QED BY <1>7, <1>8, <1>9, <1>10, Zenon

\* updates is closed, and with it every listener.
LEMMA UpdatesEndStep ==
  ASSUME WatchInv, UpdatesEnd
  PROVE  WatchInv'
<1> USE DEF WatchInv, None
<1>1. PICK ls : /\ ls = {static[i] : i \in Insts} \cup {dynamic[i] : i \in Insts}
                /\ CloseListeners(ls)
  BY Zenon DEF UpdatesEnd
<1>2. /\ loop = "wait" /\ loop' = "ended"
      /\ UNCHANGED <<cfgs, latest, static, dynamic, still, updates, hurtVars, listsVars>>
  BY Zenon DEF UpdatesEnd
<1>3. \A i \in Insts : Holder(i)' = Holder(i)
  BY <1>2, Zenon DEF Holder
<1>4. /\ ls \subseteq 0..lMade /\ hurt' = hurt /\ recent' = recent
      /\ hurt \subseteq Insts /\ recent \subseteq Insts /\ seen' = seen /\ twice' = twice
  BY <1>1, <1>2 DEF WatchTypeOK, hurtVars, listsVars
<1>5. SocketsTyped' /\ ListenersInv' /\ HoldersInv'
  BY <1>1, <1>2, <1>3, <1>4, CloseKeeps, Zenon
<1>6. WatchTypeOK'
  <2>1. lMade' = lMade
    BY <1>1, Zenon DEF CloseListeners
  <2> QED BY <1>2, <1>5, <2>1, Zenon DEF WatchTypeOK, SocketsTyped
<1>7. MapsInv'
  BY <1>2, Zenon DEF MapsInv
<1>8. LoopInv'
  <2>1. cfgs' = cfgs /\ seen' = seen /\ twice' = twice /\ Repeated(cfgs)' = Repeated(cfgs)
    BY <1>2, <1>4, Zenon DEF Repeated
  <2>2. /\ \A n \in DOMAIN cfgs' : cfgs'[n] \in seen'
        /\ Repeated(cfgs)' \subseteq twice'
    BY <2>1, Zenon DEF LoopInv
  <2>3. loop' \notin {"static", "failed", "wait", "open"}
    BY <1>2, Zenon
  <2> QED BY <2>2, <2>3, Zenon DEF LoopInv
<1> QED BY <1>5, <1>6, <1>7, <1>8

\* Every step keeps the invariant.
LEMMA WatchNextInv == WatchInv /\ [WatchNext]_watchVars => WatchInv'
<1> SUFFICES ASSUME WatchInv, [WatchNext]_watchVars PROVE WatchInv'
  BY Zenon
<1>1. CASE UNCHANGED watchVars
  <2>1. /\ loop' = loop /\ cfgs' = cfgs /\ latest' = latest /\ updates' = updates
        /\ static' = static /\ dynamic' = dynamic /\ still' = still
        /\ UNCHANGED <<lisVars, hurt>> /\ recent' = recent /\ seen' = seen /\ twice' = twice
        /\ lMade' = lMade /\ hurt' = hurt
    BY <1>1, Zenon DEF watchVars, lisVars, hurtVars, listsVars
  <2>2. \A i \in Insts : Holder(i)' = Holder(i)
    BY <2>1, Zenon DEF Holder
  <2>3. SocketsTyped' /\ ListenersInv' /\ HoldersInv'
    BY <2>1, <2>2, SameHolders, Zenon DEF WatchInv, WatchTypeOK
  <2>4. WatchTypeOK'
    BY <2>1, <2>3, Zenon DEF WatchInv, WatchTypeOK, SocketsTyped
  <2>5. MapsInv'
    BY <2>1, Zenon DEF WatchInv, MapsInv
  <2>6. /\ Rest' = Rest /\ Repeated(cfgs)' = Repeated(cfgs) /\ latest \subseteq Insts
        /\ \A i : Own(i)' <=> Own(i)
    BY <2>1, Zenon DEF Rest, Repeated, Own, WatchInv, WatchTypeOK
  <2>7. LoopInv'
    BY <2>1, <2>2, <2>6, Zenon DEF WatchInv, LoopInv, NoListeners
  <2> QED BY <2>3, <2>4, <2>5, <2>7, Zenon DEF WatchInv
<1> QED
  BY <1>1, StaticOpenStep, OpenNewStep, FailStep, AcceptFailsStep, UpdateStep, IdleStep, KeepStep,
     CloseRestStep, UpdatesEndStep, Zenon DEF WatchNext, LoopStep

\* For any lists: after each update an instance with an address of its own that is
\* static or listed has its socket, a static one also during the update, unless its
\* own Listen or Accept has failed; and nobody else has one.
THEOREM SocketsAreAvailable == WatchSpec => []SocketsAvailable
<1>1. ASSUME WatchInv PROVE SocketsAvailable
  <2> USE <1>1 DEF WatchInv, None
  <2>1. ASSUME loop = "wait", NEW i \in Served PROVE i \in StaticInsts \cup latest \cup twice
    <3>1. PICK l \in Listeners : lOpen[l] /\ i = lInst[l]
      BY <2>1, Zenon DEF Served
    <3>2. i \in Insts /\ (i \in twice \/ l \in Holder(i))
      BY <3>1, ListenerFacts, Zenon DEF HoldersInv, Replaced
    <3> QED BY <2>1, <3>2, Zenon DEF LoopInv, Holder, StaticInsts, NoListeners
  <2>2. ASSUME loop \in {"wait", "open"}, NEW i \in Insts \ hurt, Own(i), NEW l \in Holder(i)
        PROVE  lOpen[l] /\ bound[lAddr[l]] = l /\ l \in Listeners /\ lInst[l] = i
    <3>1. l \in 1..lMade
      BY DEF Holder, WatchTypeOK
    <3> QED BY <2>2, <3>1, ListenerFacts, Zenon DEF HoldersInv
  <2>3. ASSUME loop = "wait", NEW i \in (StaticInsts \cup latest) \ hurt, Own(i) PROVE i \in Served
    <3>1. i \in Insts /\ Rest = {}
      BY <2>3 DEF StaticInsts, WatchTypeOK, LoopInv, Rest
    <3>2. PICK l : l \in Holder(i)
      BY <2>3, <3>1, Zenon DEF StaticInsts, Holder, LoopInv
    <3> QED BY <2>2, <2>3, <3>1, <3>2, Zenon DEF Served
  <2>4. ASSUME loop \in {"wait", "open"}, NEW i \in StaticInsts \ hurt, Own(i)
        PROVE  lOpen[static[i]] /\ bound[lAddr[static[i]]] = static[i]
    <3>1. i \in Insts /\ static[i] \in Holder(i)
      BY Zenon DEF StaticInsts, Holder
    <3> QED BY <2>2, <2>4, <3>1, Zenon
  <2>5. OwnIsServed
    BY <2>3, <2>4, Zenon DEF OwnIsServed
  <2>6. NoStaleSockets
    BY <2>1, Zenon DEF NoStaleSockets
  <2> QED BY <2>5, <2>6, Zenon DEF SocketsAvailable
<1> QED BY <1>1, WatchInitInv, WatchNextInv, PTL DEF WatchSpec

\* For any lists: no listener is lost from the maps, and between updates an
\* instance never has two, unless a list had the instance twice.
THEOREM NoListenerIsLost == WatchSpec => []NoOrphans
<1>1. ASSUME WatchInv PROVE NoOrphans
  <2> USE <1>1 DEF WatchInv, None
  <2>1. ASSUME NEW l \in Listeners, lOpen[l]
        PROVE  /\ l \in 1..lMade /\ lInst[l] \in Insts
               /\ Replaced(l) \/ l \in Holder(lInst[l])
    BY <2>1, ListenerFacts, Zenon DEF HoldersInv
  <2>2. InAMap
    <3>1. ASSUME NEW l \in Listeners, lOpen[l], Replaced(l)
          PROVE  lInst[l] \in twice /\ \E m \in l + 1..lMade : lInst[m] = lInst[l]
      <4>1. PICK m \in 1..lMade : m > l /\ lInst[m] = lInst[l]
        BY <3>1, Zenon DEF Replaced
      <4>2. m \in l + 1..lMade
        BY <2>1, <3>1, <4>1, ListenerFacts
      <4> QED BY <3>1, <4>1, <4>2, Zenon DEF Replaced
    <3>2. ASSUME NEW l \in Listeners, lOpen[l], l \in Holder(lInst[l])
          PROVE  \E i \in Insts : l \in {static[i], dynamic[i], still[i]}
      BY <2>1, <3>2, Zenon DEF Holder
    <3> QED BY <2>1, <3>1, <3>2, Zenon DEF InAMap
  <2>3. ASSUME NEW l \in Listeners, NEW m \in Listeners, lOpen[l], lOpen[m], lInst[l] = lInst[m],
               lInst[l] \notin twice
        PROVE  l = m
    <3>1. l \in Holder(lInst[l]) /\ m \in Holder(lInst[l]) /\ lInst[l] \in Insts
      BY <2>1, <2>3, Zenon DEF Replaced
    <3> QED BY <3>1, Zenon DEF Holder, MapsInv
  <2>4. OneEach
    BY <2>3, Zenon DEF OneEach
  <2> QED BY <2>2, <2>4 DEF NoOrphans
<1> QED BY <1>1, WatchInitInv, WatchNextInv, PTL DEF WatchSpec

\* An update closes no listener of an instance that it lists.
THEOREM ListedIsKept == WatchSpec => KeepsListed
<1>1. ASSUME WatchInv, [WatchNext]_watchVars, loop = "open", loop' = "wait",
             NEW l \in Listeners, lOpen[l], ~lOpen'[l]
      PROVE  lInst[l] \notin latest
  <2> USE <1>1 DEF WatchInv, None
  <2>1. CloseRest
    BY Zenon DEF WatchNext, LoopStep, StaticOpen, StaticFails, StaticDone, Update, BadUpdate,
           SkipStatic, KeepOpen, OpenNew, OpenFails, UpdatesEnd, AcceptFails, watchVars
  <2>2. cfgs = <<>> /\ lOpen' = [m \in Listeners |-> lOpen[m] /\ m \notin {dynamic[i] : i \in Insts}]
    BY <2>1, Zenon DEF CloseRest, CloseListeners
  <2>3. PICK i \in Insts : l = dynamic[i]
    <3>1. l \in {dynamic[i] : i \in Insts}
      BY <2>2, Zenon
    <3> QED BY <3>1, Zenon
  <2>4. l # None
    BY DEF Listeners
  <2>5. lInst[l] = i /\ dynamic[i] # None
    <3>1. l \in Holder(i)
      BY <2>3, <2>4, Zenon DEF Holder
    <3> QED BY <2>3, <2>4, <3>1, Zenon DEF HoldersInv
  <2>6. i \notin Rest
    <3>1. Rest = {}
      BY <2>2 DEF Rest
    <3> QED BY <3>1, Zenon
  <2> QED BY <2>5, <2>6, Zenon DEF LoopInv
<1>2. WatchInv /\ [WatchNext]_watchVars =>
        [loop = "open" /\ loop' = "wait" =>
           \A l \in Listeners : lOpen[l] /\ ~lOpen'[l] => lInst[l] \notin latest]_watchVars
  BY <1>1, Zenon
<1> QED BY <1>2, WatchInitInv, WatchNextInv, PTL DEF WatchSpec, KeepsListed
====

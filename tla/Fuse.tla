-------------------------------- MODULE Fuse --------------------------------
(***************************************************************************)
(* The FUSE source of connections (src/proxy/fuse/fuse.go): lookups make   *)
(* sockets on demand, a goroutine per listener accepts and cleans up, and  *)
(* fsRoot.Close is called by the owner and by the goroutine of Serve.      *)
(*                                                                         *)
(* An instance has one place in the temporary directory.  There is a       *)
(* socket at it, or (Postgres) a directory with a socket in it, or         *)
(* nothing.  sock is the listener whose socket file is there.  Closing a   *)
(* Unix listener of package net unlinks its path, whatever is there by     *)
(* then.  Names are valid instance names; a lookup of README or of an      *)
(* invalid name changes nothing.                                           *)
(***************************************************************************)
EXTENDS Naturals, FiniteSets

CONSTANTS
  Instances,     \* valid instance names
  Postgres,      \* those whose database version is a Postgres one
  Lookups,       \* workers of the FUSE server that serve lookups
  MaxListeners   \* bound: number of listeners made in a behaviour

None == 0

ASSUME FuseAssumption ==
  Postgres \subseteq Instances /\ None \notin Lookups /\ MaxListeners \in Nat

Listeners == 1..MaxListeners
Closers == {"owner", "serve"}

VARIABLES
  mounted,    \* the directory is mounted
  sockLock,   \* holder of fsRoot.sockLock: a lookup or None
  links,      \* instances with an entry in fsRoot.links
  closers,    \* listeners in fsRoot.closers
  sock,       \* the listener whose socket file is at the instance's place
  isDir,      \* whether the place is a directory
  made,       \* number of listeners made so far
  lInst,      \* the instance of each listener
  lPg,        \* whether its path is inside a directory
  lOpen,      \* whether it is open
  lPc,        \* control point of its listenerLifecycle goroutine
  lkPc,       \* control point of each lookup
  lkInst,     \* the instance it asks for
  dst,        \* the channel fsRoot.dst is open (nil and closed otherwise)
  conns,      \* number of connections in the channel
  closePc     \* control point of each call of fsRoot.Close

sockVars  == <<links, closers, sock, isDir, made, lInst, lPg>>
lookVars  == <<sockLock, lkPc, lkInst>>
chanVars  == <<dst, conns>>
vars == <<mounted, sockVars, lookVars, chanVars, lOpen, lPc, closePc>>

\* Every variable has its type, and the channel holds at most one connection.
TypeOK ==
  /\ mounted \in BOOLEAN
  /\ sockLock \in Lookups \cup {None}
  /\ links \in SUBSET Instances
  /\ made \in 0..MaxListeners
  /\ closers \in SUBSET (1..made)
  /\ sock \in [Instances -> 0..made]
  /\ isDir \in [Instances -> BOOLEAN]
  /\ lInst \in [Listeners -> Instances \cup {None}]
  /\ lPg \in [Listeners -> BOOLEAN]
  /\ lOpen \in [Listeners -> BOOLEAN]
  /\ lPc \in [Listeners -> {"unused", "accept", "send", "dead", "removed", "closed", "ended"}]
  /\ lkPc \in [Lookups -> {"idle", "lock", "version"}]
  /\ lkInst \in [Lookups -> Instances \cup {None}]
  /\ dst \in BOOLEAN
  /\ conns \in 0..1
  /\ closePc \in [Closers -> {"idle", "lock", "unmount", "close", "returned", "failed"}]

\* NewConnSrc has mounted the directory and started Serve.
Init ==
  /\ mounted = TRUE
  /\ sockLock = None
  /\ links = {}
  /\ closers = {}
  /\ sock = [i \in Instances |-> None]
  /\ isDir = [i \in Instances |-> FALSE]
  /\ made = 0
  /\ lInst = [l \in Listeners |-> None]
  /\ lPg = [l \in Listeners |-> FALSE]
  /\ lOpen = [l \in Listeners |-> FALSE]
  /\ lPc = [l \in Listeners |-> "unused"]
  /\ lkPc = [k \in Lookups |-> "idle"]
  /\ lkInst = [k \in Lookups |-> None]
  /\ dst = TRUE
  /\ conns = 0
  /\ closePc = [p \in Closers |-> "idle"]

-----------------------------------------------------------------------------
(* Lookup.  sockLock is held from LookupMiss to the end, over the call of   *)
(* InstanceVersionContext.                                                  *)

\* The kernel asks for a name; Serve hands the request to a worker.
LookupCall(k, i) ==
  /\ mounted /\ closePc["serve"] = "idle"
  /\ lkPc[k] = "idle"
  /\ lkPc' = [lkPc EXCEPT ![k] = "lock"]
  /\ lkInst' = [lkInst EXCEPT ![k] = i]
  /\ UNCHANGED <<mounted, sockVars, sockLock, chanVars, lOpen, lPc, closePc>>

\* Mutant: the map is not consulted.
Unknown(i) == FALSE

Known(i) == i \in links

LookupReturn(k) ==
  /\ lkPc' = [lkPc EXCEPT ![k] = "idle"]
  /\ lkInst' = [lkInst EXCEPT ![k] = None]

LookupHit(k) ==
  /\ lkPc[k] = "lock" /\ sockLock = None
  /\ Known(lkInst[k])
  /\ LookupReturn(k)
  /\ UNCHANGED <<mounted, sockVars, sockLock, chanVars, lOpen, lPc, closePc>>

\* There is no link: what is left at the place is removed.
LookupMiss(k) ==
  /\ lkPc[k] = "lock" /\ sockLock = None
  /\ ~Known(lkInst[k])
  /\ sockLock' = k
  /\ sock' = [sock EXCEPT ![lkInst[k]] = None]
  /\ isDir' = [isDir EXCEPT ![lkInst[k]] = FALSE]
  /\ lkPc' = [lkPc EXCEPT ![k] = "version"]
  /\ UNCHANGED <<mounted, links, closers, made, lInst, lPg, lkInst, chanVars, lOpen, lPc, closePc>>

\* The version is known, or it is empty: InstanceVersionContext reports no
\* error and the caller takes the instance for one that is not Postgres.
IsPostgres(i, pg) == pg => i \in Postgres

\* The socket is made, its goroutine started, and link and closer recorded.
LookupListen(k) ==
  LET i == lkInst[k]
      l == made + 1
  IN /\ lkPc[k] = "version" /\ made < MaxListeners
     /\ \E pg \in BOOLEAN :
          /\ IsPostgres(i, pg)
          /\ isDir' = [isDir EXCEPT ![i] = pg]
          /\ lPg' = [lPg EXCEPT ![l] = pg]
     /\ made' = l
     /\ sock' = [sock EXCEPT ![i] = l]
     /\ lInst' = [lInst EXCEPT ![l] = i]
     /\ lOpen' = [lOpen EXCEPT ![l] = TRUE]
     /\ lPc' = [lPc EXCEPT ![l] = "accept"]
     /\ links' = links \cup {i}
     /\ closers' = closers \cup {l}
     /\ sockLock' = None
     /\ LookupReturn(k)
     /\ UNCHANGED <<mounted, chanVars, closePc>>

\* Mutant: the failed lookup returns without the deferred unlock.
LookupFailLocked(k) ==
  /\ lkPc[k] = "version"
  /\ LookupReturn(k)
  /\ UNCHANGED <<mounted, sockVars, sockLock, chanVars, lOpen, lPc, closePc>>

\* The directory or the socket could not be made (the directory may remain).
LookupFail(k) ==
  /\ lkPc[k] = "version"
  /\ \E pg \in BOOLEAN :
       IsPostgres(lkInst[k], pg) /\ isDir' = [isDir EXCEPT ![lkInst[k]] = pg]
  /\ sockLock' = None
  /\ LookupReturn(k)
  /\ UNCHANGED <<mounted, links, closers, sock, made, lInst, lPg, chanVars, lOpen, lPc, closePc>>

-----------------------------------------------------------------------------
(* The files.                                                              *)

\* What a set of closed listeners leaves at each place: each removes the
\* socket at its own path, which a directory at the place makes another path.
Unlinked(ls) ==
  [i \in Instances |->
     IF \E l \in ls : lInst[l] = i /\ lPg[l] = isDir[i] THEN None ELSE sock[i]]

-----------------------------------------------------------------------------
(* listenerLifecycle, newConn and removeListener.                          *)

LGoto(l, from, to) == lPc[l] = from /\ lPc' = [lPc EXCEPT ![l] = to]

\* A client connects and newConn takes the read lock, which a waiting Close
\* prevents.  (With a nil dst the connection is ignored and nothing changes.)
Accept(l) ==
  /\ lOpen[l] /\ dst
  /\ \A p \in Closers : closePc[p] # "lock"
  /\ LGoto(l, "accept", "send")
  /\ UNCHANGED <<mounted, sockVars, lookVars, chanVars, lOpen, closePc>>

\* The send, and the end of the read lock.
Send(l) ==
  /\ conns = 0
  /\ conns' = 1
  /\ LGoto(l, "send", "accept")
  /\ UNCHANGED <<mounted, sockVars, lookVars, dst, lOpen, closePc>>

\* Mutant: every error is taken for a temporary one.
AcceptAgain(l) ==
  /\ LGoto(l, "accept", "accept")
  /\ UNCHANGED <<mounted, sockVars, lookVars, chanVars, lOpen, closePc>>

\* Accept returns an error that is not temporary.
AcceptError(l) ==
  /\ LGoto(l, "accept", "dead")
  /\ UNCHANGED <<mounted, sockVars, lookVars, chanVars, lOpen, closePc>>

\* Mutant: the link of another kind of path is removed instead.
OwnsOtherLink(l) == lInst[l] \in links /\ lPg[l]

\* The link's text is the listener's path.  It is the place of the instance,
\* so that of a socket in a directory is never found.
OwnsLink(l) == lInst[l] \in links /\ ~lPg[l]

RemoveListener(l) ==
  /\ sockLock = None
  /\ LGoto(l, "dead", "removed")
  /\ links' = IF OwnsLink(l) THEN links \ {lInst[l]} ELSE links
  /\ UNCHANGED <<mounted, closers, sock, isDir, made, lInst, lPg, lookVars, chanVars, lOpen, closePc>>

\* l.Close, which unlinks the path unless the listener was closed before.
CloseListener(l) ==
  /\ LGoto(l, "removed", "closed")
  /\ lOpen' = [lOpen EXCEPT ![l] = FALSE]
  /\ sock' = IF lOpen[l] THEN Unlinked({l}) ELSE sock
  /\ UNCHANGED <<mounted, links, closers, isDir, made, lInst, lPg, lookVars, chanVars, closePc>>

\* os.Remove of the path, which may also be an empty directory by now.
RemovePath(l) ==
  LET i == lInst[l]
  IN /\ LGoto(l, "closed", "ended")
     /\ sock' = Unlinked({l})
     /\ isDir' = [isDir EXCEPT ![i] = @ /\ ~(~lPg[l] /\ sock[i] = None)]
     /\ UNCHANGED <<mounted, links, closers, made, lInst, lPg, lookVars, chanVars, lOpen, closePc>>

-----------------------------------------------------------------------------
(* Close, by the owner and by the goroutine that runs Serve.               *)

CGoto(p, from, to) == closePc[p] = from /\ closePc' = [closePc EXCEPT ![p] = to]

OwnerCloses ==
  /\ CGoto("owner", "idle", "lock")
  /\ UNCHANGED <<mounted, sockVars, lookVars, chanVars, lOpen, lPc>>

\* Serve returns once the connection to the kernel is gone and its workers are
\* done, and its goroutine calls Close.
ServeReturns ==
  /\ ~mounted
  /\ \A k \in Lookups : lkPc[k] = "idle"
  /\ CGoto("serve", "idle", "lock")
  /\ UNCHANGED <<mounted, sockVars, lookVars, chanVars, lOpen, lPc>>

\* Serve returns an error while the directory is mounted.
ServeFails ==
  /\ mounted
  /\ \A k \in Lookups : lkPc[k] = "idle"
  /\ CGoto("serve", "idle", "lock")
  /\ UNCHANGED <<mounted, sockVars, lookVars, chanVars, lOpen, lPc>>

\* Mutant: the read locks are not waited for.
WriteLockTaken == TRUE

\* No newConn holds the read lock.
WriteLock == \A l \in Listeners : lPc[l] # "send"

\* Mutant: the channel is not closed.
CloseDstNot(p) ==
  /\ WriteLock
  /\ CGoto(p, "lock", "unmount")
  /\ UNCHANGED <<mounted, sockVars, lookVars, chanVars, lOpen, lPc>>

\* The critical section that closes the channel and sets dst to nil.
CloseDst(p) ==
  /\ WriteLock
  /\ dst' = FALSE
  /\ CGoto(p, "lock", "unmount")
  /\ UNCHANGED <<mounted, sockVars, lookVars, conns, lOpen, lPc>>

\* fuse.Unmount succeeds, or fails as it must if nothing is mounted.
Unmount(p) ==
  /\ \/ mounted /\ mounted' = FALSE /\ CGoto(p, "unmount", "close")
     \/ UNCHANGED mounted /\ CGoto(p, "unmount", "failed")
  /\ UNCHANGED <<sockVars, lookVars, chanVars, lOpen, lPc>>

CloseAll(p) ==
  /\ sockLock = None
  /\ CGoto(p, "close", "returned")
  /\ lOpen' = [l \in Listeners |-> lOpen[l] /\ l \notin closers]
  /\ sock' = Unlinked({l \in closers : lOpen[l]})
  /\ UNCHANGED <<mounted, links, closers, isDir, made, lInst, lPg, lookVars, chanVars, lPc>>

-----------------------------------------------------------------------------
\* Somebody else unmounts the directory.
ForceUnmount ==
  /\ mounted
  /\ mounted' = FALSE
  /\ UNCHANGED <<sockVars, lookVars, chanVars, lOpen, lPc, closePc>>

\* Client.Run takes a connection out of the channel.
RunTakes ==
  /\ conns = 1
  /\ conns' = 0
  /\ UNCHANGED <<mounted, sockVars, lookVars, dst, lOpen, lPc, closePc>>

LookupStep(k) == LookupHit(k) \/ LookupMiss(k)
LookupDone(k) == LookupListen(k) \/ LookupFail(k)
CloseStep(p) == CloseDst(p) \/ Unmount(p)
CleanStep(l) == CloseListener(l) \/ RemovePath(l)

\* Accept on a listener that is closed returns an error.
AcceptClosed(l) == ~lOpen[l] /\ AcceptError(l)

Next ==
  \/ \E k \in Lookups : LookupStep(k) \/ LookupDone(k) \/ \E i \in Instances : LookupCall(k, i)
  \/ \E l \in Listeners : Accept(l) \/ Send(l) \/ AcceptError(l) \/ RemoveListener(l) \/ CleanStep(l)
  \/ \E p \in Closers : CloseStep(p) \/ CloseAll(p)
  \/ OwnerCloses \/ ServeReturns \/ ServeFails \/ ForceUnmount \/ RunTakes

Spec == Init /\ [][Next]_vars

\* Goroutines run, Run takes connections, the Admin API answers, closed
\* listeners stop accepting, and a sync.Mutex starves nobody.
Fairness ==
  /\ WF_vars(ServeReturns) /\ WF_vars(RunTakes)
  /\ \A k \in Lookups : SF_vars(LookupStep(k)) /\ WF_vars(LookupDone(k))
  /\ \A p \in Closers : WF_vars(CloseStep(p)) /\ SF_vars(CloseAll(p))
  /\ \A l \in Listeners :
       /\ SF_vars(Send(l)) /\ WF_vars(AcceptClosed(l))
       /\ SF_vars(RemoveListener(l)) /\ WF_vars(CleanStep(l))

FairSpec == Spec /\ Fairness

-----------------------------------------------------------------------------
(* Properties.                                                             *)

\* The listener's goroutine has not yet called removeListener.
Unremoved(l) == lPc[l] \in {"accept", "send", "dead"}

\* An instance never has two listeners that have not been removed: links,
\* checked and set under sockLock, keeps a second lookup from making one, and
\* removeListener only takes away the link of its own listener although the
\* text it compares is the same for all of them.
OneListener ==
  \A l, m \in Listeners : Unremoved(l) /\ Unremoved(m) /\ lInst[l] = lInst[m] => l = m

\* The link of an instance stands for a listener: it is there as long as the
\* listener has not been removed and, if that one is not of a Postgres
\* instance, no longer.
LinksAreListeners ==
  \A i \in Instances :
    LET mine == {l \in Listeners : lInst[l] = i}
    IN /\ (\E l \in mine : Unremoved(l)) => i \in links
       /\ i \in links => \E l \in mine : Unremoved(l) \/ lPg[l]

\* fsRoot.Close never closes the channel under a newConn that is about to send
\* on it, which would panic: dst is closed under the write lock only.
NoSendOnClosed == \A l \in Listeners : lPc[l] = "send" => dst

\* The first listener of an instance has its socket where the link leads, as
\* long as its Accept has not failed and it has not been closed: nobody else's
\* clean-up, and no other lookup, removes the file.
FirstSocketStays ==
  \A l \in Listeners :
    /\ lPc[l] \in {"accept", "send"} /\ lOpen[l]
    /\ \A m \in Listeners : lInst[m] = lInst[l] => m >= l
    => sock[lInst[l]] = l /\ isDir[lInst[l]] = lPg[l]

\* sockLock is held over the call of the Admin API, for an instance without a
\* link.
LookupInv ==
  \A k \in Lookups :
    /\ lkPc[k] # "idle" => lkInst[k] \in Instances
    /\ lkPc[k] = "version" => sockLock = k /\ lkInst[k] \notin links

\* Listeners are numbered in the order they are made; one is only made when
\* those of the same instance before it have been removed.
SuccessionInv ==
  \A l \in Listeners :
    /\ IF l > made THEN lPc[l] = "unused" /\ ~lPg[l] ELSE lInst[l] \in Instances
    /\ Unremoved(l) => \A m \in l + 1..made : lInst[m] # lInst[l]

\* The inductive invariant behind the links, the sockets and the channel: what
\* Lookup and removeListener, under sockLock, and newConn and Close, under the
\* lock of dst, keep between them.
FuseInv ==
  TypeOK /\ LookupInv /\ SuccessionInv /\ LinksAreListeners /\ NoSendOnClosed /\ FirstSocketStays

\* The comment on NewConnSrc: "As a result of this shutdown, or during any other
\* fatal error, the returned chan will be closed", although Close waits for
\* sends, the goroutine of Serve for lookups, and these for the Admin API.
ChanIsClosed == (~mounted \/ closePc["owner"] = "lock") ~> ~dst

\* Every lookup is answered: sockLock, which is held over the call of the Admin
\* API, is let go on every path.
LookupsAnswered == \A k \in Lookups : lkPc[k] = "lock" ~> lkPc[k] = "idle"

\* When Close has closed a listener, its goroutine cleans up and ends, with the
\* send it may be in the middle of.
ClosedListenersEnd ==
  \A l \in Listeners : lPc[l] # "unused" /\ ~lOpen[l] ~> lPc[l] = "ended"

\* The comment on Lookup: "it returns a node which is a symbolic link to a
\* socket which provides connectivity to a remote instance".
LinkLeadsToSocket == \A i \in links : dst => sock[i] # None
=============================================================================

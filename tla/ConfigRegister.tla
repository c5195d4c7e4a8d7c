--------------------------- MODULE ConfigRegister ---------------------------
(***************************************************************************)
(* What the configuration cache of proxy.Client promises, without limiter, *)
(* clock, mutexes, entries or channels: a register for each instance that  *)
(* is empty or holds the version of its current configuration.  Versions   *)
(* only grow.  One refresh at a time works on a register.  A dialer holds  *)
(* only what it took from the register, and only a dialer that holds the   *)
(* current version may throw it out.                                       *)
(***************************************************************************)
EXTENDS Naturals

CONSTANTS
  Instances,  \* one register for each
  Dialers,    \* the goroutines that take versions
  Target,     \* the register each of them looks at
  Versions    \* the versions that refreshes may publish: positive numbers

\* No version.
Empty == 0

VARIABLES
  val,    \* the version in each register, or Empty
  used,   \* the versions ever published in it
  phase,  \* progress of the refresh of the register
  held    \* the version each dialer has in hand, or Empty

regVars == <<val, used, phase>>
vars == <<regVars, held>>

Init ==
  /\ val = [i \in Instances |-> Empty]
  /\ used = [i \in Instances |-> {}]
  /\ phase = [i \in Instances |-> "idle"]
  /\ held = [d \in Dialers |-> Empty]

Advance(i, from, to) == phase[i] = from /\ phase' = [phase EXCEPT ![i] = to]

\* A refresh begins; there is no other one of this instance.
Start(i) == Advance(i, "idle", "fetching") /\ UNCHANGED <<val, used>>

\* The refresh succeeds with a version newer than all before it.
Publish(i) ==
  /\ Advance(i, "fetching", "stored")
  /\ \E v \in Versions :
       /\ \A u \in used[i] : v > u
       /\ val' = [val EXCEPT ![i] = v]
       /\ used' = [used EXCEPT ![i] = @ \cup {v}]

\* The refresh fails: the version stays, or is given up.
Fail(i) ==
  /\ Advance(i, "fetching", "stored")
  /\ val' \in {val, [val EXCEPT ![i] = Empty]}
  /\ UNCHANGED used

Finish(i) == Advance(i, "stored", "idle") /\ UNCHANGED <<val, used>>

\* The current version turned out to be unusable for a dialer that holds it.
Discard(i) ==
  /\ \E d \in Dialers : Target[d] = i /\ held[d] = val[i]
  /\ val' = [val EXCEPT ![i] = Empty]
  /\ UNCHANGED <<used, phase>>

\* A dialer keeps what it has, puts it down, or takes the current version.
HoldersMove ==
  held' \in {h \in [Dialers -> Versions \cup {Empty}] :
              \A d \in Dialers : h[d] \in {held[d], Empty, val[Target[d]]}}

Next ==
  /\ \/ \E i \in Instances : Start(i) \/ Publish(i) \/ Fail(i) \/ Finish(i) \/ Discard(i)
     \/ UNCHANGED regVars
  /\ HoldersMove

Spec == Init /\ [][Next]_vars
=============================================================================

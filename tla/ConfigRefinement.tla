-------------------------- MODULE ConfigRefinement --------------------------
(* ConfigCache implements ConfigRegister.                                  *)
EXTENDS ConfigCache

\* The refresh whose channel is in the entry is the only one that may run.
PhaseOf(o) ==
  IF o = None \/ IsClosed(o) THEN "idle"
  ELSE IF HasStored(o) THEN "stored" ELSE "fetching"

valBar == [i \in Instances |-> cache[i].cfg]
usedBar == [i \in Instances |-> {o \in Refreshes : refInst[o] = i /\ Obtained(o)}]
phaseBar == [i \in Instances |-> PhaseOf(cache[i].done)]
heldBar == [d \in Dialers |-> ent[d].cfg]

Register == INSTANCE ConfigRegister WITH
  Versions <- Refreshes, val <- valBar, used <- usedBar, phase <- phaseBar, held <- heldBar

\* The cache is a register of growing versions: every critical section of
\* cachedCfg, startRefresh and invalidateCfg is one step of ConfigRegister, or
\* none.  In particular a refresh begins only when none is running, what a
\* dialer works with was current when it took it, and a config disappears only
\* by a failed refresh or by a dialer that has just failed with that config.
RefinesRegister == Register!Spec
=============================================================================

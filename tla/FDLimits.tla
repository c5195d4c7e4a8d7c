------------------------------ MODULE FDLimits ------------------------------
(***************************************************************************)
(* SetupFDLimits of src/proxy/limits/limits.go against a kernel that keeps *)
(* a soft and a hard limit.                                                *)
(***************************************************************************)
EXTENDS Naturals

CONSTANTS
  MaxLimit,  \* bound: limits and wishes are at most this; it is RLIM_INFINITY
  NrOpen     \* the kernel gives nobody a hard limit above this

ASSUME LimitsAssumption == MaxLimit \in Nat /\ NrOpen \in Nat

VARIABLES
  want,      \* wantFDs
  soft,      \* the soft limit in the kernel
  hard,      \* the hard limit in the kernel
  hard0,     \* history: the hard limit at the call
  root,      \* the process may raise its hard limit
  rlim,      \* what Getrlimit gave
  fdPc,      \* control point of SetupFDLimits
  fdErr      \* SetupFDLimits returns an error

limitsVars == <<want, soft, hard, hard0, root, rlim, fdPc, fdErr>>

Limits == 0..MaxLimit

\* Every variable has its type, the soft limit is below the hard one, and both
\* are only tried if the hard one is too low.
LimitsTypeOK ==
  /\ want \in Limits /\ soft \in Limits /\ hard \in Limits /\ soft <= hard
  /\ rlim \in [cur: Limits, max: Limits]
  /\ fdPc \in {"get", "both", "soft", "returned"}
  /\ fdPc = "both" => rlim.max < want
  /\ hard0 \in Limits /\ root \in BOOLEAN /\ fdErr \in BOOLEAN

LimitsInit ==
  /\ want \in Limits
  /\ hard \in Limits /\ soft \in 0..hard
  /\ hard0 = hard
  /\ root \in BOOLEAN
  /\ rlim = [cur |-> 0, max |-> 0]
  /\ fdPc = "get"
  /\ fdErr = FALSE

FDGoto(from, to) == fdPc = from /\ fdPc' = to

\* setrlimit(2) allows these limits.
Allowed(c, m) == c <= m /\ m <= NrOpen /\ (m <= hard \/ root)

\* Mutant: off by one.
EnoughWithOne(limit) == limit + 1 >= want

Enough(limit) == limit >= want

\* Getrlimit fails, finds enough, or shows which limits to set.
Getrlimit ==
  /\ \/ FDGoto("get", "returned") /\ fdErr' = TRUE /\ UNCHANGED rlim
     \/ /\ rlim' = [cur |-> soft, max |-> hard] /\ UNCHANGED fdErr
        /\ FDGoto("get", IF Enough(soft) THEN "returned" ELSE IF Enough(hard) THEN "soft" ELSE "both")
  /\ UNCHANGED <<want, soft, hard, hard0, root>>

\* Both limits are set; whatever the error is, the soft one is tried next.
SetBoth ==
  /\ fdPc = "both"
  /\ IF Allowed(want, want) THEN fdPc' = "returned" /\ soft' = want /\ hard' = want
     ELSE fdPc' = "soft" /\ UNCHANGED <<soft, hard>>
  /\ UNCHANGED <<want, hard0, root, rlim, fdErr>>

\* Mutant: both limits are set to what is wanted.
SoftRlim == [cur |-> want, max |-> want]

\* The limits of the last call: the hard limit as it was read.
NewRlim == [cur |-> want, max |-> rlim.max]

SetSoft ==
  /\ FDGoto("soft", "returned")
  /\ IF Allowed(NewRlim.cur, NewRlim.max)
     THEN soft' = NewRlim.cur /\ hard' = NewRlim.max /\ UNCHANGED fdErr
     ELSE fdErr' = TRUE /\ UNCHANGED <<soft, hard>>
  /\ UNCHANGED <<want, hard0, root, rlim>>

LimitsNext == Getrlimit \/ SetBoth \/ SetSoft

LimitsSpec == LimitsInit /\ [][LimitsNext]_limitsVars

\* SetupFDLimits returns no error only if the process may open wantFDs file
\* descriptors.
Enforced == fdPc = "returned" /\ ~fdErr => soft >= want

\* The hard limit, which a process without privileges cannot raise again, is
\* never lowered.
HardIsKept == hard >= hard0

\* SetupFDLimits returns no error only if the process may open wantFDs file
\* descriptors, and never lowers the hard limit.
EnsuresLimit == Enforced /\ HardIsKept
=============================================================================

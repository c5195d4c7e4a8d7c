-------------------------------- MODULE Parts --------------------------------
(***************************************************************************)
(* Six parts of the proxy that share no state: the data of one connection, *)
(* the source of certificates, the local sockets, the listing of projects, *)
(* the package-level client and the file descriptor limit.  A behaviour is *)
(* one of part, with the others left as they are.                          *)
(***************************************************************************)
EXTENDS Relay, CertSource, WatchInstances, ListInstances, DialClient, FDLimits

VARIABLE part

vars == <<part, relayVars, certVars, watchVars, listVars, dialVars, limitsVars>>

Init ==
  /\ part \in {"relay", "cert", "watch", "list", "dial", "limits"}
  /\ RelayInit /\ WatchInit /\ ListInit
  /\ CertInit /\ (part # "cert" => EnableIAMLogin /\ checkRegion /\ types = <<"PRIMARY", "PRIVATE">>)
  /\ DialInit
  /\ LimitsInit /\ (part # "limits" => want = 0 /\ hard = 0 /\ ~root)

IsRelay ==
  part = "relay" /\ UNCHANGED <<part, certVars, watchVars, listVars, dialVars, limitsVars>>
IsCert ==
  part = "cert" /\ UNCHANGED <<part, relayVars, watchVars, listVars, dialVars, limitsVars>>
IsWatch ==
  part = "watch" /\ UNCHANGED <<part, relayVars, certVars, listVars, dialVars, limitsVars>>
IsList ==
  part = "list" /\ UNCHANGED <<part, relayVars, certVars, watchVars, dialVars, limitsVars>>
IsDial ==
  part = "dial" /\ UNCHANGED <<part, relayVars, certVars, watchVars, listVars, limitsVars>>
IsLimits ==
  part = "limits" /\ UNCHANGED <<part, relayVars, certVars, watchVars, listVars, dialVars>>

Next ==
  \/ IsRelay /\ RelayNext
  \/ IsCert /\ CertNext
  \/ IsWatch /\ WatchNext
  \/ IsList /\ ListNext
  \/ IsDial /\ DialNext
  \/ IsLimits /\ LimitsNext

Spec == Init /\ [][Next]_vars

\* The goroutines go on, and reads that have something to return, token requests
\* and API calls return.  A Write to a peer need not: it has no deadline.  A step
\* of a part with the others left as they are is one of Next, which says so.
FairSpec ==
  /\ Spec
  /\ \A g \in Dirs : WF_relayVars(part = "relay" /\ CopierAlone(g))
  /\ WF_certVars(part = "cert" /\ BgHasKey)
  /\ WF_certVars(part = "cert" /\ RefreshStep)
  /\ \A p \in Projects : WF_listVars(part = "list" /\ Goroutine(p))
  /\ WF_listVars(part = "list" /\ Close) /\ WF_listVars(part = "list" /\ Collected)

-----------------------------------------------------------------------------
(* What the modules of the parts do not say themselves.                    *)

\* Every variable has its type.
TypeOK ==
  RelayTypeOK /\ CertTypeOK /\ WatchTypeOK /\ ListTypeOK /\ DialTypeOK /\ LimitsTypeOK

\* Every refreshCfg returns, whoever generates the key and whatever fails, and so
\* does listInstances.
CallsReturn ==
  (part = "cert" /\ pc = "key") \/ part = "list" ~> pc = "returned" \/ result # "none"
=============================================================================

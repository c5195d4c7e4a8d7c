----------------------------- MODULE DialClient -----------------------------
(***************************************************************************)
(* The package-level client of src/proxy/proxy/dial.go: DialContext, which *)
(* initialises it lazily, and Init, InitClient, InitWithClient and         *)
(* InitDefault, which the application may call at the same time.           *)
(*                                                                         *)
(* A call makes one client at most, so that a client is known by the call  *)
(* that made it: a goroutine and which of its calls it is.                 *)
(***************************************************************************)
EXTENDS Naturals

CONSTANTS
  Dialers,    \* goroutines that call DialContext
  Initers,    \* goroutines that call Init, InitClient or InitWithClient, once
  MaxDials    \* bound: number of calls of each dialer

ASSUME DialAssumption == Dialers \cap Initers = {} /\ MaxDials \in Nat

Nil == <<>>
Calls == (Dialers \cup Initers) \X (0..MaxDials)

VARIABLES
  client,    \* dialClient.c
  dialPc,    \* control point of each goroutine
  local,     \* DialContext's local c
  calls,     \* number of calls of DialContext so far
  overtaken  \* history: the calls that were under way when an Init last returned

dialVars == <<client, dialPc, local, calls, overtaken>>

\* Every variable has its type.
DialTypeOK ==
  /\ client \in Calls \cup {Nil}
  /\ dialPc \in [Dialers \cup Initers -> {"start", "default", "init", "reread", "dial", "failed", "ended"}]
  /\ local \in [Dialers -> Calls \cup {Nil}]
  /\ calls \in [Dialers \cup Initers -> 0..MaxDials]
  /\ overtaken \in SUBSET Calls

DialInit ==
  /\ client = Nil
  /\ dialPc = [g \in Dialers \cup Initers |-> "start"]
  /\ local = [d \in Dialers |-> Nil]
  /\ calls = [g \in Dialers \cup Initers |-> 0]
  /\ overtaken = {}

DialGoto(g, from, to) == dialPc[g] = from /\ dialPc' = [dialPc EXCEPT ![g] = to]

\* The call that g is in.
Call(g) == <<g, calls[g]>>

\* Init, InitClient or InitWithClient.
InitWithClient(i) ==
  /\ DialGoto(i, "start", "ended")
  /\ client' = Call(i)
  /\ overtaken' = {Call(d) : d \in {e \in Dialers : dialPc[e] # "start"}}
  /\ UNCHANGED <<local, calls>>

\* Mutant: DialContext does not look whether there is a client.
FindsNilAlways == TRUE

FindsNil == client = Nil

\* DialContext reads the client under the lock.
DialRead(d) ==
  /\ calls[d] < MaxDials
  /\ calls' = [calls EXCEPT ![d] = @ + 1]
  /\ DialGoto(d, "start", IF FindsNil THEN "default" ELSE "dial")
  /\ local' = [local EXCEPT ![d] = client]
  /\ UNCHANGED <<client, overtaken>>

\* InitDefault finds the default credentials, or does not.
DefaultClient(d) ==
  /\ DialGoto(d, "default", "init") \/ DialGoto(d, "default", "failed")
  /\ UNCHANGED <<client, local, calls, overtaken>>

\* InitDefault calls Init, whatever the client is by now.
InitDefault(d) ==
  /\ DialGoto(d, "init", "reread")
  /\ client' = Call(d)
  /\ UNCHANGED <<local, calls, overtaken>>

\* Mutant: the client is not read again.
DialRereadNot(d) ==
  /\ DialGoto(d, "reread", "dial")
  /\ UNCHANGED <<client, local, calls, overtaken>>

DialReread(d) ==
  /\ DialGoto(d, "reread", "dial")
  /\ local' = [local EXCEPT ![d] = client]
  /\ UNCHANGED <<client, calls, overtaken>>

\* The connection is dialed or the error returned.
DialReturn(d) ==
  /\ DialGoto(d, "dial", "start") \/ DialGoto(d, "failed", "start")
  /\ local' = [local EXCEPT ![d] = Nil]
  /\ UNCHANGED <<client, calls, overtaken>>

DialNext ==
  \/ \E i \in Initers : InitWithClient(i)
  \/ \E d \in Dialers :
       DialRead(d) \/ DefaultClient(d) \/ InitDefault(d) \/ DialReread(d) \/ DialReturn(d)

DialSpec == DialInit /\ [][DialNext]_dialVars

-----------------------------------------------------------------------------
(* Properties.                                                             *)

\* DialContext never dials with a nil client, whoever initialises it when.
DialHasClient == \A d \in Dialers : dialPc[d] = "dial" => local[d] # Nil

\* Given to Init, or made by a call of DialContext that Init has overtaken.
FromInit(c) == c[1] \in Initers \/ c \in overtaken

\* InitDefault may put its client in the place of one given to Init, but only in
\* a call that was already under way when Init returned: from then on the client
\* is one given to Init or by such a call, and every call of DialContext that
\* begins later dials with one of these.
GivenClientIsUsed ==
  (\E i \in Initers : dialPc[i] = "ended") =>
    /\ client # Nil /\ FromInit(client)
    /\ \A d \in Dialers : dialPc[d] = "dial" /\ Call(d) \notin overtaken => FromInit(local[d])

\* DialContext never dials with a nil client, and a default client is used after
\* Init has returned only if the two have overlapped.
DialUsesClient == DialHasClient /\ GivenClientIsUsed
=============================================================================

----------------------------- MODULE CertSource -----------------------------
(***************************************************************************)
(* The source of certificates (src/proxy/certs/certs.go): Local and Remote *)
(* as Client.refreshCfg calls them one after the other, backoffAPIRetry,   *)
(* the token of IAM login, the key that a goroutine started by             *)
(* NewCertSourceOpts and Local generate once between them, and the choice  *)
(* of the instance's address.                                              *)
(*                                                                         *)
(* Time 0 is Go's zero time.  The token source is a caching one, as        *)
(* authenticatedClient makes it of credentials or of gcloud; the static    *)
(* source of -token is left out.                                           *)
(***************************************************************************)
EXTENDS Naturals, Sequences, Functions

CONSTANTS
  AddrTypes,       \* names of address types
  UserTypes,       \* lists that RemoteOpts.IPAddrTypeOpts may be
  InstanceTypes,   \* lists of address types an instance may have
  Retries,         \* backoffRetries
  TokenLife,       \* lifetime of a token
  CertLife,        \* lifetime of an ephemeral certificate
  ExpiryDelta,     \* oauth2 takes a token for expired this long before it is
  MaxTime,         \* bound: the clock stops here
  MaxCalls         \* bound: number of calls of refreshCfg

ASSUME CertAssumption ==
  /\ {"PUBLIC", "PRIVATE", "PRIMARY"} \subseteq AddrTypes
  /\ UserTypes \subseteq Seq(AddrTypes) /\ InstanceTypes \subseteq Seq(AddrTypes)
  /\ Retries \in Nat \ {0} /\ MaxTime \in Nat \ {0} /\ MaxCalls \in Nat
  /\ TokenLife \in Nat /\ CertLife \in Nat /\ ExpiryDelta \in Nat

\* What an API call may end with: googleapi.Error by its code (and, for the
\* first one, its reason), another error, or no error.
Outcomes == {"ok", "insufficientPermissions", "403", "404", "4xx", "5xx", "network"}

\* What backoffAPIRetry makes of the last outcome.
Errors == {"nil", "enable API", "no access", "4xx", "5xx", "network"}

\* The errors Local and Remote find themselves.
OwnErrors == {"token", "parse", "region", "no address", "first gen", "address type"}

VARIABLES
  now,            \* the clock
  types,          \* RemoteCertSource.IPAddrTypes
  EnableIAMLogin, \* RemoteCertSource.EnableIAMLogin
  checkRegion,    \* RemoteCertSource.checkRegion
  once,           \* keyOnce: "none", "busy" or "done"
  key,            \* number of the key in RemoteCertSource.key
  bg,             \* control point of the goroutine that generates the key
  pc,             \* control point of refreshCfg
  pub,            \* the key in the certificate request
  cached,         \* expiry of the token in the token source; 0 for none
  tok,            \* expiry of the token of the request
  outcomes,       \* what the API calls of the current backoffAPIRetry ended with
  notAfter,       \* expiry of the leaf of the certificate
  issued,         \* history: expiry that the API gave the certificate
  priv,           \* the key of the certificate
  addr,           \* the address, an index into the instance's list, or 0
  data,           \* the instance as the API describes it
  certErr,        \* the error to be returned
  certCalls       \* number of calls so far

optVars == <<types, EnableIAMLogin, checkRegion>>
keyVars == <<once, key, bg>>
tokVars == <<cached, tok>>
resVars == <<notAfter, issued, priv, addr, data>>
certVars == <<now, optVars, keyVars, pc, pub, tokVars, outcomes, resVars, certErr, certCalls>>

Pcs == {"idle", "key", "generate", "token", "refresh", "create", "parse", "get", "check", "returned"}

\* The instance's region: as in its name, "us-central" for a name with
\* "us-central1", or another one.
Regions == {"same", "us-central", "other"}

NoData == [region |-> "same", ips |-> <<>>, firstGen |-> FALSE]

\* Every variable has its type.
CertTypeOK ==
  /\ now \in 1..MaxTime
  /\ types \in Seq(AddrTypes)
  /\ EnableIAMLogin \in BOOLEAN /\ checkRegion \in BOOLEAN
  /\ once \in {"none", "busy", "done"}
  /\ key \in Nat /\ pub \in Nat /\ priv \in Nat
  /\ cached \in Nat /\ tok \in Nat /\ notAfter \in Nat /\ issued \in Nat
  /\ addr \in Nat
  /\ bg \in {"key", "generate", "ended"}
  /\ pc \in Pcs
  /\ outcomes \in Seq(Outcomes)
  /\ data \in [region : Regions, ips : Seq(AddrTypes), firstGen : BOOLEAN]
  /\ certErr \in Errors \cup OwnErrors
  /\ certCalls \in 0..MaxCalls

-----------------------------------------------------------------------------
(* NewCertSourceOpts and findIPAddr.                                       *)

\* strings.ToUpper on the names of address types.
Upper(t) ==
  CASE t = "public" -> "PUBLIC" [] t = "private" -> "PRIVATE" [] t = "primary" -> "PRIMARY"
    [] OTHER -> t

\* The default list, and "PUBLIC" as an alias for "PRIMARY".
IPAddrTypes(opts) ==
  LET given == IF opts = <<>> THEN <<"PUBLIC", "PRIVATE">> ELSE opts
  IN [n \in DOMAIN given |-> IF Upper(given[n]) = "PUBLIC" THEN "PRIMARY" ELSE given[n]]

\* The index of the first element of s in S, or 0.
FirstIn(s, S) ==
  LET at == {n \in DOMAIN s : s[n] \in S /\ \A m \in 1..n - 1 : s[m] \notin S}
  IN IF at = {} THEN 0 ELSE CHOOSE n \in at : TRUE

\* The elements of s that have, but for case, the name of one of S.
Named(s, S) == {x \in Range(s) : \E t \in S : Upper(x) = Upper(t)}

\* Mutant: the loops are nested the other way around.
FindAnyIPAddr(ips) == FirstIn(ips, Named(ips, Range(types)))

\* The index of the first address of the first wanted type that there is, or 0.
FindIPAddr(ips) ==
  LET want == FirstIn(types, Named(types, Range(ips)))
  IN IF want = 0 THEN 0 ELSE FirstIn(ips, Named(ips, {types[want]}))

\* DelayKeyGenerate is not set: a goroutine generates the key.
CertInit ==
  /\ now = 1
  /\ \E opts \in UserTypes : types = IPAddrTypes(opts)
  /\ EnableIAMLogin \in BOOLEAN /\ checkRegion \in BOOLEAN
  /\ once = "none"
  /\ key = 0
  /\ bg = "key"
  /\ pc = "idle"
  /\ pub = 0
  /\ cached = 0
  /\ tok = 0
  /\ outcomes = <<>>
  /\ notAfter = 0
  /\ issued = 0
  /\ priv = 0
  /\ addr = 0
  /\ data = NoData
  /\ certErr = "nil"
  /\ certCalls = 0

-----------------------------------------------------------------------------
(* generateKey, by the goroutine bg and by Local.                          *)

\* Mutant: who finds no generation going on generates a key.
OnceAgain == once # "busy"

OnceFirst == once = "none"

BgGenerates ==
  /\ bg = "key" /\ OnceFirst
  /\ bg' = "generate" /\ once' = "busy"
  /\ UNCHANGED <<now, optVars, key, pc, pub, tokVars, outcomes, resVars, certErr, certCalls>>

\* Mutant: the goroutine ends and leaves the Once busy.
BgEnds ==
  /\ bg = "generate"
  /\ bg' = "ended"
  /\ UNCHANGED <<now, optVars, key, once, pc, pub, tokVars, outcomes, resVars, certErr, certCalls>>

BgHasKey ==
  /\ \/ bg = "generate" /\ key' = key + 1 /\ once' = "done"
     \/ bg = "key" /\ once = "done" /\ UNCHANGED <<key, once>>
  /\ bg' = "ended"
  /\ UNCHANGED <<now, optVars, pc, pub, tokVars, outcomes, resVars, certErr, certCalls>>

CertGoto(from, to) == pc = from /\ pc' = to

LocalGenerates ==
  /\ CertGoto("key", "generate")
  /\ OnceFirst /\ once' = "busy"
  /\ UNCHANGED <<now, optVars, key, bg, pub, tokVars, outcomes, resVars, certErr, certCalls>>

LocalGenerated ==
  /\ CertGoto("generate", "key")
  /\ key' = key + 1 /\ once' = "done"
  /\ UNCHANGED <<now, optVars, bg, pub, tokVars, outcomes, resVars, certErr, certCalls>>

-----------------------------------------------------------------------------
(* backoffAPIRetry, which Local runs at "create" and Remote at "get".      *)

\* Only server errors are retried.
Final(o) == o # "5xx"

\* Mutant: the last error is returned as it is.
RawErrorOf(o) == IF o = "ok" THEN "nil" ELSE o

ErrorOf(o) ==
  CASE o = "ok" -> "nil"
    [] o = "insufficientPermissions" -> "enable API"
    [] o \in {"403", "404"} -> "no access"
    [] OTHER -> o

\* Mutant: one attempt too many.
AttemptsLeftOffByOne == Len(outcomes) <= Retries

AttemptsLeft == Len(outcomes) + 1 < Retries

\* An attempt that is followed by another one, after a sleep.
Retry ==
  /\ pc \in {"create", "get"}
  /\ \E o \in Outcomes :
       /\ ~Final(o) /\ AttemptsLeft
       /\ outcomes' = Append(outcomes, o)
  /\ UNCHANGED <<now, optVars, keyVars, pc, pub, tokVars, resVars, certErr, certCalls>>

\* The last attempt, with outcome o.
LastAttempt(o) ==
  /\ Final(o) \/ ~AttemptsLeft
  /\ outcomes' = Append(outcomes, o)
  /\ certErr' = ErrorOf(o)

-----------------------------------------------------------------------------
(* Local.                                                                  *)

LocalCall ==
  /\ certCalls < MaxCalls
  /\ certCalls' = certCalls + 1
  /\ CertGoto("idle", "key")
  /\ certErr' = "nil"
  /\ outcomes' = <<>>
  /\ UNCHANGED <<now, optVars, keyVars, pub, tokVars, resVars>>

\* The public key goes into the request.
LocalKey ==
  /\ CertGoto("key", IF EnableIAMLogin THEN "token" ELSE "create")
  /\ once = "done"
  /\ pub' = key
  /\ UNCHANGED <<now, optVars, keyVars, tokVars, outcomes, resVars, certErr, certCalls>>

\* A caching oauth2.TokenSource: the cached token while it is valid, or a new one.
CacheValid == cached > now + ExpiryDelta

Token ==
  \/ CacheValid /\ UNCHANGED <<cached, certErr>>
  \/ ~CacheValid /\ cached' = now + TokenLife /\ UNCHANGED certErr

TokenFails == ~CacheValid /\ certErr' = "token" /\ UNCHANGED cached

LocalToken ==
  /\ \/ CertGoto("token", "refresh") /\ Token
     \/ CertGoto("token", "returned") /\ TokenFails
  /\ UNCHANGED <<now, optVars, keyVars, pub, tok, outcomes, resVars, certCalls>>

\* refreshToken asks the same token source again.
LocalRefresh ==
  /\ \/ CertGoto("refresh", "create") /\ Token /\ tok' = cached'
     \/ CertGoto("refresh", "returned") /\ TokenFails /\ UNCHANGED tok
  /\ UNCHANGED <<now, optVars, keyVars, pub, outcomes, resVars, certCalls>>

LocalCreated ==
  /\ pc = "create"
  /\ \E o \in Outcomes :
       /\ LastAttempt(o)
       /\ pc' = IF o = "ok" THEN "parse" ELSE "returned"
       /\ issued' = IF o = "ok" THEN now + CertLife ELSE issued
  /\ UNCHANGED <<now, optVars, keyVars, pub, tokVars, notAfter, priv, addr, data, certCalls>>

\* Mutant: the expiry of the token is not considered.
EarlierIgnored(t, c) == c

Earlier(t, c) == IF t < c THEN t ELSE c

\* The certificate is parsed and its expiry adjusted, or it does not parse.
LocalReturn ==
  /\ \/ /\ CertGoto("parse", "get")
        /\ notAfter' = IF EnableIAMLogin THEN Earlier(tok, issued) ELSE issued
        /\ priv' = key
        /\ outcomes' = <<>>
        /\ UNCHANGED certErr
     \/ /\ CertGoto("parse", "returned")
        /\ certErr' = "parse"
        /\ UNCHANGED <<notAfter, priv, outcomes>>
  /\ UNCHANGED <<now, optVars, keyVars, pub, tokVars, issued, addr, data, certCalls>>

-----------------------------------------------------------------------------
(* Remote.                                                                 *)

RemoteGot ==
  /\ pc = "get"
  /\ \E o \in Outcomes :
       /\ LastAttempt(o)
       /\ pc' = IF o = "ok" THEN "check" ELSE "returned"
       /\ data' \in IF o = "ok" THEN [region : Regions, ips : InstanceTypes, firstGen : BOOLEAN]
                    ELSE {NoData}
  /\ UNCHANGED <<now, optVars, keyVars, pub, tokVars, notAfter, issued, priv, addr, certCalls>>

\* Mutant: a wrong region is never an error.
RegionIgnored == FALSE

\* "us-central" is taken for "us-central1".
WrongRegion == checkRegion /\ data.region = "other"

\* The error that Remote finds in the instance, in the order it looks for it.
DataError ==
  IF WrongRegion THEN "region"
  ELSE IF data.ips = <<>> THEN "no address"
  ELSE IF data.firstGen THEN "first gen"
  ELSE IF FindIPAddr(data.ips) = 0 THEN "address type" ELSE "nil"

RemoteReturn ==
  /\ CertGoto("check", "returned")
  /\ certErr' \in IF DataError = "nil" THEN {"nil", "parse"} ELSE {DataError}
  /\ addr' = IF DataError = "nil" THEN FindIPAddr(data.ips) ELSE 0
  /\ UNCHANGED <<now, optVars, keyVars, pub, tokVars, outcomes, notAfter, issued, priv,
                 data, certCalls>>

\* refreshCfg returns.
RefreshReturn ==
  /\ CertGoto("returned", "idle")
  /\ outcomes' = <<>>
  /\ certErr' = "nil" /\ addr' = 0 /\ data' = NoData
  /\ pub' = 0 /\ priv' = 0 /\ tok' = 0 /\ notAfter' = 0 /\ issued' = 0
  /\ UNCHANGED <<now, optVars, keyVars, cached, certCalls>>

Tick ==
  /\ now < MaxTime
  /\ now' = now + 1
  /\ UNCHANGED <<optVars, keyVars, pc, pub, tokVars, outcomes, resVars, certErr, certCalls>>

RefreshStep ==
  \/ LocalKey \/ LocalGenerates \/ LocalGenerated \/ LocalToken \/ LocalRefresh \/ LocalReturn
  \/ Retry \/ LocalCreated \/ RemoteGot \/ RemoteReturn

CertNext == BgGenerates \/ BgHasKey \/ LocalCall \/ RefreshStep \/ RefreshReturn \/ Tick

CertSpec == CertInit /\ [][CertNext]_certVars

-----------------------------------------------------------------------------
(* Properties.                                                             *)

\* A call of backoffAPIRetry makes at most Retries attempts, goes on only after
\* server errors, and reports the last outcome, never an earlier one: an error
\* that a retry overcame does not survive.
RetryContract ==
  /\ Len(outcomes) <= Retries
  /\ \A n \in 1..Len(outcomes) - 1 : outcomes[n] = "5xx"
  /\ pc = "returned" /\ certErr \in Errors /\ outcomes # <<>> => certErr = ErrorOf(outcomes[Len(outcomes)])

\* The certificate that Local returns carries the key it was requested for,
\* although the goroutine of NewCertSourceOpts generates the key concurrently.
KeyMatches == priv # 0 => priv = pub

\* With IAM login the proxy's view of the expiry is never later than the token's
\* or the certificate's own, so that it is refreshed before either runs out.
ExpiryBounded ==
  pc \in {"get", "check"} => notAfter <= issued /\ (EnableIAMLogin => notAfter <= tok)

\* The address that Remote returns is of a type that the user listed, and the
\* instance has none of a type listed before it.
PreferredAddress ==
  pc = "returned" /\ certErr = "nil" =>
    \E n \in DOMAIN types :
      /\ Upper(data.ips[addr]) = Upper(types[n])
      /\ \A m \in 1..n - 1, k \in DOMAIN data.ips : Upper(data.ips[k]) # Upper(types[m])

\* Remote succeeds only for an instance the proxy can connect to: in the region
\* of its name if that is checked, of the second generation, with an address.
RemoteIsSound ==
  pc = "returned" /\ certErr = "nil" =>
    /\ checkRegion => data.region # "other"
    /\ ~data.firstGen
    /\ addr \in DOMAIN data.ips

\* What a refreshCfg gets is right: the certificate of Local carries the key it
\* was requested for and expires with its token, and Remote succeeds only for an
\* instance the proxy can connect to, with the address the user prefers.
RefreshIsSound == KeyMatches /\ ExpiryBounded /\ RemoteIsSound /\ PreferredAddress
=============================================================================

------------------------------ MODULE Startup ------------------------------
(***************************************************************************)
(* How the proxy starts (main of src/cmd/cloud_sql_proxy/                  *)
(* cloud_sql_proxy.go): what it does with the flags, checkFlags,           *)
(* authenticatedClient, the entries parsed one after the other and checked *)
(* together by CreateInstanceConfigs, the health check server and the      *)
(* source of connections, with an HTTP client that probes the health check *)
(* server meanwhile.                                                       *)
(*                                                                         *)
(* The flags that are read more than once are in Init; the others, and the *)
(* answers of the environment, are chosen where the code reads them.       *)
(***************************************************************************)
EXTENDS InstanceConfig

CONSTANTS
  Setups,     \* the list that -instances or INSTANCES holds (<<>> for none), the TCP
              \* families that work on the machine, and which of "file", "token"
              \* (flags) and "env" (variable) give credentials
  Listed,     \* non-empty lists that listInstances may return
  Throttles,  \* values -refresh_config_throttle may have
  MinThrottle,\* minimumRefreshCfgThrottle
  IAMThrottle,\* IAMLoginRefreshThrottle
  MaxProbes   \* bound: number of requests to the health check server

Families == {"tcp4", "tcp6"}
Given == {"file", "token", "env"}
Setup == [insts : Seq(Entries), tcp : SUBSET Families, given : SUBSET Given]
NonEmptyLists == Seq(Entries) \ {<<>>}

\* No entry names the socket of Postgres itself, and an address with a port or
\* an absolute path is no bare loopback address.
ASSUME StartupAssumption ==
  /\ ".s.PGSQL.5432" \notin Words
  /\ HostPort \cap {"127.0.0.1", "::1"} = {} /\ Absolute \cap {"127.0.0.1", "::1"} = {}
  /\ Windows \in BOOLEAN
  /\ Setups \subseteq Setup /\ Listed \subseteq NonEmptyLists
  /\ Throttles \subseteq Nat
  /\ MinThrottle \in Nat /\ IAMThrottle \in Nat /\ MinThrottle <= IAMThrottle
  /\ MaxProbes \in Nat

VARIABLES
  flags,    \* dir, fuse, metadata (-instances_metadata), skip and projects
  tcp,      \* the TCP families that work
  pc,       \* control point of main; "run" is proxyClient.Run, "exit" is the end
  instList, \* the list of instances
  gce,      \* metadata.OnGCE()
  given,    \* what gives credentials
  gcloud,   \* history: what each call of GcloudConfig ended with
  scopes,   \* what metadata.Scopes said, "unknown" if it was not asked
  creds,    \* the credentials in use
  rest,     \* the entries parseInstanceConfigs has still to parse
  cfgs,     \* the configurations so far
  errs,     \* there was an error that counts
  dirs,     \* directories made for Postgres sockets
  throttle, \* the client's RefreshCfgThrottle, 0 before there is a client
  hc,       \* the health check server: "none", "open" (started is open) or "closed"
  source,   \* the source of connections is open
  full,     \* AvailableConn() is FALSE
  probe     \* the request to the health check server being handled

parseVars == <<rest, cfgs, errs, dirs>>
authVars == <<gce, given, gcloud, scopes, creds>>
serveVars == <<throttle, hc, source, full, probe>>
vars == <<flags, tcp, pc, instList, authVars, parseVars, serveVars>>

Gclouds == {"ok", "no project", "not found", "failed"}
Flags == [dir : BOOLEAN, fuse : BOOLEAN, metadata : BOOLEAN, skip : BOOLEAN, projects : BOOLEAN]
Probes == [at : {"none", "handler", "available", "answered"},
           path : {"none", "startup", "readiness", "liveness"}, ok : BOOLEAN, n : 0..MaxProbes]
NoProbe == [at |-> "none", path |-> "none", ok |-> FALSE, n |-> 0]

Pcs == {"host", "project", "flags", "auth", "list", "configs", "parse", "client",
        "health", "source", "notify", "run", "exit"}

\* Every variable has its type; the client of a proxy
\* that serves has at least the minimum throttle.
TypeOK ==
  /\ flags \in Flags
  /\ pc \in Pcs
  /\ given \subseteq Given
  /\ gcloud \in Seq(Gclouds) /\ Len(gcloud) <= 3
  /\ scopes \in {"unknown", "ok", "lacking"}
  /\ creds \in {"none", "file", "token", "env", "gcloud", "default"}
  /\ tcp \subseteq Families
  /\ instList \in Seq(Entries) /\ rest \in Seq(Entries)
  /\ cfgs \in Seq(Configs) /\ dirs \subseteq Seq(Tokens)
  /\ gce \in BOOLEAN /\ errs \in BOOLEAN /\ source \in BOOLEAN /\ full \in BOOLEAN
  /\ throttle \in Nat /\ (throttle >= MinThrottle \/ (throttle = 0 /\ ~source))
  /\ hc \in {"none", "open", "closed"}
  /\ probe \in Probes

Init ==
  /\ flags \in Flags
  /\ \E s \in Setups : instList = s.insts /\ tcp = s.tcp /\ given = s.given
  /\ pc = "host"
  /\ gce = FALSE
  /\ gcloud = <<>>
  /\ scopes = "unknown"
  /\ creds = "none"
  /\ rest = <<>>
  /\ cfgs = <<>>
  /\ errs = FALSE
  /\ dirs = {}
  /\ throttle = 0
  /\ hc = "none"
  /\ source = FALSE
  /\ full = FALSE
  /\ probe = NoProbe

-----------------------------------------------------------------------------
(* The flags and the credentials.                                          *)

Goto(from, to) == pc = from /\ pc' = to
Exit(from) == Goto(from, "exit")

\* -host may lack its last "/".
CheckHost ==
  /\ Goto("host", "project") \/ Exit("host")
  /\ UNCHANGED <<flags, tcp, instList, authVars, parseVars, serveVars>>

NothingSelected == instList = <<>> /\ ~flags.metadata /\ ~flags.projects /\ ~flags.fuse

\* gcloudProject returns a project.
HasProject(g) == g = "ok"

\* gcloudProject is called if nothing says which instances to connect to.
GcloudProject ==
  /\ \/ ~NothingSelected /\ Goto("project", "flags") /\ UNCHANGED <<flags, gcloud>>
     \/ /\ NothingSelected
        /\ \E g \in Gclouds :
             /\ gcloud' = Append(gcloud, g)
             /\ IF HasProject(g) THEN Goto("project", "flags") /\ flags' = [flags EXCEPT !.projects = TRUE]
                ELSE Exit("project") /\ UNCHANGED flags
  /\ UNCHANGED <<tcp, instList, gce, given, scopes, creds, parseVars, serveVars>>

\* checkFlags, where it does not ask for the scopes.
CheckFlags ==
  /\ pc = "flags"
  /\ gce' \in BOOLEAN
  /\ \/ ~gce' /\ flags.metadata /\ Exit("flags") /\ UNCHANGED gcloud
     \/ ~gce' /\ ~flags.metadata /\ Goto("flags", "auth") /\ UNCHANGED gcloud
     \/ gce' /\ given # {} /\ Goto("flags", "auth") /\ UNCHANGED gcloud
     \/ /\ gce' /\ given = {} /\ Goto("flags", "auth")
        /\ \E g \in {"ok", "no project"} : gcloud' = Append(gcloud, g)
  /\ UNCHANGED <<flags, tcp, instList, given, scopes, creds, parseVars, serveVars>>

\* Mutant: the scopes are not looked at.
CheckScopesIgnored ==
  /\ pc = "flags" /\ gce' = TRUE /\ given = {}
  /\ \E g \in {"not found", "failed"} : gcloud' = Append(gcloud, g)
  /\ Goto("flags", "auth") /\ scopes' = "lacking"
  /\ UNCHANGED <<flags, tcp, instList, given, creds, parseVars, serveVars>>

\* checkFlags, where gcloud is of no use and the scopes decide.
CheckScopes ==
  /\ pc = "flags" /\ gce' = TRUE /\ given = {}
  /\ \E g \in {"not found", "failed"} : gcloud' = Append(gcloud, g)
  /\ \/ Goto("flags", "auth") /\ scopes' = "ok"
     \/ Exit("flags") /\ scopes' \in {"lacking", "unknown"}
  /\ UNCHANGED <<flags, tcp, instList, given, creds, parseVars, serveVars>>

\* authenticatedClientFromPath: the file may be of no use.
AuthenticatedClientFromPath == Goto("auth", "list") \/ Exit("auth")

\* authenticatedClient with credentials given by flags or by the
\* environment, in this order.
AuthGiven ==
  /\ given # {}
  /\ creds' = CASE "file" \in given -> "file"
                [] "file" \notin given /\ "token" \in given -> "token"
                [] given = {"env"} -> "env"
  /\ IF creds' = "token" THEN Goto("auth", "list") ELSE AuthenticatedClientFromPath
  /\ UNCHANGED <<flags, tcp, instList, gce, given, gcloud, scopes, parseVars, serveVars>>

\* authenticatedClient with those of gcloud, or else the default ones.
AuthFound ==
  /\ given = {}
  /\ \E g \in Gclouds :
       /\ gcloud' = Append(gcloud, g)
       /\ \/ g \in {"ok", "no project"} /\ creds' = "gcloud" /\ Goto("auth", "list")
          \/ g \in {"not found", "failed"} /\ creds' = "default" /\ Goto("auth", "list")
          \/ g \in {"not found", "failed"} /\ creds' = "none" /\ Exit("auth")
  /\ UNCHANGED <<flags, tcp, instList, gce, given, scopes, parseVars, serveVars>>

\* listInstances.
ListProjects ==
  /\ \/ ~flags.projects /\ Goto("list", "configs") /\ UNCHANGED instList
     \/ flags.projects /\ Exit("list") /\ UNCHANGED instList
     \/ /\ flags.projects /\ Goto("list", "configs")
        /\ \E ins \in Listed : instList' = instList \o ins
  /\ UNCHANGED <<flags, tcp, authVars, parseVars, serveVars>>

-----------------------------------------------------------------------------
(* CreateInstanceConfigs.                                                  *)

\* fuse.Supported() may be FALSE.
CreateInstanceConfigs ==
  /\ \/ Goto("configs", "parse") /\ rest' = instList
     \/ flags.fuse /\ Exit("configs") /\ UNCHANGED rest
  /\ UNCHANGED <<flags, tcp, instList, authVars, cfgs, errs, dirs, serveVars>>

\* Mutant: with -skip_failed_instance_config the loop does not go on.
NextEntryStuck(fails) == rest' = IF fails /\ flags.skip THEN rest ELSE Tail(rest)

NextEntry(fails) == rest' = Tail(rest)

\* Mutant: an error is always skipped.
CountsNever == FALSE

Counts == ~flags.skip

\* One iteration of parseInstanceConfigs.
ParseEntry ==
  /\ pc = "parse" /\ rest # <<>>
  /\ LET e == Head(rest) IN
     \/ Empty(e) /\ NextEntry(FALSE) /\ UNCHANGED <<cfgs, errs, dirs>>
     \/ /\ ~Empty(e)
        /\ \E answer \in IF Asked(e, tcp) THEN Answers ELSE {"error"} :
             /\ NextEntry(~Parses(e, tcp, answer))
             /\ cfgs' = IF Parses(e, tcp, answer) THEN Append(cfgs, ConfigOf(e, tcp, answer)) ELSE cfgs
             /\ errs' = (errs \/ (~Parses(e, tcp, answer) /\ Counts))
             /\ dirs' = IF MakesDir(e, tcp, answer)
                        THEN dirs \cup {Dir(Address(e, tcp, answer))} ELSE dirs
  /\ UNCHANGED <<flags, tcp, pc, instList, authVars, serveVars>>

UnixConfig == \E n \in DOMAIN cfgs : cfgs[n].network = "unix"

\* -fuse, -instances_metadata and Unix sockets need -dir.
NeedsDir == flags.fuse \/ flags.metadata \/ UnixConfig

\* Mutant: instances beside -fuse are not looked for.
ConfigsRefusedLess ==
  \/ errs
  \/ ~flags.dir /\ NeedsDir
  \/ flags.fuse /\ flags.metadata
  \/ ~flags.fuse /\ instList = <<>> /\ ~flags.metadata

\* The checks after the loop; with -fuse no configuration is returned.
ConfigsRefused ==
  \/ errs
  \/ ~flags.dir /\ NeedsDir
  \/ flags.fuse /\ (instList # <<>> \/ flags.metadata)
  \/ ~flags.fuse /\ instList = <<>> /\ ~flags.metadata

CombineConfigs ==
  /\ rest = <<>>
  /\ IF ConfigsRefused THEN Goto("parse", "exit") ELSE Goto("parse", "client")
  /\ cfgs' = IF ConfigsRefused \/ flags.fuse THEN <<>> ELSE cfgs
  /\ UNCHANGED <<flags, tcp, instList, authVars, rest, errs, dirs, serveVars>>

-----------------------------------------------------------------------------
(* The health check server and the source of connections.                  *)

\* Mutant: the minimum is not applied.
ThrottleOf(flag, iam) == IF iam THEN IAMThrottle ELSE flag

RefreshCfgThrottle(flag, iam) ==
  IF iam THEN IAMThrottle ELSE IF flag < MinThrottle THEN MinThrottle ELSE flag

\* The proxy.Client, with or without -enable_iam_login.
NewClient ==
  /\ Goto("client", "health")
  /\ \E flag \in Throttles, iam \in BOOLEAN : throttle' = RefreshCfgThrottle(flag, iam)
  /\ UNCHANGED <<flags, tcp, instList, authVars, parseVars, hc, source, full, probe>>

\* NewServer, if -use_http_health_check is set; its port may be taken.
NewServer ==
  /\ \/ Goto("health", "source") /\ hc' \in {"none", "open"}
     \/ Exit("health") /\ UNCHANGED hc
  /\ UNCHANGED <<flags, tcp, instList, authVars, parseVars, throttle, source, full, probe>>

\* NewConnSrc or WatchInstances.
OpenSource ==
  /\ \/ Goto("source", "notify") /\ source' = TRUE
     \/ Exit("source") /\ UNCHANGED source
  /\ UNCHANGED <<flags, tcp, instList, authVars, parseVars, throttle, hc, full, probe>>

NotifyStarted ==
  /\ Goto("notify", "run")
  /\ hc' = IF hc = "none" THEN "none" ELSE "closed"
  /\ UNCHANGED <<flags, tcp, instList, authVars, parseVars, throttle, source, full, probe>>

\* Clients come and go: the limit on connections is reached or left.
ConnectionsChange ==
  /\ pc = "run" /\ hc # "none"
  /\ full' = ~full
  /\ UNCHANGED <<flags, tcp, pc, instList, authVars, parseVars, throttle, hc, source, probe>>

Probe ==
  /\ hc # "none" /\ pc # "exit"
  /\ probe.at \in {"none", "answered"} /\ probe.n < MaxProbes
  /\ \E path \in {"startup", "readiness", "liveness"} :
       probe' = [at |-> "handler", path |-> path, ok |-> FALSE, n |-> probe.n + 1]
  /\ UNCHANGED <<flags, tcp, pc, instList, authVars, parseVars, throttle, hc, source, full>>

Answered(ok) == probe' = [probe EXCEPT !.at = "answered", !.ok = ok]

\* Mutant: started is waited for only where it has been asked for.
ProxyStartedAssumed == probe.path = "readiness" \/ hc = "closed"

ProxyStarted == hc = "closed"

\* isReady, up to its look at the connections.
IsReady ==
  \/ ~ProxyStarted /\ Answered(FALSE)
  \/ ProxyStarted /\ probe' = [probe EXCEPT !.at = "available"]

\* The handlers of the three paths.
HandleProbe ==
  /\ probe.at = "handler" /\ pc # "exit"
  /\ \/ probe.path = "liveness" /\ Answered(TRUE)
     \/ probe.path = "startup" /\ Answered(ProxyStarted)
     \/ probe.path = "readiness" /\ IsReady
  /\ UNCHANGED <<flags, tcp, pc, instList, authVars, parseVars, throttle, hc, source, full>>

\* The answer of /readiness, by the counter of connections as it is then.
AvailableConn ==
  /\ probe.at = "available" /\ pc # "exit"
  /\ Answered(~full)
  /\ UNCHANGED <<flags, tcp, pc, instList, authVars, parseVars, throttle, hc, source, full>>

Main ==
  \/ CheckHost \/ GcloudProject \/ CheckFlags \/ CheckScopes \/ AuthGiven \/ AuthFound
  \/ ListProjects \/ CreateInstanceConfigs \/ ParseEntry \/ CombineConfigs
  \/ NewClient \/ NewServer \/ OpenSource \/ NotifyStarted

Next == Main \/ ConnectionsChange \/ Probe \/ HandleProbe \/ AvailableConn

Spec == Init /\ [][Next]_vars

\* main keeps running, and the API and the machine answer it.
FairSpec == Spec /\ WF_vars(Main)
-----------------------------------------------------------------------------
(* Properties.                                                             *)

\* A proxy that serves has one source of instances and what that source
\* needs: with -fuse a directory and nothing else, with -instances_metadata a
\* directory and a GCE machine, and a directory for every Unix socket.
ModeIsSound ==
  source =>
    /\ flags.fuse => flags.dir /\ ~flags.metadata /\ ~flags.projects /\ instList = <<>>
    /\ flags.metadata => flags.dir /\ gce
    /\ UnixConfig => flags.dir
    /\ ~flags.fuse => flags.metadata \/ instList # <<>>

\* The machine's default credentials are used on GCE only if their scopes
\* suffice, or if gcloud worked when checkFlags asked and no longer when
\* authenticatedClient did.
DefaultIsChecked ==
  gce /\ creds = "default" =>
    \/ scopes = "ok"
    \/ Len(gcloud) > 1 /\ gcloud[Len(gcloud) - 1] \in {"ok", "no project"}

\* A configuration that parseInstanceConfigs keeps is for a network of this
\* machine, its loopback address belongs to a family that works, and the
\* directory of a Postgres socket has been made.
ConfigsUsable ==
  \A n \in DOMAIN cfgs :
    LET c == cfgs[n] IN
    /\ c.network \in ValidNets(tcp)
    /\ Head(c.address) = "127.0.0.1" => "tcp4" \in tcp
    /\ Head(c.address) = "::1" => "tcp6" \in tcp
    /\ c.address[Len(c.address)] = ".s.PGSQL.5432" => Dir(c.address) \in dirs

\* The instances of the configurations cs are, in the order of the list, some of
\* its first n entries, or all of these that are not empty.
Serves(list, cs, n, all) ==
  LET asked == {m \in 1..n : ~Empty(list[m])} IN
  \E from \in [DOMAIN cs -> asked] :
    /\ \A i \in DOMAIN cs : cs[i].instance = list[from[i]].name
    /\ \A i, j \in DOMAIN cs : i < j => from[i] < from[j]
    /\ all => Range(from) = asked

\* Without -skip_failed_instance_config a proxy that serves listens for every
\* instance asked for or listed, in that order; with it, for some of them.
AsksAreServed == source /\ ~flags.fuse => Serves(instList, cfgs, Len(instList), ~flags.skip)

\* A 200 from /startup or /readiness is only given when the source of
\* connections is open, however the request and main interleave.
ReadyMeansServing ==
  probe.at = "answered" /\ probe.ok /\ probe.path # "liveness" => source

\* main comes to serve or gives up.
StartupDecides == <>(pc \in {"run", "exit"})

-----------------------------------------------------------------------------
(* The inductive invariant behind the safety properties.                   *)

\* main has the instances, and main has its configurations.
Listing == {"configs", "parse"}
Serving == {"client", "health", "source", "notify", "run"}

\* How often gcloud has been asked, and what checkFlags leaves to
\* authenticatedClient.
AuthInv ==
  /\ pc \in {"host", "project"} => Len(gcloud) <= 0
  /\ pc = "flags" => Len(gcloud) <= 1
  /\ pc = "auth" => Len(gcloud) <= 2
  /\ pc \in {"host", "project", "flags", "auth"} => creds = "none"
  /\ pc = "auth" /\ gce /\ given = {} =>
       scopes = "ok" \/ (gcloud # <<>> /\ gcloud[Len(gcloud)] \in {"ok", "no project"})
  /\ pc \in {"auth", "list"} \cup Listing \cup Serving /\ flags.metadata => gce
  /\ DefaultIsChecked

\* What CreateInstanceConfigs makes sure of holds from then on.
ModeInv ==
  /\ source <=> pc \in {"notify", "run"}
  /\ pc \in Serving \ {"client"} => throttle >= MinThrottle
  /\ pc \in Listing \cup Serving /\ flags.projects => instList # <<>>
  /\ pc \in Serving =>
       /\ flags.fuse => flags.dir /\ ~flags.metadata /\ instList = <<>>
       /\ flags.metadata => flags.dir
       /\ UnixConfig => flags.dir
       /\ ~flags.fuse => flags.metadata \/ instList # <<>>

\* parseInstanceConfigs has served the entries it has left behind.
ParseInv ==
  /\ pc \notin {"parse", "exit"} \cup Serving => cfgs = <<>> /\ ~errs
  /\ pc = "parse" =>
       /\ Len(rest) <= Len(instList)
       /\ \A k \in DOMAIN rest : rest[k] = instList[Len(instList) - Len(rest) + k]
       /\ Serves(instList, cfgs, Len(instList) - Len(rest), ~flags.skip /\ ~errs)
  /\ pc \in Serving /\ ~flags.fuse => Serves(instList, cfgs, Len(instList), ~flags.skip)

\* What the handlers of the health check server have seen of main.
ProbeInv ==
  /\ hc = "closed" => source
  /\ probe.at = "available" => source
  /\ ReadyMeansServing

StartInv == TypeOK /\ AuthInv /\ ModeInv /\ ParseInv /\ ConfigsUsable /\ ProbeInv
=============================================================================

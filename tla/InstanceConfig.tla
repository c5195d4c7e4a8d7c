--------------------------- MODULE InstanceConfig ---------------------------
(***************************************************************************)
(* How an entry of -instances becomes a socket to listen on: SplitName     *)
(* (src/proxy/util/cloudsqlutil.go), ParseInstanceConnectionName           *)
(* (src/proxy/proxy/client.go), validNets, parseTCPOpts and                *)
(* parseInstanceConfig (src/cmd/cloud_sql_proxy/proxy.go).                 *)
(*                                                                         *)
(* A string is given split at the separators the code splits it at.  An    *)
(* entry "a:b:c=tcp:1" is                                                  *)
(*   [name |-> <<"a", "b", "c">>, opts |-> <<"tcp", "1">>, extra |-> FALSE]*)
(* where opts is <<>> if there is no "=", and extra says there is another. *)
(***************************************************************************)
EXTENDS Naturals, Sequences, Functions

CONSTANTS
  Words,     \* what an entry is made of
  Dotted,    \* first components that contain a "."
  HostPort,  \* addresses that contain a ":"
  Absolute,  \* paths that start with "/"
  Windows    \* runtime.GOOS = "windows"

Entries == [name : Seq(Words), opts : Seq(Words), extra : BOOLEAN]

\* What a path or an address is made of, and what an instanceConfig is.
Tokens == Words \cup {"dir", "127.0.0.1", "::1", ".s.PGSQL.5432"}
Networks == {"unix", "tcp", "tcp4", "tcp6"}
Configs == [instance : Seq(Words), network : Networks, address : Seq(Tokens)]

\* What the Admin API says of an instance, or "mkdir" for a Postgres
\* instance whose directory cannot be made.
Answers == {"error", "FIRST_GEN", "mysql", "postgres", "mkdir"}

Empty(e) == e.name = <<"">> /\ e.opts = <<>> /\ ~e.extra

\* A project with a "." in its first component takes the next one as well.
\* What follows the third component is dropped.
SplitName(parts) ==
  LET proj == SubSeq(parts, 1, IF parts[1] \in Dotted THEN 2 ELSE 1)
      rest == SubSeq(parts, Len(proj) + 1, Len(parts))
  IN IF Len(parts) < 2 \/ rest = <<>> THEN [project |-> <<>>, region |-> "", name |-> parts]
     ELSE IF Len(rest) = 1 THEN [project |-> proj, region |-> "", name |-> rest]
     ELSE [project |-> proj, region |-> rest[1], name |-> <<rest[2]>>]

\* ParseInstanceConnectionName returns no error.
NameParses(e) ==
  LET s == SplitName(e.name)
  IN ~e.extra /\ s.project \notin {<<>>, <<"">>} /\ s.region # "" /\ s.name # <<"">>

\* The networks that work, on a machine where the families of tcp do.
ValidNets(tcp) ==
  (IF Windows THEN {} ELSE {"unix"}) \cup tcp \cup (IF tcp = {} THEN {} ELSE {"tcp"})

\* Mutant: the loopback address of "tcp" is always that of tcp4.
LoopbackTCP4(tcp) ==
  [n \in {"tcp4", "tcp6"} \cup (IF tcp = {} THEN {} ELSE {"tcp"}) |->
     IF n = "tcp6" THEN "::1" ELSE "127.0.0.1"]

\* loopbackForNet after validNets is initialised.
LoopbackForNet(tcp) ==
  [n \in {"tcp4", "tcp6"} \cup (IF tcp = {} THEN {} ELSE {"tcp"}) |->
     IF n = "tcp6" \/ (n = "tcp" /\ "tcp4" \notin tcp) THEN "::1" ELSE "127.0.0.1"]

Network(e) == IF e.opts = <<>> THEN "unix" ELSE e.opts[1]

\* The address for a TCP network, <<>> if there is no host in it and no
\* loopback address for the network.
ParseTCPOpts(net, addr, tcp) ==
  IF addr \in HostPort THEN <<addr>>
  ELSE IF net \in DOMAIN LoopbackForNet(tcp) THEN <<LoopbackForNet(tcp)[net], addr>> ELSE <<>>

\* The options of e, if there are any, are a network and an address for it.
OptsParse(e, tcp) ==
  \/ e.opts = <<>>
  \/ /\ Len(e.opts) = 2
     /\ e.opts[1] = "unix" \/ ParseTCPOpts(e.opts[1], e.opts[2], tcp) # <<>>

\* The path or the host and port to listen on.
Address(e, tcp, answer) ==
  LET path == IF e.opts = <<>> THEN <<"dir">> \o e.name
              ELSE IF e.opts[2] \in Absolute THEN <<e.opts[2]>> ELSE <<"dir", e.opts[2]>>
  IN IF Network(e) # "unix" THEN ParseTCPOpts(e.opts[1], e.opts[2], tcp)
     ELSE IF answer = "postgres" THEN Append(path, ".s.PGSQL.5432") ELSE path

\* The directory of a path.
Dir(path) == SubSeq(path, 1, Len(path) - 1)

\* The Admin API is asked about e.
Asked(e, tcp) == NameParses(e) /\ OptsParse(e, tcp)

\* MkdirAll makes a directory for e.
MakesDir(e, tcp, answer) == Asked(e, tcp) /\ Network(e) = "unix" /\ answer = "postgres"

\* parseInstanceConfig returns no error.
Parses(e, tcp, answer) ==
  /\ Asked(e, tcp)
  /\ answer \notin {"error", "FIRST_GEN"}
  /\ answer = "mkdir" => Network(e) # "unix"
  /\ Network(e) \in ValidNets(tcp)

\* The instanceConfig it returns.
ConfigOf(e, tcp, answer) ==
  [instance |-> e.name, network |-> Network(e), address |-> Address(e, tcp, answer)]
=============================================================================

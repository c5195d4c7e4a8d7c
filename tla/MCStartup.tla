----------------------------- MODULE MCStartup -----------------------------
(* Instances of Startup for TLC. *)
EXTENDS Startup

Entry(name, opts) == [name |-> name, opts |-> opts, extra |-> FALSE]

Blank == Entry(<<"">>, <<>>)
Unix == Entry(<<"p", "r", "u">>, <<>>)
Tcp == Entry(<<"p", "r", "t">>, <<"tcp", "3306">>)

SomeWords ==
  {"", "p", "r", "u", "t", "l", "i", "s", "google.com", "1", "3306", "0.0.0.0:3306", "/tmp/s",
   "unix", "tcp", "tcp4", "tcp6", "udp"}
DottedNames == {"google.com"}
HostPorts == {"0.0.0.0:3306"}
AbsolutePaths == {"/tmp/s"}

\* No list, one socket of each kind, a list of empty entries (","), and one
\* with an entry that never parses.
ModeLists == {<<>>, <<Unix>>, <<Tcp>>, <<Blank, Blank>>, <<Entry(<<"i">>, <<>>), Tcp>>}
OneListed == {<<Entry(<<"p", "r", "l">>, <<>>)>>}

\* Entries of every form, right and wrong.
Forms ==
  {Unix, Tcp, Blank,
   Entry(<<"google.com", "p", "r", "i">>, <<>>), Entry(<<"google.com", "p", "i">>, <<>>),
   Entry(<<"google.com", "p">>, <<>>), Entry(<<"p", "i">>, <<>>), Entry(<<"i">>, <<>>),
   Entry(<<"", "r", "i">>, <<>>), Entry(<<"p", "r", "">>, <<>>),
   Entry(<<"p", "r", "i">>, <<"unix", "s">>), Entry(<<"p", "r", "i">>, <<"unix", "/tmp/s">>),
   Entry(<<"p", "r", "i">>, <<"tcp4", "1">>), Entry(<<"p", "r", "i">>, <<"tcp6", "1">>),
   Entry(<<"p", "r", "i">>, <<"tcp", "0.0.0.0:3306">>), Entry(<<"p", "r", "i">>, <<"udp", "1">>),
   Entry(<<"p", "r", "i">>, <<"udp", "0.0.0.0:3306">>), Entry(<<"p", "r", "i">>, <<"tcp">>),
   [Unix EXCEPT !.extra = TRUE]}

\* Each form alone, and lists with the wrong one at the start, amid and at the end.
FormLists ==
  {<<e>> : e \in Forms} \cup
  {<<Blank, Unix, Tcp>>, <<Entry(<<"i">>, <<>>), Tcp, Unix>>, <<Tcp, Entry(<<"p", "i">>, <<>>), Unix>>,
   <<Unix, Tcp, [Unix EXCEPT !.extra = TRUE]>>}

TCPLists == {<<e>> : e \in {f \in Forms : f.opts # <<>> /\ f.opts[1] # "unix"}}

\* The lists of ModeLists with credentials of every kind, those of FormLists, and
\* those for TCP on machines where not all of it works.
SomeSetups ==
  [insts: ModeLists, tcp: {{"tcp4", "tcp6"}},
   given: {{}, {"env"}, {"token", "env"}, {"file", "token"}}] \cup
  [insts: FormLists, tcp: {{"tcp4", "tcp6"}}, given: {{"token"}}] \cup
  [insts: TCPLists, tcp: {{}, {"tcp4"}, {"tcp6"}}, given: {{"token"}}]
=============================================================================

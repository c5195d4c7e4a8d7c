------------------------------- MODULE MCParts -------------------------------
(* Instances of Parts for TLC. *)
EXTENDS Parts

CONSTANTS s, a, b, path, path2, port

SomeAddrTypes == {"private", "PRIVATE", "PUBLIC", "PRIMARY", "OUTGOING"}

\* The default, and the private type only.
SomeUserTypes == {<<>>, <<"private">>}

\* An instance without addresses, one that lacks the private type, and one with
\* both in the other order.
SomeInstanceTypes == {<<>>, <<"OUTGOING", "PRIMARY">>, <<"PRIVATE", "PRIMARY">>}

\* The static instance is on a path.
C(i, x) == [inst |-> i, addr |-> x]
OneStatic == <<C(s, path)>>
NoStatic == <<>>

\* Lists that an operator may set one after the other: instances are added,
\* dropped and moved, take the address of another one, share one, and are listed
\* twice, with the same address or with two.
SomeLists ==
  {<<>>, <<C(a, path2)>>, <<C(s, path), C(b, port)>>, <<C(a, path2), C(b, port)>>,
   <<C(b, port), C(b, port)>>, <<C(a, port), C(b, path)>>,
   <<C(a, path2), C(a, path2)>>, <<C(b, port), C(b, path2)>>}

\* Lists that name one instance each: the address moves from one to the other.
MovingAddr == {<<C(a, path2)>>, <<C(b, path2)>>}

Second(name) == [name |-> name, secondGen |-> TRUE]
First(name) == [name |-> name, secondGen |-> FALSE]

\* Two pages, one of them with a first generation instance; one page; a page
\* without an instance to send.
SomeProjects == {"a", "b", "c"}
SomeNames == {"a1", "a2", "a3", "a4", "b1", "b2", "c1"}
SomePages ==
  [p \in SomeProjects |->
     CASE p = "a" -> <<<<Second("a1"), First("a2"), Second("a3")>>, <<Second("a4")>>>>
       [] p = "b" -> <<<<Second("b1"), Second("b2")>>>>
       [] p = "c" -> <<<<First("c1")>>>>]

SomeDialers == {"d1", "d2"}
SomeIniters == {"i1"}
=============================================================================

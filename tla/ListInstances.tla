---------------------------- MODULE ListInstances ----------------------------
(***************************************************************************)
(* listInstances of src/cmd/cloud_sql_proxy/cloud_sql_proxy.go: a          *)
(* goroutine per project pages through its instances and sends the names   *)
(* on an unbuffered channel, another one closes the channel when the       *)
(* WaitGroup is done, and the caller collects.                             *)
(***************************************************************************)
EXTENDS Naturals, Sequences, FiniteSets, Functions

CONSTANTS
  Projects,         \* the projects listed; not empty
  ConnectionNames,  \* the names of their instances
  Pages             \* the pages of each: sequences of instances

\* The API gives every instance a name of its own, and lists it once.
ASSUME ListAssumption ==
  /\ IsFiniteSet(Projects)
  /\ Pages \in [Projects -> Seq(Seq([name : ConnectionNames, secondGen : BOOLEAN]))]
  /\ \A p, q \in Projects : \A j \in DOMAIN Pages[p], l \in DOMAIN Pages[q] :
       \A k \in DOMAIN Pages[p][j], m \in DOMAIN Pages[q][l] :
         Pages[p][j][k].name = Pages[q][l][m].name => p = q /\ j = l /\ k = m

VARIABLES
  listPc,  \* control point of the goroutine of each project
  page,    \* number of pages it has had
  item,    \* number of instances of the last one it is done with
  failed,  \* history: projects for which the API gave an error
  wg,      \* the WaitGroup's counter
  closed,  \* ch is closed
  ret,     \* what the caller has received
  result   \* "none", "ok" or "error"

listVars == <<listPc, page, item, failed, wg, closed, ret, result>>

\* The second generation instances of a project.
AllNames(p) ==
  {n \in ConnectionNames : \E j \in DOMAIN Pages[p] : \E k \in DOMAIN Pages[p][j] :
     Pages[p][j][k].secondGen /\ Pages[p][j][k].name = n}

\* Every variable has its type.
ListTypeOK ==
  /\ listPc \in [Projects -> {"call", "send", "ended"}]
  /\ page \in [Projects -> Nat] /\ \A p \in Projects : page[p] <= Len(Pages[p])
  /\ item \in [Projects -> Nat]
  /\ failed \subseteq Projects
  /\ wg \in 0..Cardinality(Projects)
  /\ closed \in BOOLEAN
  /\ ret \in Seq(UNION {AllNames(p) : p \in Projects})
  /\ result \in {"none", "ok", "error"}

ListInit ==
  /\ listPc = [p \in Projects |-> "call"]
  /\ page = [p \in Projects |-> 0]
  /\ item = [p \in Projects |-> 0]
  /\ failed = {}
  /\ wg = Cardinality(Projects)
  /\ closed = FALSE
  /\ ret = <<>>
  /\ result = "none"

\* Pages calls the callback with the next page.
NextPage(p) ==
  /\ listPc[p] = "call" /\ page[p] < Len(Pages[p])
  /\ page' = [page EXCEPT ![p] = @ + 1]
  /\ item' = [item EXCEPT ![p] = 0]
  /\ listPc' = [listPc EXCEPT ![p] = "send"]
  /\ UNCHANGED <<failed, wg, closed, ret, result>>

\* The page the callback of p works on, and the next instance on it.
Items(p) == Pages[p][page[p]]
Item(p) == Items(p)[item[p] + 1]

\* Mutant: the callback returns after it has sent a name.
SendFirst(p) ==
  /\ listPc[p] = "send" /\ item[p] < Len(Items(p)) /\ Item(p).secondGen
  /\ ~closed /\ result = "none"
  /\ ret' = Append(ret, Item(p).name)
  /\ item' = [item EXCEPT ![p] = Len(Items(p))]
  /\ UNCHANGED <<listPc, page, failed, wg, closed, result>>

\* A send and the caller's receive; a send on a closed channel panics.
Send(p) ==
  /\ listPc[p] = "send" /\ item[p] < Len(Items(p)) /\ Item(p).secondGen
  /\ ~closed /\ result = "none"
  /\ ret' = Append(ret, Item(p).name)
  /\ item' = [item EXCEPT ![p] = @ + 1]
  /\ UNCHANGED <<listPc, page, failed, wg, closed, result>>

\* First generation instances are left out.
Skip(p) ==
  /\ listPc[p] = "send" /\ item[p] < Len(Items(p)) /\ ~Item(p).secondGen
  /\ item' = [item EXCEPT ![p] = @ + 1]
  /\ UNCHANGED <<listPc, page, failed, wg, closed, ret, result>>

\* The callback returns.
PageSent(p) ==
  /\ listPc[p] = "send" /\ item[p] = Len(Items(p))
  /\ listPc' = [listPc EXCEPT ![p] = "call"]
  /\ UNCHANGED <<page, item, failed, wg, closed, ret, result>>

\* Mutant: wg.Done is missing where there is an error.
DoneUnlessFailed(p) == IF p \in failed' THEN wg ELSE wg - 1

Done(p) == wg - 1

\* There are no more pages, or the API gives an error, which is logged.
EndProject(p) ==
  /\ listPc[p] = "call"
  /\ \/ page[p] = Len(Pages[p]) /\ UNCHANGED failed
     \/ page[p] < Len(Pages[p]) /\ failed' = failed \cup {p}
  /\ wg' = Done(p)
  /\ listPc' = [listPc EXCEPT ![p] = "ended"]
  /\ UNCHANGED <<page, item, closed, ret, result>>

\* Mutant: the closing goroutine does not wait for all.
WaitSome == wg < Cardinality(Projects)

Wait == wg = 0

Close ==
  /\ ~closed /\ Wait
  /\ closed' = TRUE
  /\ UNCHANGED <<listPc, page, item, failed, wg, ret, result>>

\* The range over ch ends.
Collected ==
  /\ closed /\ result = "none"
  /\ result' = IF ret = <<>> THEN "error" ELSE "ok"
  /\ UNCHANGED <<listPc, page, item, failed, wg, closed, ret>>

Goroutine(p) == NextPage(p) \/ Send(p) \/ Skip(p) \/ PageSent(p) \/ EndProject(p)
ListNext == (\E p \in Projects : Goroutine(p)) \/ Close \/ Collected

ListSpec == ListInit /\ [][ListNext]_listVars

\* No goroutine is left to send a name when the channel is closed, which would
\* panic.
NoSendOnClosedChan == closed => \A p \in Projects : listPc[p] = "ended"

\* What is returned has, for every project whose listing did not fail, each of
\* its second generation instances, and no name twice, as long as the projects
\* are distinct.
Complete ==
  result # "none" =>
    /\ \A p \in Projects \ failed : AllNames(p) \subseteq Range(ret)
    /\ IsInjective(ret)

\* listInstances returns what the projects have, and no goroutine of it panics.
ListIsComplete == Complete /\ NoSendOnClosedChan
=============================================================================

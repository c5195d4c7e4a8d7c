------------------------------ MODULE ListProofs ------------------------------
(***************************************************************************)
(* listInstances returns the instances of all projects, each once, however *)
(* many goroutines there are and however they interleave.                  *)
(***************************************************************************)
EXTENDS ListInstances, FiniteSetTheorems, TLAPS

\* The goroutine of p is done with instance k of page j.
Handled(p, j, k) == j < page[p] \/ (j = page[p] /\ k <= item[p])

\* Where the goroutine of p is in its page.
InPage(p) ==
  /\ listPc[p] = "send" => page[p] # 0 /\ item[p] <= Len(Items(p))
  /\ listPc[p] # "send" => page[p] = 0 \/ item[p] = Len(Items(p))
  /\ listPc[p] = "ended" => p \in failed \/ page[p] = Len(Pages[p])

\* What the goroutines have sent is what the caller has received.
Received ==
  /\ \A p \in Projects : \A j \in DOMAIN Pages[p] : \A k \in DOMAIN Pages[p][j] :
       Handled(p, j, k) /\ Pages[p][j][k].secondGen =>
         \E n \in DOMAIN ret : ret[n] = Pages[p][j][k].name
  /\ \A n \in DOMAIN ret : \E p \in Projects : \E j \in DOMAIN Pages[p] :
       \E k \in DOMAIN Pages[p][j] : Handled(p, j, k) /\ ret[n] = Pages[p][j][k].name
  /\ \A m, n \in DOMAIN ret : ret[m] = ret[n] => m = n

\* The goroutines that have not called wg.Done.
Unfinished == {p \in Projects : listPc[p] # "ended"}

\* The inductive invariant: the WaitGroup counts the goroutines that have not
\* ended, and the channel is closed after that only.
ListInv ==
  /\ ListTypeOK
  /\ \A p \in Projects : InPage(p)
  /\ Received
  /\ wg = Cardinality(Unfinished)
  /\ closed => Unfinished = {}
  /\ result # "none" => closed

\* What is at an index of a sequence.
LEMMA SeqElement ==
  ASSUME NEW S, NEW q \in Seq(S), NEW n \in DOMAIN q
  PROVE  q[n] \in S
OBVIOUS

\* What Append adds to a sequence, and that it stays one without repetition.
LEMMA AppendAdds ==
  ASSUME NEW S, NEW q \in Seq(S), NEW x
  PROVE  /\ Len(q) \in Nat /\ DOMAIN q = 1..Len(q)
         /\ DOMAIN Append(q, x) = (DOMAIN q) \cup {Len(q) + 1} /\ Len(q) + 1 \notin DOMAIN q
         /\ Append(q, x)[Len(q) + 1] = x
         /\ \A n \in DOMAIN q : Append(q, x)[n] = q[n]
OBVIOUS

\* What the API returns, page by page and instance by instance.
LEMMA PagesTyped ==
  ASSUME NEW p \in Projects
  PROVE  /\ Pages[p] \in Seq(Seq([name : ConnectionNames, secondGen : BOOLEAN]))
         /\ Len(Pages[p]) \in Nat /\ DOMAIN Pages[p] = 1..Len(Pages[p])
         /\ \A j \in DOMAIN Pages[p] :
              /\ Len(Pages[p][j]) \in Nat /\ DOMAIN Pages[p][j] = 1..Len(Pages[p][j])
              /\ \A k \in DOMAIN Pages[p][j] : Pages[p][j][k].name \in ConnectionNames
<1>1. Pages[p] \in Seq(Seq([name : ConnectionNames, secondGen : BOOLEAN]))
  BY ListAssumption, Zenon
<1>2. ASSUME NEW j \in DOMAIN Pages[p]
      PROVE  /\ Len(Pages[p][j]) \in Nat /\ DOMAIN Pages[p][j] = 1..Len(Pages[p][j])
             /\ \A k \in DOMAIN Pages[p][j] : Pages[p][j][k].name \in ConnectionNames
  <2>1. Pages[p][j] \in Seq([name : ConnectionNames, secondGen : BOOLEAN])
    BY <1>1
  <2>2. ASSUME NEW k \in DOMAIN Pages[p][j] PROVE Pages[p][j][k].name \in ConnectionNames
    <3>1. Pages[p][j][k] \in [name : ConnectionNames, secondGen : BOOLEAN]
      BY <2>1, SeqElement, Zenon
    <3> QED BY <3>1
  <2> QED BY <2>1, <2>2
<1> QED BY <1>1, <1>2

\* listInstances has started one goroutine per project.
LEMMA ListInitInv == ListInit => ListInv
<1> SUFFICES ASSUME ListInit PROVE ListInv
  OBVIOUS
<1>1. IsFiniteSet(Projects) /\ Cardinality(Projects) \in Nat
  BY ListAssumption, FS_CardinalityType
<1>2. ListTypeOK
  <2>1. ret \in Seq(UNION {AllNames(p) : p \in Projects})
    BY DEF ListInit
  <2>2. /\ page \in [Projects -> Nat] /\ item \in [Projects -> Nat]
        /\ \A p \in Projects : page[p] <= Len(Pages[p])
    BY PagesTyped DEF ListInit
  <2>3. wg \in 0..Cardinality(Projects)
    BY <1>1 DEF ListInit
  <2>4. listPc \in [Projects -> {"call", "send", "ended"}] /\ failed \subseteq Projects
    BY DEF ListInit
  <2> QED BY <2>1, <2>2, <2>3, <2>4, Zenon DEF ListInit, ListTypeOK
<1>3. \A p \in Projects : InPage(p)
  BY DEF ListInit, InPage
<1>4. Received
  BY PagesTyped DEF ListInit, Received, Handled
<1>5. Unfinished = Projects
  BY DEF ListInit, Unfinished
<1> QED BY <1>2, <1>3, <1>4, <1>5 DEF ListInit, ListInv

\* The callback of p gets its next page.
LEMMA NextPageStep ==
  ASSUME ListInv, NEW p \in Projects, NextPage(p)
  PROVE  ListInv'
<1>0. /\ ListTypeOK /\ Received /\ \A q \in Projects : InPage(q)
      /\ page[p] \in Nat /\ Len(Pages[p]) \in Nat /\ page[p] < Len(Pages[p])
      /\ \A q \in Projects : page[q] \in Nat /\ item[q] \in Nat
  BY PagesTyped DEF ListInv, ListTypeOK, NextPage
<1>1. ListTypeOK'
  BY <1>0 DEF ListTypeOK, NextPage
<1>2. /\ page'[p] = page[p] + 1 /\ item'[p] = 0 /\ listPc'[p] = "send"
      /\ \A q \in Projects : q # p => page'[q] = page[q] /\ item'[q] = item[q] /\ listPc'[q] = listPc[q]
  BY <1>0 DEF NextPage, ListTypeOK
<1>3. \A q \in Projects : InPage(q)'
  <2>1. InPage(p)'
    <3>1. Items(p)' = Pages[p][page[p] + 1] /\ page[p] + 1 \in DOMAIN Pages[p]
      BY <1>0, <1>2, PagesTyped DEF Items
    <3>2. Len(Items(p)') \in Nat
      BY <3>1, PagesTyped
    <3> QED BY <1>0, <1>2, <3>2 DEF InPage
  <2>2. ASSUME NEW q \in Projects, q # p PROVE InPage(q)'
    BY <1>0, <1>2, <2>2 DEF InPage, Items, NextPage
  <2> QED BY <2>1, <2>2
<1>4. \A q \in Projects : \A j \in DOMAIN Pages[q] : \A k \in DOMAIN Pages[q][j] :
        Handled(q, j, k)' <=> Handled(q, j, k)
  <2> SUFFICES ASSUME NEW q \in Projects, NEW j \in DOMAIN Pages[q], NEW k \in DOMAIN Pages[q][j]
               PROVE  Handled(q, j, k)' <=> Handled(q, j, k)
    OBVIOUS
  <2>0. /\ j \in Nat /\ j > 0 /\ k \in Nat /\ k > 0 /\ Len(Pages[q][j]) \in Nat
        /\ k <= Len(Pages[q][j])
    BY PagesTyped
  <2>1. CASE q # p
    BY <1>2, <2>1 DEF Handled
  <2>2. CASE q = p
    <3>1. page[p] = 0 \/ item[p] = Len(Pages[p][page[p]])
      BY <1>0 DEF InPage, Items, NextPage
    <3>2. j = page[p] => k <= item[p]
      BY <2>0, <2>2, <3>1
    <3>3. Handled(p, j, k) <=> j <= page[p]
      BY <1>0, <2>0, <3>2 DEF Handled
    <3>4. Handled(p, j, k)' <=> j <= page[p]
      BY <1>0, <1>2, <2>0 DEF Handled
    <3> QED BY <2>2, <3>3, <3>4
  <2> QED BY <2>1, <2>2
<1>5. Received'
  <2>1. ret' = ret
    BY DEF NextPage
  <2> QED BY <1>0, <1>4, <2>1 DEF Received
<1>6. Unfinished' = Unfinished /\ UNCHANGED <<wg, closed, result>>
  BY <1>2 DEF NextPage, Unfinished
<1> QED BY <1>1, <1>3, <1>5, <1>6 DEF ListInv

\* The callback of p is done with an instance, which it may have sent.
LEMMA ItemStep ==
  ASSUME ListInv, NEW p \in Projects, Send(p) \/ Skip(p)
  PROVE  ListInv'
<1>0. /\ ListTypeOK /\ Received /\ \A q \in Projects : InPage(q)
      /\ page[p] \in Nat /\ item[p] \in Nat /\ Len(Pages[p]) \in Nat /\ page[p] <= Len(Pages[p])
      /\ page[p] # 0 /\ ret \in Seq(UNION {AllNames(q) : q \in Projects})
      /\ item \in [Projects -> Nat]
      /\ \A q \in Projects : page[q] \in Nat /\ item[q] \in Nat
  BY PagesTyped DEF ListInv, ListTypeOK, Send, Skip, InPage
<1>1. /\ page[p] \in DOMAIN Pages[p] /\ item[p] + 1 \in DOMAIN Items(p)
      /\ Len(Items(p)) \in Nat /\ item[p] < Len(Items(p))
      /\ Item(p).name \in ConnectionNames
  <2>1. page[p] \in DOMAIN Pages[p]
    BY <1>0, PagesTyped
  <2>2. /\ Len(Items(p)) \in Nat /\ DOMAIN Items(p) = 1..Len(Items(p)) /\ item[p] < Len(Items(p))
        /\ \A k \in DOMAIN Items(p) : Items(p)[k].name \in ConnectionNames
    BY <2>1, PagesTyped DEF Items, Send, Skip
  <2> QED BY <1>0, <2>1, <2>2 DEF Item
<1>2. /\ item' \in [Projects -> Nat] /\ item'[p] = item[p] + 1
      /\ \A q \in Projects : q # p => item'[q] = item[q]
      /\ UNCHANGED <<listPc, page, failed, wg, closed, result>>
      /\ listPc[p] = "send"
  <2>1. /\ item' = [item EXCEPT ![p] = item[p] + 1] /\ listPc[p] = "send"
        /\ UNCHANGED <<listPc, page, failed, wg, closed, result>>
    BY Zenon DEF Send, Skip
  <2> QED BY <1>0, <2>1
<1>3. /\ Send(p) => Item(p).secondGen /\ ret' = Append(ret, Item(p).name)
      /\ Skip(p) => ~Item(p).secondGen /\ ret' = ret
  BY DEF Send, Skip
<1>4. ListTypeOK'
  <2>1. Send(p) => Item(p).name \in AllNames(p)
    BY <1>1, <1>3, Zenon DEF AllNames, Item, Items
  <2>2. ret' \in Seq(UNION {AllNames(q) : q \in Projects})
    <3> DEFINE T == UNION {AllNames(q) : q \in Projects}
    <3>1. ret \in Seq(T) /\ (Send(p) => Item(p).name \in T)
      BY <1>0, <2>1
    <3> HIDE DEF T
    <3>2. ret' \in Seq(T)
      BY <1>3, <3>1
    <3> QED BY <3>2 DEF T
  <2>3. /\ listPc \in [Projects -> {"call", "send", "ended"}] /\ failed \subseteq Projects
        /\ page \in [Projects -> Nat] /\ \A q \in Projects : page[q] <= Len(Pages[q])
        /\ wg \in 0..Cardinality(Projects) /\ closed \in BOOLEAN /\ result \in {"none", "ok", "error"}
    BY <1>0 DEF ListTypeOK
  <2> QED BY <1>2, <2>2, <2>3, Zenon DEF ListTypeOK
<1>5. ASSUME NEW q \in Projects PROVE InPage(q)'
  <2>1. CASE q = p
    BY <1>0, <1>1, <1>2, <2>1 DEF InPage, Items
  <2>2. CASE q # p
    BY <1>0, <1>2, <2>2 DEF InPage, Items
  <2> QED BY <2>1, <2>2
<1>6. \A q \in Projects : \A j \in DOMAIN Pages[q] : \A k \in DOMAIN Pages[q][j] :
        Handled(q, j, k)' <=> Handled(q, j, k) \/ (q = p /\ j = page[p] /\ k = item[p] + 1)
  <2> SUFFICES ASSUME NEW q \in Projects, NEW j \in DOMAIN Pages[q], NEW k \in DOMAIN Pages[q][j]
               PROVE  Handled(q, j, k)' <=>
                        Handled(q, j, k) \/ (q = p /\ j = page[p] /\ k = item[p] + 1)
    OBVIOUS
  <2>0. j \in Nat /\ k \in Nat
    BY PagesTyped
  <2>1. CASE q # p
    BY <1>2, <2>1 DEF Handled
  <2>2. CASE q = p
    BY <1>0, <1>2, <2>0, <2>2 DEF Handled
  <2> QED BY <2>1, <2>2
<1>a. ASSUME NEW n \in DOMAIN ret
      PROVE  \E q \in Projects : \E j \in DOMAIN Pages[q] : \E k \in DOMAIN Pages[q][j] :
               Handled(q, j, k)' /\ ret[n] = Pages[q][j][k].name
  <2>1. PICK q \in Projects : \E j \in DOMAIN Pages[q] : \E k \in DOMAIN Pages[q][j] :
          Handled(q, j, k) /\ ret[n] = Pages[q][j][k].name
    BY <1>0 DEF Received
  <2>2. PICK j \in DOMAIN Pages[q] : \E k \in DOMAIN Pages[q][j] :
          Handled(q, j, k) /\ ret[n] = Pages[q][j][k].name
    BY <2>1
  <2>3. PICK k \in DOMAIN Pages[q][j] : Handled(q, j, k) /\ ret[n] = Pages[q][j][k].name
    BY <2>2
  <2>4. Handled(q, j, k)'
    BY <1>6, <2>3
  <2> QED BY <2>3, <2>4
<1>7. Received'
  <2>1. CASE Skip(p)
    <3>1. ret' = ret /\ ~Pages[p][page[p]][item[p] + 1].secondGen
      BY <1>3, <2>1 DEF Item, Items
    <3>2. ASSUME NEW q \in Projects, NEW j \in DOMAIN Pages[q], NEW k \in DOMAIN Pages[q][j],
                 Handled(q, j, k)', Pages[q][j][k].secondGen
          PROVE  \E n \in DOMAIN ret' : ret'[n] = Pages[q][j][k].name
      <4>1. Handled(q, j, k)
        BY <1>6, <3>1, <3>2
      <4> QED BY <1>0, <3>1, <3>2, <4>1 DEF Received
    <3>3. ASSUME NEW n \in DOMAIN ret'
          PROVE  \E q \in Projects : \E j \in DOMAIN Pages[q] : \E k \in DOMAIN Pages[q][j] :
                   Handled(q, j, k)' /\ ret'[n] = Pages[q][j][k].name
      BY <1>a, <3>1
    <3>4. \A m, n \in DOMAIN ret' : ret'[m] = ret'[n] => m = n
      BY <1>0, <3>1 DEF Received
    <3> QED BY <3>2, <3>3, <3>4 DEF Received
  <2>2. CASE Send(p)
    <3> DEFINE x == Pages[p][page[p]][item[p] + 1].name
    <3>0. ret' = Append(ret, x)
      BY <1>3, <2>2 DEF Item, Items
    <3>1. /\ DOMAIN ret' = (DOMAIN ret) \cup {Len(ret) + 1} /\ Len(ret) + 1 \notin DOMAIN ret
          /\ ret'[Len(ret) + 1] = x
          /\ \A n \in DOMAIN ret : ret'[n] = ret[n]
      BY <1>0, <3>0, AppendAdds
    <3> HIDE DEF x
    <3>2. ASSUME NEW n \in DOMAIN ret PROVE ret[n] # x
      <4>a. PICK q \in Projects : \E j \in DOMAIN Pages[q] : \E k \in DOMAIN Pages[q][j] :
              Handled(q, j, k) /\ ret[n] = Pages[q][j][k].name
        BY <1>0 DEF Received
      <4>b. PICK j \in DOMAIN Pages[q] : \E k \in DOMAIN Pages[q][j] :
              Handled(q, j, k) /\ ret[n] = Pages[q][j][k].name
        BY <4>a
      <4>1. PICK k \in DOMAIN Pages[q][j] : Handled(q, j, k) /\ ret[n] = Pages[q][j][k].name
        BY <4>b
      <4>2. item[p] + 1 \in DOMAIN Pages[p][page[p]]
        BY <1>1 DEF Items
      <4>3. x = Pages[q][j][k].name => q = p /\ j = page[p] /\ k = item[p] + 1
        BY <1>1, <4>2, ListAssumption DEF x
      <4>4. ~Handled(p, page[p], item[p] + 1)
        BY <1>0 DEF Handled
      <4> QED BY <4>1, <4>3, <4>4
    <3>3. \A m, n \in DOMAIN ret' : ret'[m] = ret'[n] => m = n
      BY <1>0, <3>1, <3>2 DEF Received
    <3>4. ASSUME NEW q \in Projects, NEW j \in DOMAIN Pages[q], NEW k \in DOMAIN Pages[q][j],
                 Handled(q, j, k)', Pages[q][j][k].secondGen
          PROVE  \E n \in DOMAIN ret' : ret'[n] = Pages[q][j][k].name
      <4>1. CASE Handled(q, j, k)
        BY <1>0, <3>1, <3>4, <4>1 DEF Received
      <4>2. CASE q = p /\ j = page[p] /\ k = item[p] + 1
        BY <3>1, <4>2 DEF x
      <4> QED BY <1>6, <3>4, <4>1, <4>2
    <3>5. ASSUME NEW n \in DOMAIN ret'
          PROVE  \E q \in Projects : \E j \in DOMAIN Pages[q] : \E k \in DOMAIN Pages[q][j] :
                   Handled(q, j, k)' /\ ret'[n] = Pages[q][j][k].name
      <4>1. CASE n \in DOMAIN ret
        BY <1>a, <3>1, <4>1
      <4>2. CASE n = Len(ret) + 1
        <5>1. PICK j \in DOMAIN Pages[p] : j = page[p]
          BY <1>1
        <5>2. PICK k \in DOMAIN Pages[p][j] : k = item[p] + 1
          BY <1>1, <5>1 DEF Items
        <5>3. Handled(p, j, k)' /\ ret'[n] = Pages[p][j][k].name
          BY <1>6, <3>1, <4>2, <5>1, <5>2 DEF x
        <5> QED BY <5>3
      <4> QED BY <3>1, <4>1, <4>2
    <3> QED BY <3>3, <3>4, <3>5 DEF Received
  <2> QED BY <2>1, <2>2
<1>8. Unfinished' = Unfinished
  BY <1>2 DEF Unfinished
<1> QED BY <1>2, <1>4, <1>5, <1>7, <1>8 DEF ListInv

\* The callback of p returns, or the listing of p ends.
LEMMA PageEndStep ==
  ASSUME ListInv, NEW p \in Projects, PageSent(p) \/ EndProject(p)
  PROVE  ListInv'
<1>0. /\ ListTypeOK /\ Received /\ \A q \in Projects : InPage(q)
      /\ wg = Cardinality(Unfinished) /\ listPc[p] # "ended"
      /\ \A q \in Projects : page[q] \in Nat /\ item[q] \in Nat
  BY DEF ListInv, ListTypeOK, PageSent, EndProject
<1>1. UNCHANGED <<page, item, ret, closed, result>>
  BY DEF PageSent, EndProject
<1>2. Received'
  BY <1>0, <1>1 DEF Received, Handled
<1>3. IsFiniteSet(Unfinished) /\ Cardinality(Unfinished) \in Nat /\ p \in Unfinished
  BY <1>0, ListAssumption, FS_Subset, FS_CardinalityType DEF Unfinished
<1>4. /\ listPc' \in [Projects -> {"call", "send", "ended"}] /\ failed' \subseteq Projects
      /\ \A q \in Projects : q # p => listPc'[q] = listPc[q]
      /\ failed \subseteq failed'
  <2>1. listPc \in [Projects -> {"call", "send", "ended"}] /\ failed \subseteq Projects
    BY <1>0 DEF ListTypeOK
  <2>2. /\ \E l \in {"call", "ended"} : listPc' = [listPc EXCEPT ![p] = l]
        /\ failed' = failed \/ failed' = failed \cup {p}
    BY Zenon DEF PageSent, EndProject
  <2> QED BY <2>1, <2>2
<1>5. \A q \in Projects : InPage(q)'
  <2>1. InPage(p)'
    BY <1>0, <1>1 DEF InPage, Items, PageSent, EndProject, ListTypeOK
  <2>2. ASSUME NEW q \in Projects, q # p PROVE InPage(q)'
    BY <1>0, <1>1, <1>4, <2>2 DEF InPage, Items
  <2> QED BY <2>1, <2>2
<1>6. /\ wg' = Cardinality(Unfinished') /\ wg' \in 0..Cardinality(Projects)
      /\ Unfinished' \subseteq Unfinished
  <2>0. wg \in 0..Cardinality(Projects) /\ Cardinality(Projects) \in Nat
    BY <1>0, ListAssumption, FS_CardinalityType DEF ListTypeOK
  <2>1. CASE PageSent(p)
    <3>1. Unfinished' = Unfinished /\ wg' = wg
      BY <1>0, <2>1 DEF PageSent, Unfinished, ListTypeOK
    <3> QED BY <1>0, <2>0, <3>1
  <2>2. CASE EndProject(p)
    <3>1. Unfinished' = Unfinished \ {p} /\ wg' = wg - 1
      BY <1>0, <2>2 DEF EndProject, Done, Unfinished, ListTypeOK
    <3>2. Cardinality(Unfinished \ {p}) = Cardinality(Unfinished) - 1
      BY <1>3, FS_RemoveElement, Zenon
    <3>3. Cardinality(Unfinished \ {p}) \in Nat
      BY <1>3, FS_RemoveElement, FS_CardinalityType
    <3> QED BY <1>0, <2>0, <3>1, <3>2, <3>3
  <2> QED BY <2>1, <2>2
<1>7. ListTypeOK'
  BY <1>0, <1>1, <1>4, <1>6 DEF ListTypeOK
<1> QED BY <1>1, <1>2, <1>5, <1>6, <1>7 DEF ListInv

\* Every step of a goroutine, of the closer and of the caller.
LEMMA ListNextInv ==
  ASSUME ListInv, [ListNext]_listVars
  PROVE  ListInv'
<1>1. ASSUME NEW p \in Projects, Goroutine(p) PROVE ListInv'
  BY <1>1, NextPageStep, ItemStep, PageEndStep DEF Goroutine
<1>2. CASE Close \/ Collected \/ UNCHANGED listVars
  <2>1. /\ UNCHANGED <<listPc, page, item, failed, wg, ret>>
        /\ closed' \in BOOLEAN /\ result' \in {"none", "ok", "error"}
        /\ closed' => closed \/ wg = 0
        /\ result' # "none" => closed'
    <3>0. closed \in BOOLEAN /\ result \in {"none", "ok", "error"} /\ (result # "none" => closed)
      BY DEF ListInv, ListTypeOK
    <3>1. CASE Close
      BY <3>0, <3>1 DEF Close, Wait
    <3>2. CASE Collected
      BY <3>0, <3>2 DEF Collected
    <3>3. CASE UNCHANGED listVars
      BY <3>0, <3>3 DEF listVars
    <3> QED BY <1>2, <3>1, <3>2, <3>3
  <2>2. wg = 0 => Unfinished = {}
    <3>1. IsFiniteSet(Unfinished)
      BY ListAssumption, FS_Subset DEF Unfinished
    <3> QED BY <3>1, FS_EmptySet, Zenon DEF ListInv
  <2>3. ListTypeOK'
    BY <2>1 DEF ListInv, ListTypeOK
  <2>4. Received' /\ \A p \in Projects : InPage(p)'
    BY <2>1 DEF ListInv, Received, Handled, InPage, Items
  <2>5. Unfinished' = Unfinished
    BY <2>1 DEF Unfinished
  <2> QED BY <2>1, <2>2, <2>3, <2>4, <2>5 DEF ListInv
<1> QED BY <1>1, <1>2 DEF ListNext

\* listInstances returns each second generation instance of the projects whose
\* listing did not fail, once, and no goroutine sends after the channel is closed.
THEOREM ListingIsComplete == ListSpec => []ListIsComplete
<1>1. ListInv /\ [ListNext]_listVars => ListInv'
  BY ListNextInv
<1>2. ListInv => ListIsComplete
  <2> SUFFICES ASSUME ListInv PROVE ListIsComplete
    OBVIOUS
  <2>1. NoSendOnClosedChan
    BY DEF ListInv, Unfinished, NoSendOnClosedChan
  <2>2. ASSUME result # "none", NEW p \in Projects \ failed, NEW x \in AllNames(p)
        PROVE  x \in Range(ret)
    <3>a. PICK j \in DOMAIN Pages[p] : \E k \in DOMAIN Pages[p][j] :
            Pages[p][j][k].secondGen /\ Pages[p][j][k].name = x
      BY DEF AllNames
    <3>1. PICK k \in DOMAIN Pages[p][j] : Pages[p][j][k].secondGen /\ Pages[p][j][k].name = x
      BY <3>a
    <3>2. listPc[p] = "ended" /\ InPage(p)
      BY <2>1, <2>2 DEF ListInv, NoSendOnClosedChan
    <3>3. page[p] = Len(Pages[p]) /\ (page[p] = 0 \/ item[p] = Len(Pages[p][page[p]]))
      BY <3>2 DEF InPage, Items
    <3>4. j \in Nat /\ 0 < j /\ j <= page[p] /\ k \in Nat /\ k <= Len(Pages[p][j])
          /\ page[p] \in Nat
      BY <3>3, PagesTyped
    <3>5. Handled(p, j, k)
      BY <3>3, <3>4 DEF Handled
    <3>6. PICK n \in DOMAIN ret : ret[n] = x
      BY <3>1, <3>5 DEF ListInv, Received
    <3> QED BY <3>6 DEF Range
  <2>3. IsInjective(ret)
    BY DEF ListInv, Received, IsInjective
  <2>4. Complete
    BY <2>2, <2>3 DEF Complete
  <2> QED BY <2>1, <2>4 DEF ListIsComplete
<1> QED BY <1>1, <1>2, ListInitInv, PTL DEF ListSpec
=============================================================================

----------------------------- MODULE PartsProofs -----------------------------
(***************************************************************************)
(* Three parts of the library, each for any value of its constants: the    *)
(* data of a connection arrives (Relay), DialContext uses a client that is *)
(* there (DialClient), and a refreshCfg gets a right configuration in few  *)
(* attempts (CertSource).                                                  *)
(***************************************************************************)
EXTENDS Relay, CertSource, DialClient, TLAPS

-----------------------------------------------------------------------------
(* Relay.                                                                  *)

\* Where a copying goroutine can be.
CopyPcs == {"read", "write", "ended", "closeRemote", "closeLocal", "returned"}

\* The types, for any number of chunks.
Typed ==
  /\ sent \in [Dirs -> Nat] /\ read \in [Dirs -> Nat]
  /\ buf \in [Dirs -> Seq(Nat)] /\ got \in [Dirs -> Seq(Nat)]
  /\ rerr \in [Dirs -> Errs] /\ copyPc \in [Dirs -> CopyPcs]
  /\ err \in [Dirs -> [err : Errs, readErr : BOOLEAN]]
  /\ eof \in [Dirs -> BOOLEAN] /\ reset \in [Dirs -> BOOLEAN] /\ open \in [Dirs -> BOOLEAN]
  /\ first \in Dirs \cup {"none"}

\* What has been written is a prefix of what was read, and what is in the buffer
\* of myCopy is the rest.
InOrder(g) ==
  /\ \A k \in 1..Len(got[g]) : got[g][k] = k
  /\ Len(got[g]) <= read[g] /\ read[g] <= sent[g]
  /\ copyPc[g] = "read" => Len(got[g]) = read[g]
  /\ copyPc[g] = "write" =>
       /\ Len(got[g]) + Len(buf[g]) = read[g]
       /\ \A k \in 1..Len(buf[g]) : buf[g][k] = Len(got[g]) + k

\* After EOF everything has been read; it has been written when myCopy returns
\* EOF, unless the destination is broken or the other direction has closed it.
EOFInv(g) ==
  /\ rerr[g] = "EOF" => eof[g] /\ read[g] = sent[g]
  /\ err[g].err = "EOF" =>
       /\ eof[g]
       /\ Len(got[g]) = sent[g] \/ reset[Other(g)] \/ first = Other(g)
  /\ copyPc[g] \in {"read", "write"} => err[g].err = "nil"
  /\ first = g => copyPc[g] \in {"closeRemote", "closeLocal", "returned"}
  /\ copyPc[g] \in {"closeRemote", "closeLocal"} => first = g
  /\ ~open[g] => first # "none"

\* The inductive invariant of both directions.
RelayInv == Typed /\ \A g \in Dirs : InOrder(g) /\ EOFInv(g)

\* Nothing has been sent at first.
LEMMA RelayInitInv == RelayInit => RelayInv
BY DEF RelayInit, RelayInv, Typed, InOrder, EOFInv, Dirs, CopyPcs, Errs

\* There are two directions.
LEMMA OtherDir == \A g \in Dirs : Other(g) \in Dirs /\ Other(g) # g /\ Other(Other(g)) = g
BY Zenon DEF Dirs, Other

\* The peers' steps.
LEMMA PeerStep ==
  ASSUME RelayInv, NEW g \in Dirs, Peer(g)
  PROVE  RelayInv'
<1> USE DEF RelayInv, Typed, InOrder, EOFInv
<1>1. CASE PeerSends(g)
  BY <1>1 DEF PeerSends
<1>2. CASE PeerCloses(g)
  BY <1>2 DEF PeerCloses
<1>3. CASE PeerBreaks(g)
  BY <1>3, OtherDir DEF PeerBreaks
<1> QED BY <1>1, <1>2, <1>3, Zenon DEF Peer

\* The chunks from a + 1 to a + m.
LEMMA Run ==
  ASSUME NEW a \in Nat, NEW m \in Nat
  PROVE  /\ [k \in 1..m |-> a + k] \in Seq(Nat)
         /\ Len([k \in 1..m |-> a + k]) = m
OBVIOUS

\* What a step of direction g leaves of the other one.
Moved(g, l, e) ==
  /\ copyPc' \in [Dirs -> CopyPcs] /\ err' \in [Dirs -> [err : Errs, readErr : BOOLEAN]]
  /\ \A h \in Dirs : h # g => copyPc'[h] = copyPc[h] /\ err'[h] = err[h]
  /\ copyPc'[g] = l /\ err'[g].err = e

\* myCopy goes on.
LEMMA GoesOn ==
  ASSUME Typed, NEW g \in Dirs, NEW l \in CopyPcs,
         copyPc' = [copyPc EXCEPT ![g] = l], UNCHANGED err
  PROVE  Moved(g, l, err[g].err)
BY Zenon DEF Typed, Moved

\* myCopy returns an error.
LEMMA Returns ==
  ASSUME Typed, NEW g \in Dirs, NEW e \in Errs, NEW b \in BOOLEAN, CopyEnds(g, e, b)
  PROVE  Moved(g, "ended", e)
<1>1. [err |-> e, readErr |-> b] \in [err : Errs, readErr : BOOLEAN]
  BY Zenon
<1>2. /\ err' \in [Dirs -> [err : Errs, readErr : BOOLEAN]]
      /\ \A h \in Dirs : h # g => err'[h] = err[h]
      /\ err'[g] = [err |-> e, readErr |-> b]
  BY <1>1, Zenon DEF Typed, CopyEnds
<1>3. /\ copyPc' \in [Dirs -> CopyPcs] /\ copyPc'[g] = "ended"
      /\ \A h \in Dirs : h # g => copyPc'[h] = copyPc[h]
  BY Zenon DEF Typed, CopyEnds, CopyPcs
<1> QED BY <1>2, <1>3 DEF Moved

\* A direction that a step does not touch keeps its part of the invariant.
LEMMA Untouched ==
  ASSUME NEW h \in Dirs, InOrder(h), EOFInv(h), UNCHANGED <<peerVars, first, open>>,
         read'[h] = read[h], rerr'[h] = rerr[h], buf'[h] = buf[h], got'[h] = got[h],
         copyPc'[h] = copyPc[h], err'[h] = err[h]
  PROVE  InOrder(h)' /\ EOFInv(h)'
<1>1. InOrder(h)'
  BY Zenon DEF InOrder, peerVars
<1>2. EOFInv(h)'
  BY Zenon DEF EOFInv, peerVars
<1> QED BY <1>1, <1>2, Zenon

\* src.Read: what comes next goes into the buffer.
LEMMA ReadStep ==
  ASSUME RelayInv, NEW g \in Dirs, Read(g)
  PROVE  RelayInv'
<1>a. Typed
  BY Zenon DEF RelayInv
<1>b. \A h \in Dirs : InOrder(h) /\ EOFInv(h)
  BY Zenon DEF RelayInv
<1>0. /\ copyPc[g] = "read" /\ Len(got[g]) = read[g] /\ read[g] \in Nat /\ sent[g] \in Nat
      /\ read[g] <= sent[g]
      /\ UNCHANGED <<peerVars, got, first, open>>
  BY <1>a, <1>b, Zenon DEF Read, Typed, InOrder
<1>1. PICK n \in read[g]..IF open[g] /\ ~reset[g] THEN sent[g] ELSE read[g], e \in Errs :
        /\ e \in ReadErrors(g, n)
        /\ n > read[g] \/ e # "nil"
        /\ read' = [read EXCEPT ![g] = n]
        /\ buf' = [buf EXCEPT ![g] = [k \in 1..n - read[g] |-> read[g] + k]]
        /\ rerr' = [rerr EXCEPT ![g] = e]
        /\ IF n > read[g] THEN copyPc' = [copyPc EXCEPT ![g] = "write"] /\ UNCHANGED err
           ELSE CopyEnds(g, e, TRUE)
  BY Zenon DEF Read
<1>2. n \in Nat /\ read[g] <= n /\ n <= sent[g] /\ n - read[g] \in Nat
  BY <1>0, <1>1
<1>3. /\ buf' \in [Dirs -> Seq(Nat)] /\ Len(buf'[g]) = n - read[g]
      /\ \A k \in 1..n - read[g] : buf'[g][k] = read[g] + k
      /\ \A h \in Dirs : h # g => buf'[h] = buf[h]
  BY <1>a, <1>0, <1>1, <1>2, Run, Zenon DEF Typed
<1>4. e = "EOF" => eof[g] /\ n = sent[g]
  BY <1>1, Zenon DEF ReadErrors
<1>5. \/ n > read[g] /\ Moved(g, "write", "nil")
      \/ n = read[g] /\ Moved(g, "ended", e)
  <2>1. CASE n > read[g]
    BY <1>a, <1>b, <1>0, <1>1, <2>1, GoesOn, Zenon DEF CopyPcs, EOFInv
  <2>2. CASE ~(n > read[g])
    <3>1. CopyEnds(g, e, TRUE)
      BY ONLY <1>1, <2>2, Zenon
    <3>2. n = read[g]
      BY ONLY <1>0, <1>2, <2>2
    <3>3. Moved(g, "ended", e)
      BY <1>a, <1>1, <3>1, Returns, Zenon
    <3> QED BY <3>2, <3>3, Zenon
  <2> QED BY <2>1, <2>2, Zenon
<1>6. Typed'
  BY <1>a, <1>0, <1>1, <1>2, <1>3, <1>5, Zenon DEF Typed, Moved, peerVars
<1>7. ASSUME NEW h \in Dirs PROVE InOrder(h)' /\ EOFInv(h)'
  <2>1. CASE h = g
    <3>1. read'[g] = n /\ rerr'[g] = e
      BY <1>a, <1>1, Zenon DEF Typed
    <3>2. InOrder(g)'
      <4>1. \A k \in 1..Len(got[g]) : got[g][k] = k
        BY <1>b, Zenon DEF InOrder
      <4>2. got' = got /\ sent' = sent /\ copyPc'[g] # "read"
        BY <1>0, <1>5, Zenon DEF Moved, peerVars
      <4>3. \A k \in 1..Len(got'[g]) : got'[g][k] = k
        BY <4>1, <4>2, Zenon
      <4>4. Len(got'[g]) <= read'[g] /\ read'[g] <= sent'[g]
        BY <1>0, <1>2, <3>1, <4>2, Zenon
      <4>5. Len(got'[g]) + Len(buf'[g]) = read'[g]
        BY <1>0, <1>2, <1>3, <3>1, <4>2
      <4>6. \A k \in 1..Len(buf'[g]) : buf'[g][k] = Len(got'[g]) + k
        BY <1>0, <1>3, <4>2, Zenon
      <4> QED BY ONLY <4>2, <4>3, <4>4, <4>5, <4>6, Zenon DEF InOrder
    <3>3. EOFInv(g)'
      BY <1>b, <1>0, <1>2, <1>4, <1>5, <3>1, Zenon DEF EOFInv, Moved, peerVars
    <3> QED BY <2>1, <3>2, <3>3, Zenon
  <2>2. CASE h # g
    <3>1. read'[h] = read[h] /\ rerr'[h] = rerr[h]
      BY <1>a, <1>1, <2>2, Zenon DEF Typed
    <3>2. copyPc'[h] = copyPc[h] /\ err'[h] = err[h] /\ buf'[h] = buf[h]
      BY <1>3, <1>5, <2>2, Zenon DEF Moved
    <3> QED BY <1>b, <1>0, <3>1, <3>2, Untouched, Zenon
  <2> QED BY <2>1, <2>2, Zenon
<1> QED BY <1>6, <1>7, Zenon DEF RelayInv

\* The first k chunks of the buffer.
LEMMA Part ==
  ASSUME NEW q \in Seq(Nat), NEW k \in 0..Len(q)
  PROVE  /\ SubSeq(q, 1, k) \in Seq(Nat) /\ Len(SubSeq(q, 1, k)) = k
         /\ \A j \in 1..k : SubSeq(q, 1, k)[j] = q[j]
OBVIOUS

\* What has been written goes on without a gap.
LEMMA Longer ==
  ASSUME NEW q \in Seq(Nat), NEW w \in Seq(Nat),
         \A k \in 1..Len(q) : q[k] = k,
         \A k \in 1..Len(w) : w[k] = Len(q) + k
  PROVE  /\ q \o w \in Seq(Nat) /\ Len(q \o w) = Len(q) + Len(w)
         /\ \A k \in 1..Len(q) + Len(w) : (q \o w)[k] = k
<1>1. q \o w \in Seq(Nat) /\ Len(q \o w) = Len(q) + Len(w) /\ Len(q) \in Nat /\ Len(w) \in Nat
  OBVIOUS
<1>2. ASSUME NEW k \in 1..Len(q) + Len(w) PROVE (q \o w)[k] = k
  <2>1. CASE k <= Len(q)
    BY <1>1, <2>1
  <2>2. CASE k > Len(q)
    <3>1. (q \o w)[k] = w[k - Len(q)] /\ k - Len(q) \in 1..Len(w)
      BY <1>1, <2>2
    <3> QED BY <1>1, <3>1
  <2> QED BY <1>1, <2>1, <2>2
<1> QED BY <1>1, <1>2, Zenon

\* dst.Write, of all of the buffer or, when it fails, of the first k chunks.
LEMMA WriteStep ==
  ASSUME RelayInv, NEW g \in Dirs, Write(g) \/ WriteFails(g)
  PROVE  RelayInv'
<1>a. Typed
  BY Zenon DEF RelayInv
<1>b. \A h \in Dirs : InOrder(h) /\ EOFInv(h)
  BY Zenon DEF RelayInv
<1>0. /\ copyPc[g] = "write" /\ first # g
      /\ UNCHANGED <<peerVars, read, rerr, first, open>>
      /\ buf' = [buf EXCEPT ![g] = <<>>]
  BY <1>b, Zenon DEF Write, WriteFails, EOFInv
<1>1. /\ buf[g] \in Seq(Nat) /\ Len(buf[g]) \in Nat /\ got[g] \in Seq(Nat) /\ Len(got[g]) \in Nat
      /\ Len(got[g]) + Len(buf[g]) = read[g] /\ read[g] \in Nat /\ sent[g] \in Nat
      /\ \A k \in 1..Len(buf[g]) : buf[g][k] = Len(got[g]) + k
  BY <1>a, <1>b, <1>0 DEF Typed, InOrder
<1>2. PICK w \in Seq(Nat) : /\ got' = [got EXCEPT ![g] = got[g] \o w]
                            /\ Len(w) <= Len(buf[g])
                            /\ \A k \in 1..Len(w) : w[k] = Len(got[g]) + k
                            /\ Write(g) => Len(w) = Len(buf[g])
  <2>1. CASE Write(g)
    <3>1. got' = [got EXCEPT ![g] = got[g] \o buf[g]]
      BY <2>1, Zenon DEF Write, Written
    <3>2. Len(buf[g]) <= Len(buf[g])
      BY <1>1
    <3> QED BY <1>1, <3>1, <3>2, Zenon
  <2>2. CASE ~Write(g)
    <3>1. PICK k \in 0..Len(buf[g]) : got' = [got EXCEPT ![g] = got[g] \o SubSeq(buf[g], 1, k)]
      BY <2>2, Zenon DEF WriteFails
    <3>2. /\ SubSeq(buf[g], 1, k) \in Seq(Nat) /\ Len(SubSeq(buf[g], 1, k)) = k
          /\ \A j \in 1..k : SubSeq(buf[g], 1, k)[j] = buf[g][j]
      BY <1>1, <3>1, Part, Zenon
    <3>3. k <= Len(buf[g]) /\ \A j \in 1..k : SubSeq(buf[g], 1, k)[j] = Len(got[g]) + j
      BY <1>1, <3>1, <3>2
    <3> QED BY <2>2, <3>1, <3>2, <3>3, Zenon
  <2> QED BY <2>1, <2>2, Zenon
<1>3. /\ got[g] \o w \in Seq(Nat) /\ Len(got[g] \o w) = Len(got[g]) + Len(w)
      /\ \A k \in 1..Len(got[g]) + Len(w) : (got[g] \o w)[k] = k
  <2>1. \A k \in 1..Len(got[g]) : got[g][k] = k
    BY <1>b, Zenon DEF InOrder
  <2> QED BY <1>1, <1>2, <2>1, Longer, Zenon
<1>4. /\ got' \in [Dirs -> Seq(Nat)] /\ got'[g] = got[g] \o w
      /\ \A h \in Dirs : h # g => got'[h] = got[h] /\ buf'[h] = buf[h]
      /\ buf' \in [Dirs -> Seq(Nat)] /\ buf'[g] = <<>>
  BY <1>a, <1>0, <1>2, <1>3 DEF Typed
<1>5. \/ Write(g) /\ Moved(g, "read", "nil")
      \/ Write(g) /\ Moved(g, "ended", rerr[g])
      \/ WriteFails(g) /\ \E e \in {rerr[g], "write"} : Moved(g, "ended", e)
  <2>0. rerr[g] \in Errs /\ "write" \in Errs /\ "read" \in CopyPcs /\ err[g].err = "nil"
    BY <1>a, <1>b, <1>0, Zenon DEF Typed, Errs, CopyPcs, EOFInv
  <2>1. CASE Write(g)
    BY <1>a, <2>0, <2>1, GoesOn, Returns, Zenon DEF Write
  <2>2. CASE WriteFails(g)
    BY <1>a, <2>0, <2>2, Returns, Zenon DEF WriteFails, WriteError
  <2> QED BY <2>1, <2>2, Zenon
<1>6. Typed'
  BY <1>a, <1>0, <1>4, <1>5, Zenon DEF Typed, Moved, peerVars
<1>7. ASSUME NEW h \in Dirs PROVE InOrder(h)' /\ EOFInv(h)'
  <2>1. CASE h = g
    <3>1. WriteFails(g) => reset[Other(g)] \/ first = Other(g)
      BY <1>a, <1>b, <1>0, OtherDir, Zenon DEF WriteFails, EOFInv, Typed, Dirs
    <3>2. Len(w) \in Nat /\ Len(got'[g]) = Len(got[g]) + Len(w)
      BY <1>2, <1>3, <1>4
    <3>3. Len(got'[g]) <= read[g] /\ (Write(g) => Len(got'[g]) = read[g])
      <4>1. Len(w) <= Len(buf[g])
        BY <1>2, Zenon
      <4>2. /\ Len(got[g]) \in Nat /\ Len(buf[g]) \in Nat
            /\ Len(got[g]) + Len(buf[g]) = read[g]
        BY <1>1, Zenon
      <4>3. Len(got'[g]) <= read[g]
        <5>1. \A a, b, c \in Nat : c <= b => a + c <= a + b
          OBVIOUS
        <5>2. Len(got[g]) + Len(w) <= Len(got[g]) + Len(buf[g])
          BY <3>2, <4>1, <4>2, <5>1, Zenon
        <5> QED BY <3>2, <4>2, <5>2, Zenon
      <4>4. ASSUME Len(w) = Len(buf[g]) PROVE Len(got'[g]) = read[g]
        BY ONLY <3>2, <4>2, <4>4, Zenon
      <4> QED BY <1>2, <4>3, <4>4, Zenon
    <3>4. InOrder(g)'
      <4>1. copyPc'[g] # "write" /\ (copyPc'[g] = "read" => Write(g))
        BY <1>5, Zenon DEF Moved
      <4>2. \A k \in 1..Len(got'[g]) : got'[g][k] = k
        BY <1>3, <1>4, Zenon
      <4>3. read'[g] = read[g] /\ sent'[g] = sent[g] /\ read[g] <= sent[g]
        BY <1>b, <1>0, Zenon DEF InOrder, peerVars
      <4> QED BY <3>3, <4>1, <4>2, <4>3, Zenon DEF InOrder
    <3>5. EOFInv(g)'
      BY <1>b, <1>0, <1>5, <3>1, <3>3 DEF EOFInv, Moved, peerVars
    <3> QED BY <2>1, <3>4, <3>5, Zenon
  <2>2. CASE h # g
    <3>1. /\ copyPc'[h] = copyPc[h] /\ err'[h] = err[h]
          /\ got'[h] = got[h] /\ buf'[h] = buf[h]
      BY <1>4, <1>5, <2>2, Zenon DEF Moved
    <3> QED BY <1>b, <1>0, <3>1, Untouched, Zenon
  <2> QED BY <2>1, <2>2, Zenon
<1> QED BY <1>6, <1>7, Zenon DEF RelayInv

\* The end of copyThenClose: nothing is copied any more.
LEMMA RelayCloseStep ==
  ASSUME RelayInv, NEW g \in Dirs, Select(g) \/ CloseSockets(g)
  PROVE  RelayInv'
<1>a. Typed
  BY DEF RelayInv
<1>b. \A h \in Dirs : InOrder(h) /\ EOFInv(h)
  BY DEF RelayInv
<1>0. UNCHANGED <<peerVars, read, buf, rerr, got, err>>
  BY Zenon DEF Select, CloseSockets
<1>1. PICK l \in {"closeRemote", "closeLocal", "returned"} : copyPc' = [copyPc EXCEPT ![g] = l]
  BY Zenon DEF Select, CloseSockets
<1>2. /\ first' \in Dirs /\ (first # "none" => first' = first)
      /\ first' # g => first' = first /\ copyPc'[g] = "returned"
      /\ open' \in [Dirs -> BOOLEAN]
  <2>1. CASE Select(g)
    BY <1>a, <1>b, <2>1, Zenon DEF Select, Typed, EOFInv
  <2>2. CASE CloseSockets(g)
    BY <1>a, <1>b, <2>2, Zenon DEF CloseSockets, Typed, EOFInv
  <2> QED BY <2>1, <2>2, Zenon
<1>3. Typed'
  BY <1>a, <1>0, <1>1, <1>2, Zenon DEF Typed, CopyPcs, peerVars
<1>4. ASSUME NEW h \in Dirs PROVE InOrder(h)'
  BY <1>a, <1>b, <1>0, <1>1, Zenon DEF InOrder, Typed, peerVars
<1>5. ASSUME NEW h \in Dirs PROVE EOFInv(h)'
  <2>0. "none" \notin Dirs /\ h \in Dirs /\ Other(h) \in Dirs /\ EOFInv(h)
    BY <1>b, OtherDir, Zenon DEF Dirs
  <2>1. copyPc'[g] \in {"closeRemote", "closeLocal", "returned"} /\ (h # g => copyPc'[h] = copyPc[h])
    BY <1>a, <1>1, Zenon DEF Typed
  <2>2. copyPc'[h] \in {"read", "write"} => err'[h].err = "nil"
    BY <1>0, <2>0, <2>1, Zenon DEF EOFInv
  <2>3. first' = h => copyPc'[h] \in {"closeRemote", "closeLocal", "returned"}
    BY <1>2, <2>0, <2>1, Zenon DEF EOFInv
  <2>4. copyPc'[h] \in {"closeRemote", "closeLocal"} => first' = h
    BY <1>2, <2>0, <2>1, Zenon DEF EOFInv
  <2>5. first = Other(h) => first' = Other(h)
    BY <1>2, <2>0, Zenon
  <2>6. first' # "none"
    BY <1>2, <2>0, Zenon
  <2> QED BY <1>0, <2>0, <2>2, <2>3, <2>4, <2>5, <2>6, Zenon DEF EOFInv, peerVars
<1> QED BY <1>3, <1>4, <1>5, Zenon DEF RelayInv

\* The inductive invariant holds of every behaviour of the two copying
\* goroutines (copyThenClose, myCopy), whatever the peers do.
THEOREM RelayInvariance == RelaySpec => []RelayInv
<1>1. RelayInv /\ [RelayNext]_relayVars => RelayInv'
  <2> SUFFICES ASSUME RelayInv, [RelayNext]_relayVars PROVE RelayInv'
    BY Zenon
  <2>1. CASE UNCHANGED relayVars
    BY <2>1 DEF relayVars, peerVars, RelayInv, Typed, InOrder, EOFInv
  <2> QED BY <2>1, PeerStep, ReadStep, WriteStep, RelayCloseStep, Zenon DEF RelayNext, Copier, CopierAlone
<1> QED BY <1>1, RelayInitInv, PTL DEF RelaySpec

\* Each side gets what the other one sent, in order and without gaps (myCopy).
THEOREM DeliversInOrder == RelaySpec => []PrefixIsDelivered
<1>1. RelayInv => PrefixIsDelivered
  <2> SUFFICES ASSUME RelayInv, NEW g \in Dirs
               PROVE  got[g] = [k \in 1..Len(got[g]) |-> k] /\ Len(got[g]) <= sent[g]
    BY Zenon DEF PrefixIsDelivered
  <2>1. Typed /\ InOrder(g)
    BY Zenon DEF RelayInv
  <2>2. /\ got[g] \in Seq(Nat) /\ Len(got[g]) \in Nat /\ read[g] \in Nat /\ sent[g] \in Nat
        /\ \A k \in 1..Len(got[g]) : got[g][k] = k
        /\ Len(got[g]) <= read[g] /\ read[g] <= sent[g]
    BY <2>1 DEF Typed, InOrder
  <2>3. got[g] = [k \in 1..Len(got[g]) |-> got[g][k]]
    BY <2>2
  <2>4. got[g] = [k \in 1..Len(got[g]) |-> k]
    BY <2>2, <2>3, Zenon
  <2>5. Len(got[g]) <= sent[g]
    BY <2>2
  <2> QED BY <2>4, <2>5, Zenon
<1> QED BY <1>1, RelayInvariance, PTL

\* When a clean close ends the connection, everything its side sent was written
\* before copyThenClose closes the sockets, unless the other side was broken.
THEOREM CleanCloseLosesNothing == RelaySpec => []CleanCloseDelivers
<1>1. RelayInv => CleanCloseDelivers
  BY OtherDir, Zenon DEF RelayInv, EOFInv, CleanCloseDelivers
<1> QED BY <1>1, RelayInvariance, PTL

\* Both: what is copied is what was sent, and a clean close loses nothing.
THEOREM RelayIsFaithful == RelaySpec => []RelayDelivers
BY DeliversInOrder, CleanCloseLosesNothing, PTL DEF RelayDelivers

-----------------------------------------------------------------------------
(* DialClient.                                                             *)

\* Init has returned to some caller.
InitReturned == \E i \in Initers : dialPc[i] = "ended"

\* Call d has begun after Init last returned.
Later(d) == Call(d) \notin overtaken

\* The inductive invariant: a call that is about to read the client again has
\* set one; and once Init has returned no later call finds none, so that only the
\* calls that Init has overtaken can still put their own client there.
DialInv ==
  /\ DialTypeOK
  /\ \A d \in Dialers : dialPc[d] = "reread" => client # Nil
  /\ DialHasClient
  /\ InitReturned =>
       /\ client # Nil /\ FromInit(client)
       /\ \A d \in Dialers : Later(d) => dialPc[d] \in {"start", "dial"}
       /\ \A d \in Dialers : Later(d) /\ dialPc[d] = "dial" => FromInit(local[d])

\* No client has been made at first.
LEMMA DialInitInv == DialInit => DialInv
<1> SUFFICES ASSUME DialInit PROVE DialInv
  BY Zenon
<1> USE DialAssumption DEF DialInit
<1>1. DialTypeOK
  BY DEF DialTypeOK
<1> QED BY <1>1, Zenon DEF DialInv, DialHasClient, InitReturned

\* A call is a client of the goroutine that makes it, and not nil.
LEMMA CallFacts ==
  ASSUME DialTypeOK, NEW g \in Dialers \cup Initers
  PROVE  Call(g) \in Calls /\ Call(g) # Nil /\ Call(g)[1] = g
<1>1. Call(g) = <<g, calls[g]>> /\ calls[g] \in 0..MaxDials
  BY Zenon DEF Call, DialTypeOK
<1>2. Call(g) # Nil
  BY <1>1 DEF Nil
<1> QED BY <1>1, <1>2 DEF Calls

\* The steps of Init and of DialContext.
LEMMA DialNextInv ==
  ASSUME DialInv, [DialNext]_dialVars
  PROVE  DialInv'
<1> DEFINE DialPcs == {"start", "default", "init", "reread", "dial", "failed", "ended"}
<1>0. /\ dialPc \in [Dialers \cup Initers -> DialPcs]
      /\ local \in [Dialers -> Calls \cup {Nil}] /\ client \in Calls \cup {Nil}
      /\ calls \in [Dialers \cup Initers -> 0..MaxDials] /\ overtaken \subseteq Calls
  BY Zenon DEF DialInv, DialTypeOK
<1> USE DialAssumption, <1>0 DEF DialInv, DialHasClient, DialGoto
<1>1. ASSUME NEW i \in Initers, InitWithClient(i) PROVE DialInv'
  <2>1. /\ client' = Call(i) /\ dialPc' = [dialPc EXCEPT ![i] = "ended"]
        /\ overtaken' = {Call(d) : d \in {e \in Dialers : dialPc[e] # "start"}}
        /\ local' = local /\ calls' = calls
    BY <1>1, Zenon DEF InitWithClient
  <2>2. /\ Call(i) \in Calls /\ Call(i) # Nil /\ Call(i)[1] = i
        /\ \A d \in Dialers : Call(d) \in Calls /\ Call(d)' = Call(d)
    BY <2>1, CallFacts, Zenon DEF Call
  <2>3. DialTypeOK'
    BY <2>1, <2>2 DEF DialTypeOK
  <2>4. \A d \in Dialers : dialPc'[d] = dialPc[d]
    BY <2>1, Zenon
  <2>5. \A d \in Dialers : Later(d)' => dialPc[d] = "start"
    BY <2>1, <2>2, Zenon DEF Later
  <2> QED BY <2>1, <2>2, <2>3, <2>4, <2>5, Zenon DEF FromInit
<1>2. ASSUME NEW d \in Dialers, UNCHANGED overtaken, UNCHANGED client \/ client' = Call(d),
             calls' \in [Dialers \cup Initers -> 0..MaxDials],
             local' \in [Dialers -> Calls \cup {Nil}], dialPc' \in [Dialers \cup Initers -> DialPcs],
             \A e \in Dialers \ {d} : calls'[e] = calls[e] /\ local'[e] = local[e],
             \A e \in (Dialers \cup Initers) \ {d} : dialPc'[e] = dialPc[e],
             dialPc'[d] = "reread" => client' # Nil,
             dialPc'[d] = "dial" => local'[d] # Nil,
             InitReturned /\ client' # client => ~Later(d),
             InitReturned /\ Later(d)' =>
               /\ dialPc'[d] \in {"start", "dial"}
               /\ dialPc'[d] = "dial" => FromInit(local'[d])
      PROVE  DialInv'
  <2>1. Call(d) \in Calls /\ Call(d) # Nil
    BY CallFacts, Zenon
  <2>2. DialTypeOK'
    BY <1>2, <2>1, Zenon DEF DialTypeOK
  <2>3. InitReturned' <=> InitReturned
    BY <1>2, Zenon DEF InitReturned
  <2>4. \A c : FromInit(c)' <=> FromInit(c)
    BY <1>2, Zenon DEF FromInit
  <2>5. \A e \in Dialers \ {d} : Later(e)' <=> Later(e)
    BY <1>2, Zenon DEF Later, Call
  <2>6. client # Nil => client' # Nil
    BY <1>2, <2>1, Zenon
  <2>7. InitReturned => client' # Nil /\ FromInit(client')
    BY <1>2, <2>6, Zenon DEF Later, FromInit
  <2>8. \A e \in Dialers : dialPc'[e] = "reread" => client' # Nil
    BY <1>2, <2>6, Zenon
  <2>9. DialHasClient'
    BY <1>2, Zenon
  <2>10. ASSUME InitReturned, NEW e \in Dialers, Later(e)'
         PROVE  dialPc'[e] \in {"start", "dial"} /\ (dialPc'[e] = "dial" => FromInit(local'[e]))
    BY <1>2, <2>5, <2>10, Zenon
  <2> QED BY <2>2, <2>3, <2>4, <2>7, <2>8, <2>9, <2>10, Zenon
<1>3. ASSUME NEW d \in Dialers, DialRead(d) PROVE DialInv'
  <2>1. /\ calls' = [calls EXCEPT ![d] = @ + 1] /\ calls[d] < MaxDials
        /\ dialPc' = [dialPc EXCEPT ![d] = IF client = Nil THEN "default" ELSE "dial"]
        /\ local' = [local EXCEPT ![d] = client] /\ UNCHANGED <<client, overtaken>>
    BY <1>3, Zenon DEF DialRead, FindsNil
  <2>2. calls' \in [Dialers \cup Initers -> 0..MaxDials]
    BY <2>1
  <2> QED BY <1>2, <2>1, <2>2, Zenon
<1>4. ASSUME NEW d \in Dialers, DefaultClient(d) PROVE DialInv'
  <2>1. /\ dialPc[d] = "default" /\ UNCHANGED <<client, local, calls, overtaken>>
        /\ dialPc' = [dialPc EXCEPT ![d] = "init"] \/ dialPc' = [dialPc EXCEPT ![d] = "failed"]
    BY <1>4, Zenon DEF DefaultClient
  <2>2. Later(d)' => Later(d)
    BY <2>1, Zenon DEF Later, Call
  <2>3. dialPc' \in [Dialers \cup Initers -> DialPcs] /\ dialPc'[d] \in {"init", "failed"}
        /\ \A e \in (Dialers \cup Initers) \ {d} : dialPc'[e] = dialPc[e]
    BY <2>1, Zenon
  <2>4. InitReturned => ~Later(d)
    BY <2>1, Zenon
  <2>5. dialPc'[d] # "reread" /\ dialPc'[d] # "dial"
    BY <2>3, Zenon
  <2> HIDE DEF DialPcs
  <2> QED BY <1>2, <2>1, <2>2, <2>3, <2>4, <2>5, Zenon
<1>5. ASSUME NEW d \in Dialers, InitDefault(d) PROVE DialInv'
  <2>1. /\ dialPc[d] = "init" /\ UNCHANGED <<local, calls, overtaken>> /\ client' = Call(d)
        /\ dialPc' = [dialPc EXCEPT ![d] = "reread"]
    BY <1>5, Zenon DEF InitDefault
  <2>2. Later(d)' => Later(d)
    BY <2>1, Zenon DEF Later, Call
  <2> QED BY <1>2, <2>1, <2>2, CallFacts, Zenon
<1>6. ASSUME NEW d \in Dialers, DialReread(d) PROVE DialInv'
  <2>1. /\ dialPc[d] = "reread" /\ UNCHANGED <<client, calls, overtaken>>
        /\ local' = [local EXCEPT ![d] = client] /\ dialPc' = [dialPc EXCEPT ![d] = "dial"]
    BY <1>6, Zenon DEF DialReread
  <2>2. Later(d)' => Later(d)
    BY <2>1, Zenon DEF Later, Call
  <2> QED BY <1>2, <2>1, <2>2, Zenon
<1>7. ASSUME NEW d \in Dialers, DialReturn(d) PROVE DialInv'
  <2>1. /\ UNCHANGED <<client, calls, overtaken>> /\ local' = [local EXCEPT ![d] = Nil]
        /\ dialPc' = [dialPc EXCEPT ![d] = "start"]
    BY <1>7, Zenon DEF DialReturn
  <2> QED BY <1>2, <2>1, Zenon
<1>8. CASE UNCHANGED dialVars
  BY <1>8, Zenon DEF dialVars, DialTypeOK, InitReturned, Later, Call, FromInit
<1> QED
  BY <1>1, <1>3, <1>4, <1>5, <1>6, <1>7, <1>8, Zenon DEF DialNext

\* DialContext never dials with a nil client, although others replace it; and a
\* call that begins after Init has returned dials with a client given to Init, or
\* with that of a call which was then under way.
THEOREM ClientIsUsed == DialSpec => []DialUsesClient
<1>1. DialInv /\ [DialNext]_dialVars => DialInv'
  BY DialNextInv
<1>2. DialInv => DialUsesClient
  <2>1. DialInv => GivenClientIsUsed
    BY Zenon DEF DialInv, InitReturned, Later, GivenClientIsUsed
  <2> QED BY <2>1, Zenon DEF DialInv, DialUsesClient
<1> QED BY <1>1, <1>2, DialInitInv, PTL DEF DialSpec

-----------------------------------------------------------------------------
(* CertSource.                                                             *)

\* What FirstIn returns is the first index of an element of the set.
LEMMA FirstInFinds ==
  ASSUME NEW s \in Seq(AddrTypes), NEW S, FirstIn(s, S) # 0
  PROVE  /\ FirstIn(s, S) \in DOMAIN s /\ s[FirstIn(s, S)] \in S
         /\ \A n \in 1..FirstIn(s, S) - 1 : n \in DOMAIN s /\ s[n] \notin S
<1> DEFINE at == {n \in DOMAIN s : s[n] \in S /\ \A m \in 1..n - 1 : s[m] \notin S}
<1>1. at # {} /\ FirstIn(s, S) = CHOOSE n \in at : TRUE
  BY Zenon DEF FirstIn
<1>2. FirstIn(s, S) \in at
  <2> HIDE DEF at
  <2> QED BY <1>1, Zenon
<1>3. DOMAIN s = 1..Len(s) /\ Len(s) \in Nat
  OBVIOUS
<1> QED BY <1>2, <1>3

\* The address findIPAddr chooses is of a wanted type, and the instance has none
\* of a type wanted more.
LEMMA FindIPAddrFinds ==
  ASSUME types \in Seq(AddrTypes), NEW ips \in Seq(AddrTypes), FindIPAddr(ips) # 0
  PROVE  /\ FindIPAddr(ips) \in DOMAIN ips
         /\ \E n \in DOMAIN types :
              /\ Upper(ips[FindIPAddr(ips)]) = Upper(types[n])
              /\ \A m \in 1..n - 1, k \in DOMAIN ips : Upper(ips[k]) # Upper(types[m])
<1> DEFINE wanted == FirstIn(types, Named(types, Range(ips)))
           found == FirstIn(ips, Named(ips, {types[wanted]}))
<1>1. wanted # 0 /\ FindIPAddr(ips) = found
  BY Zenon DEF FindIPAddr
<1>2. /\ wanted \in DOMAIN types
      /\ \A n \in 1..wanted - 1 : n \in DOMAIN types /\ types[n] \notin Named(types, Range(ips))
  BY <1>1, FirstInFinds, Zenon
<1>3. found \in DOMAIN ips /\ ips[found] \in Named(ips, {types[wanted]})
  BY <1>1, FirstInFinds, Zenon
<1>4. ASSUME NEW m \in 1..wanted - 1, NEW k \in DOMAIN ips PROVE Upper(ips[k]) # Upper(types[m])
  BY <1>2, Zenon DEF Named, Range
<1> QED BY <1>1, <1>2, <1>3, <1>4, Zenon DEF Named

\* One of the two generates the key, once; from LocalKey on it is there, and the
\* request has it.
KeyInv ==
  /\ bg = "generate" \/ pc = "generate" => once = "busy"
  /\ ~(bg = "generate" /\ pc = "generate")
  /\ pc \in {"token", "refresh", "create", "parse", "get", "check"} => once = "done"
  /\ pc \in {"token", "refresh", "create", "parse"} => pub = key
  /\ pc \notin {"get", "check", "returned"} => priv = 0
  /\ KeyMatches

\* Before its last attempt a backoffAPIRetry has met server errors only; after it
\* Local and Remote go on only if it was good.
RetryInv ==
  /\ RetryContract
  /\ pc \in {"idle", "key", "generate", "token", "refresh"} => outcomes = <<>>
  /\ pc \in {"create", "get"} =>
       Len(outcomes) < Retries /\ \A n \in 1..Len(outcomes) : outcomes[n] = "5xx"
  /\ pc \in {"parse", "check"} => outcomes # <<>> /\ outcomes[Len(outcomes)] = "ok"
  /\ pc # "returned" => certErr = "nil"

\* The inductive invariant: with who generates the key and what the attempts
\* returned, what a refreshCfg has got so far is right.
CertInv ==
  /\ CertTypeOK
  /\ KeyInv
  /\ RetryInv
  /\ ExpiryBounded
  /\ RemoteIsSound
  /\ PreferredAddress

\* Before the first refreshCfg, with the types of checkIPAddrTypes.
LEMMA CertInitInv == CertInit => CertInv
<1> SUFFICES ASSUME CertInit PROVE CertInv
  OBVIOUS
<1> USE CertAssumption
<1>1. types \in Seq(AddrTypes)
  <2>1. PICK opts \in UserTypes : types = IPAddrTypes(opts)
    BY Zenon DEF CertInit
  <2> DEFINE given == IF opts = <<>> THEN <<"PUBLIC", "PRIVATE">> ELSE opts
  <2>2. {"PUBLIC", "PRIVATE", "PRIMARY"} \subseteq AddrTypes /\ opts \in Seq(AddrTypes)
    BY Zenon
  <2>3. given \in Seq(AddrTypes)
    BY <2>2
  <2>4. types = [n \in DOMAIN given |-> IF Upper(given[n]) = "PUBLIC" THEN "PRIMARY" ELSE given[n]]
    BY <2>1, Zenon DEF IPAddrTypes
  <2> HIDE DEF given
  <2> QED BY <2>2, <2>3, <2>4
<1>2. CertTypeOK
  BY <1>1 DEF CertInit, CertTypeOK, Pcs, NoData, Regions, Errors, OwnErrors, Outcomes
<1>3. KeyInv
  BY Zenon DEF CertInit, KeyInv, KeyMatches
<1>4. RetryInv
  BY DEF CertInit, RetryInv, RetryContract
<1>5. ExpiryBounded /\ RemoteIsSound /\ PreferredAddress
  BY Zenon DEF CertInit, ExpiryBounded, RemoteIsSound, PreferredAddress
<1> QED BY <1>2, <1>3, <1>4, <1>5, Zenon DEF CertInv

\* backoffAPIRetry turns each outcome into an error of its own, and only the good
\* one into none.
LEMMA ErrorOfOutcome ==
  ASSUME NEW o \in Outcomes
  PROVE  ErrorOf(o) \in Errors /\ (ErrorOf(o) = "nil" <=> o = "ok")
BY Zenon DEF ErrorOf, Outcomes, Errors

\* An attempt is recorded last and leaves the earlier ones as they are.
LEMMA Attempt ==
  ASSUME NEW o \in Outcomes, outcomes \in Seq(Outcomes), outcomes' = Append(outcomes, o)
  PROVE  /\ outcomes' \in Seq(Outcomes) /\ outcomes' # <<>> /\ outcomes'[Len(outcomes')] = o
         /\ Len(outcomes') = Len(outcomes) + 1
         /\ \A n \in 1..Len(outcomes) : outcomes'[n] = outcomes[n]
<1>1. /\ outcomes' \in Seq(Outcomes) /\ Len(outcomes') = Len(outcomes) + 1
      /\ Len(outcomes) \in Nat
  OBVIOUS
<1>2. /\ outcomes'[Len(outcomes) + 1] = o
      /\ \A n \in 1..Len(outcomes) : outcomes'[n] = outcomes[n]
  OBVIOUS
<1>3. outcomes' # <<>>
  BY <1>1
<1> QED BY <1>1, <1>2, <1>3, Zenon

\* A step keeps the types.
LEMMA CertNextType ==
  ASSUME CertTypeOK, [CertNext]_certVars
  PROVE  CertTypeOK'
<1> USE CertAssumption DEF CertTypeOK
<1>1. CASE BgGenerates
  BY <1>1, Zenon DEF BgGenerates, optVars, tokVars, resVars
<1>2. CASE BgHasKey
  BY <1>2 DEF BgHasKey, optVars, tokVars, resVars
<1>3. CASE LocalCall
  <2>1. certErr' \in Errors
    BY <1>3, Zenon DEF LocalCall, Errors
  <2>2. outcomes' \in Seq(Outcomes) /\ certCalls' \in 0..MaxCalls
    BY <1>3 DEF LocalCall
  <2> QED BY <1>3, <2>1, <2>2, Zenon DEF LocalCall, CertGoto, optVars, keyVars, tokVars, resVars, Pcs
<1>4. CASE LocalKey
  BY <1>4, Zenon DEF LocalKey, CertGoto, optVars, keyVars, tokVars, resVars, Pcs
<1>5. CASE LocalGenerates
  BY <1>5, Zenon DEF LocalGenerates, CertGoto, optVars, tokVars, resVars, Pcs
<1>6. CASE LocalGenerated
  BY <1>6 DEF LocalGenerated, CertGoto, optVars, tokVars, resVars, Pcs
<1>7. CASE LocalToken
  <2>1. cached' \in Nat
    BY <1>7 DEF LocalToken, Token, TokenFails
  <2>2. certErr' \in Errors \cup OwnErrors
    BY <1>7, Zenon DEF LocalToken, Token, TokenFails, OwnErrors
  <2> QED BY <1>7, <2>1, <2>2, Zenon DEF LocalToken, CertGoto, optVars, keyVars, resVars, Pcs
<1>8. CASE LocalRefresh
  <2>1. cached' \in Nat
    BY <1>8 DEF LocalRefresh, Token, TokenFails
  <2>2. certErr' \in Errors \cup OwnErrors
    BY <1>8, Zenon DEF LocalRefresh, Token, TokenFails, OwnErrors
  <2> QED BY <1>8, <2>1, <2>2, Zenon DEF LocalRefresh, CertGoto, optVars, keyVars, resVars, Pcs
<1>9. CASE LocalReturn
  <2>1. notAfter' \in Nat /\ priv' \in Nat
    BY <1>9, Zenon DEF LocalReturn, Earlier
  <2>2. certErr' \in Errors \cup OwnErrors
    BY <1>9, Zenon DEF LocalReturn, OwnErrors
  <2>3. outcomes' \in Seq(Outcomes)
    <3>1. <<>> \in Seq(Outcomes) /\ (outcomes' = outcomes \/ outcomes' = <<>>)
      BY <1>9 DEF LocalReturn
    <3> QED BY <3>1, Zenon
  <2> QED BY <1>9, <2>1, <2>2, <2>3, Zenon DEF LocalReturn, CertGoto, optVars, keyVars, tokVars, Pcs
<1>10. CASE Retry
  BY <1>10, Attempt, Zenon DEF Retry, optVars, keyVars, tokVars, resVars
<1>11. CASE LocalCreated
  <2>1. PICK o \in Outcomes : LastAttempt(o)
    BY <1>11, Zenon DEF LocalCreated
  <2>2. outcomes' \in Seq(Outcomes) /\ certErr' \in Errors
    BY <2>1, Attempt, ErrorOfOutcome, Zenon DEF LastAttempt
  <2> QED BY <1>11, <2>2 DEF LocalCreated, optVars, keyVars, tokVars, Pcs
<1>12. CASE RemoteGot
  <2>1. PICK o \in Outcomes :
           /\ LastAttempt(o)
           /\ data' \in IF o = "ok" THEN [region : Regions, ips : InstanceTypes, firstGen : BOOLEAN]
                        ELSE {NoData}
    BY <1>12, Zenon DEF RemoteGot
  <2>2. outcomes' \in Seq(Outcomes) /\ certErr' \in Errors
    BY <2>1, Attempt, ErrorOfOutcome, Zenon DEF LastAttempt
  <2>3. data' \in [region : Regions, ips : Seq(AddrTypes), firstGen : BOOLEAN]
    <3>1. NoData \in [region : Regions, ips : Seq(AddrTypes), firstGen : BOOLEAN]
      BY DEF NoData, Regions
    <3> QED BY <2>1, <3>1, Zenon
  <2> QED BY <1>12, <2>2, <2>3, Zenon DEF RemoteGot, optVars, keyVars, tokVars, Pcs
<1>13. CASE RemoteReturn
  <2>1. DataError \in OwnErrors \cup {"nil"}
    BY Zenon DEF DataError, OwnErrors
  <2>2. certErr' \in Errors \cup OwnErrors
    BY <1>13, <2>1, Zenon DEF RemoteReturn, Errors, OwnErrors
  <2>3. addr' \in Nat
    <3>1. addr' = IF DataError = "nil" THEN FindIPAddr(data.ips) ELSE 0
      BY <1>13, Zenon DEF RemoteReturn
    <3>2. DataError = "nil" => FindIPAddr(data.ips) # 0
      BY Zenon DEF DataError
    <3>3. types \in Seq(AddrTypes) /\ data.ips \in Seq(AddrTypes)
      BY Zenon
    <3>4. FindIPAddr(data.ips) # 0 => FindIPAddr(data.ips) \in DOMAIN data.ips
      BY <3>3, FindIPAddrFinds, Zenon
    <3>5. DOMAIN data.ips \subseteq Nat
      BY <3>3
    <3> QED BY <3>1, <3>2, <3>4, <3>5, Zenon
  <2> QED BY <1>13, <2>2, <2>3, Zenon DEF RemoteReturn, CertGoto, optVars, keyVars, tokVars, Pcs
<1>14. CASE RefreshReturn
  <2>1. NoData \in [region : Regions, ips : Seq(AddrTypes), firstGen : BOOLEAN]
    BY DEF NoData, Regions
  <2>2. data' = NoData /\ certErr' \in Errors
    BY <1>14, Zenon DEF RefreshReturn, Errors
  <2>3. outcomes' \in Seq(Outcomes)
    BY <1>14 DEF RefreshReturn
  <2> QED BY <1>14, <2>1, <2>2, <2>3, Zenon DEF RefreshReturn, CertGoto, optVars, keyVars, Pcs
<1>15. CASE Tick
  <2>1. now' \in 1..MaxTime
    BY <1>15 DEF Tick
  <2> QED BY <1>15, <2>1, Zenon DEF Tick, optVars, keyVars, tokVars, resVars
<1>16. CASE UNCHANGED certVars
  BY <1>16, Zenon DEF certVars, optVars, keyVars, tokVars, resVars
<1> QED
  BY <1>1, <1>2, <1>3, <1>4, <1>5, <1>6, <1>7, <1>8, <1>9, <1>10, <1>11, <1>12, <1>13,
     <1>14, <1>15, <1>16, Zenon DEF CertNext, RefreshStep

\* The sync.Once keeps the key, whether generateKey runs in the background or in
\* Local.
LEMMA CertNextKey ==
  ASSUME CertTypeOK, KeyInv, [CertNext]_certVars
  PROVE  KeyInv'
<1> USE DEF KeyInv, KeyMatches, CertTypeOK
<1>1. CASE BgGenerates
  BY <1>1, Zenon DEF BgGenerates, OnceFirst, resVars
<1>2. CASE BgHasKey
  BY <1>2, Zenon DEF BgHasKey, resVars
<1>3. CASE LocalCall
  BY <1>3, Zenon DEF LocalCall, CertGoto, keyVars, resVars
<1>4. CASE LocalKey
  BY <1>4, Zenon DEF LocalKey, CertGoto, keyVars, resVars
<1>5. CASE LocalGenerates
  BY <1>5, Zenon DEF LocalGenerates, OnceFirst, CertGoto, resVars
<1>6. CASE LocalGenerated
  BY <1>6, Zenon DEF LocalGenerated, CertGoto, resVars
<1>7. CASE LocalToken
  BY <1>7, Zenon DEF LocalToken, CertGoto, keyVars, resVars
<1>8. CASE LocalRefresh
  BY <1>8, Zenon DEF LocalRefresh, CertGoto, keyVars, resVars
<1>9. CASE LocalReturn
  BY <1>9, Zenon DEF LocalReturn, CertGoto, keyVars
<1>10. CASE Retry
  BY <1>10, Zenon DEF Retry, keyVars, resVars
<1>11. CASE LocalCreated
  BY <1>11, Zenon DEF LocalCreated, keyVars
<1>12. CASE RemoteGot
  BY <1>12, Zenon DEF RemoteGot, keyVars
<1>13. CASE RemoteReturn
  BY <1>13, Zenon DEF RemoteReturn, CertGoto, keyVars
<1>14. CASE RefreshReturn
  BY <1>14, Zenon DEF RefreshReturn, CertGoto, keyVars
<1>15. CASE Tick
  BY <1>15, Zenon DEF Tick, keyVars, resVars
<1>16. CASE UNCHANGED certVars
  BY <1>16, Zenon DEF certVars, keyVars, resVars
<1> QED
  BY <1>1, <1>2, <1>3, <1>4, <1>5, <1>6, <1>7, <1>8, <1>9, <1>10, <1>11, <1>12, <1>13,
     <1>14, <1>15, <1>16, Zenon DEF CertNext, RefreshStep

\* An attempt after server errors only, with attempts left before it.
LEMMA AttemptKeepsContract ==
  ASSUME NEW o \in Outcomes, CertTypeOK, RetryInv, pc \in {"create", "get"},
         outcomes' = Append(outcomes, o)
  PROVE  /\ Len(outcomes') <= Retries
         /\ \A n \in 1..Len(outcomes') - 1 : outcomes'[n] = "5xx"
         /\ outcomes' # <<>> /\ outcomes'[Len(outcomes')] = o
<1>1. outcomes \in Seq(Outcomes) /\ Len(outcomes) < Retries
      /\ \A n \in 1..Len(outcomes) : outcomes[n] = "5xx"
  BY Zenon DEF CertTypeOK, RetryInv
<1>2. /\ outcomes' # <<>> /\ outcomes'[Len(outcomes')] = o
      /\ Len(outcomes') = Len(outcomes) + 1
      /\ \A n \in 1..Len(outcomes) : outcomes'[n] = outcomes[n]
  BY <1>1, Attempt, Zenon
<1>3. Len(outcomes) \in Nat
  BY <1>1
<1> QED BY <1>1, <1>2, <1>3, CertAssumption

\* What backoffAPIRetry does after each outcome.
LEMMA CertNextRetry ==
  ASSUME CertTypeOK, RetryInv, [CertNext]_certVars
  PROVE  RetryInv'
<1> DEFINE Step == BgGenerates \/ BgHasKey \/ LocalKey \/ LocalGenerates \/ LocalGenerated
                   \/ Tick \/ UNCHANGED certVars
<1>1. CASE Step
  <2>1. /\ UNCHANGED <<outcomes, certErr>>
        /\ \/ pc' = pc
           \/ pc \in {"key", "generate"} /\ pc' \in {"key", "generate", "token"}
           \/ pc = "key" /\ pc' = "create"
    BY <1>1, Zenon DEF BgGenerates, BgHasKey, LocalKey, LocalGenerates, LocalGenerated, Tick, certVars,
                CertGoto
  <2> QED BY <2>1, CertAssumption DEF RetryInv, RetryContract
<1>2. CASE LocalCall \/ RefreshReturn
  <2>1. outcomes' = <<>> /\ certErr' = "nil" /\ pc' \in {"key", "idle"}
    BY <1>2, Zenon DEF LocalCall, RefreshReturn, CertGoto
  <2> QED BY <2>1, CertAssumption DEF RetryInv, RetryContract
<1>3. CASE LocalToken \/ LocalRefresh
  <2>1. outcomes' = <<>> /\ pc' \in {"refresh", "create", "returned"}
        /\ (pc' # "returned" => certErr' = "nil")
    BY <1>3, Zenon DEF LocalToken, LocalRefresh, Token, TokenFails, CertGoto, RetryInv
  <2> QED BY <2>1, CertAssumption DEF RetryInv, RetryContract
<1>4. CASE LocalReturn
  <2>1. CASE pc' = "get"
    <3>1. outcomes' = <<>> /\ certErr' = "nil"
      BY <1>4, <2>1, Zenon DEF LocalReturn, CertGoto, RetryInv
    <3> QED BY <2>1, <3>1, CertAssumption DEF RetryInv, RetryContract
  <2>2. CASE pc' = "returned"
    <3>1. outcomes' = outcomes /\ certErr' = "parse"
      BY <1>4, <2>2, Zenon DEF LocalReturn, CertGoto
    <3> QED BY <2>2, <3>1, Zenon DEF RetryInv, RetryContract, Errors
  <2> QED BY <1>4, <2>1, <2>2, Zenon DEF LocalReturn, CertGoto
<1>5. CASE Retry
  <2>1. PICK o \in Outcomes : ~Final(o) /\ AttemptsLeft /\ outcomes' = Append(outcomes, o)
    BY <1>5, Zenon DEF Retry
  <2>2. pc \in {"create", "get"} /\ UNCHANGED <<pc, certErr>>
    BY <1>5, Zenon DEF Retry
  <2>3. RetryContract'
    BY <2>1, <2>2, AttemptKeepsContract, Zenon DEF RetryContract
  <2>4. Len(outcomes') < Retries /\ \A n \in 1..Len(outcomes') : outcomes'[n] = "5xx"
    <3>1. outcomes \in Seq(Outcomes) /\ \A n \in 1..Len(outcomes) : outcomes[n] = "5xx"
      BY <2>2, Zenon DEF CertTypeOK, RetryInv
    <3>2. o = "5xx" /\ Len(outcomes) + 1 < Retries
      BY <2>1, Zenon DEF Final, AttemptsLeft
    <3> QED BY <2>1, <3>1, <3>2
  <2> QED BY <2>2, <2>3, <2>4, Zenon DEF RetryInv
<1>6. CASE LocalCreated \/ RemoteGot
  <2>1. pc \in {"create", "get"}
    BY <1>6, Zenon DEF LocalCreated, RemoteGot
  <2>2. PICK o \in Outcomes : /\ LastAttempt(o)
                              /\ pc' \in IF o = "ok" THEN {"parse", "check"} ELSE {"returned"}
    BY <1>6, Zenon DEF LocalCreated, RemoteGot
  <2>3. outcomes' = Append(outcomes, o) /\ certErr' = ErrorOf(o)
    BY <2>2, Zenon DEF LastAttempt
  <2>4. RetryContract' /\ outcomes' # <<>> /\ outcomes'[Len(outcomes')] = o
    BY <2>1, <2>3, AttemptKeepsContract, Zenon DEF RetryContract
  <2>5. pc' # "returned" => o = "ok" /\ certErr' = "nil"
    BY <2>2, <2>3, ErrorOfOutcome, Zenon
  <2> QED BY <2>2, <2>4, <2>5, Zenon DEF RetryInv
<1>7. CASE RemoteReturn
  <2>1. outcomes' = outcomes /\ pc = "check" /\ pc' = "returned"
    BY <1>7, Zenon DEF RemoteReturn, CertGoto
  <2>2. certErr' \in Errors => certErr' = "nil"
    BY <1>7, Zenon DEF RemoteReturn, DataError, Errors
  <2>3. ErrorOf("ok") = "nil"
    BY Zenon DEF ErrorOf
  <2> QED BY <2>1, <2>2, <2>3, Zenon DEF RetryInv, RetryContract
<1> QED
  BY <1>1, <1>2, <1>3, <1>4, <1>5, <1>6, <1>7, Zenon DEF CertNext, RefreshStep

\* What Local and Remote return, or the error they return instead.
LEMMA CertNextResult ==
  ASSUME CertInv, [CertNext]_certVars
  PROVE  ExpiryBounded' /\ RemoteIsSound' /\ PreferredAddress'
<1> DEFINE Same == UNCHANGED <<pc, optVars, notAfter, issued, tok, addr, data, certErr>>
           Before == {"idle", "key", "generate", "token", "refresh", "create", "parse"}
<1>1. CASE Same
  BY <1>1, Zenon DEF optVars, CertInv, ExpiryBounded, RemoteIsSound, PreferredAddress
<1>2. CASE pc' \in Before \/ (pc' = "returned" /\ certErr' # "nil")
  BY <1>2, Zenon DEF ExpiryBounded, RemoteIsSound, PreferredAddress
<1>3. CASE LocalReturn /\ pc' = "get"
  <2>1. notAfter' = (IF EnableIAMLogin THEN Earlier(tok, issued) ELSE issued)
        /\ UNCHANGED <<issued, tok, EnableIAMLogin>>
    BY <1>3, Zenon DEF LocalReturn, CertGoto, optVars, tokVars
  <2>2. issued \in Nat /\ tok \in Nat
    BY Zenon DEF CertInv, CertTypeOK
  <2>3. ExpiryBounded'
    BY <2>1, <2>2 DEF ExpiryBounded, Earlier
  <2> QED BY <1>3, <2>3, Zenon DEF RemoteIsSound, PreferredAddress
<1>4. CASE RemoteGot /\ pc' = "check"
  <2>1. pc = "get" /\ UNCHANGED <<notAfter, issued, tok, EnableIAMLogin>>
    BY <1>4, Zenon DEF RemoteGot, optVars, tokVars
  <2>2. ExpiryBounded'
    BY <2>1, Zenon DEF CertInv, ExpiryBounded
  <2> QED BY <1>4, <2>2, Zenon DEF RemoteIsSound, PreferredAddress
<1>5. CASE RemoteReturn /\ certErr' = "nil"
  <2>1. DataError = "nil"
    BY <1>5, Zenon DEF RemoteReturn
  <2>2. /\ pc' = "returned" /\ addr' = FindIPAddr(data.ips)
        /\ UNCHANGED <<data, types, checkRegion>>
    BY <1>5, <2>1, Zenon DEF RemoteReturn, CertGoto, optVars
  <2>3. ~WrongRegion /\ ~data.firstGen /\ FindIPAddr(data.ips) # 0
    BY <2>1, Zenon DEF DataError
  <2>4. /\ addr' \in DOMAIN data.ips
        /\ \E n \in DOMAIN types :
             /\ Upper(data.ips[addr']) = Upper(types[n])
             /\ \A m \in 1..n - 1, k \in DOMAIN data.ips : Upper(data.ips[k]) # Upper(types[m])
    <3>1. types \in Seq(AddrTypes) /\ data.ips \in Seq(AddrTypes)
      BY Zenon DEF CertInv, CertTypeOK
    <3> QED BY <2>2, <2>3, <3>1, FindIPAddrFinds, Zenon
  <2>5. RemoteIsSound'
    BY <2>2, <2>3, <2>4, Zenon DEF RemoteIsSound, WrongRegion
  <2>6. PreferredAddress'
    BY <2>2, <2>4, Zenon DEF PreferredAddress
  <2> QED BY <2>2, <2>5, <2>6, Zenon DEF ExpiryBounded
<1>6. ASSUME LocalCreated \/ RemoteGot, pc' = "returned" PROVE certErr' # "nil"
  <2>1. PICK o \in Outcomes : LastAttempt(o) /\ o # "ok"
    BY <1>6, Zenon DEF LocalCreated, RemoteGot
  <2> QED BY <2>1, ErrorOfOutcome, Zenon DEF LastAttempt
<1>7. ASSUME LocalCall \/ RefreshReturn \/ LocalKey \/ LocalGenerates \/ LocalGenerated
             \/ LocalToken \/ LocalRefresh
      PROVE  pc' \in Before \/ (pc' = "returned" /\ certErr' # "nil")
  BY <1>7, Zenon DEF LocalCall, RefreshReturn, LocalKey, LocalGenerates, LocalGenerated, LocalToken,
              LocalRefresh, TokenFails, CertGoto
<1>8. ASSUME LocalReturn PROVE pc' \in {"get", "returned"} /\ (pc' = "returned" => certErr' = "parse")
  BY <1>8, Zenon DEF LocalReturn, CertGoto
<1>9. ASSUME LocalCreated PROVE pc' \in {"parse", "returned"}
  BY <1>9, Zenon DEF LocalCreated
<1>10. ASSUME RemoteGot PROVE pc' \in {"check", "returned"}
  BY <1>10, Zenon DEF RemoteGot
<1>11. ASSUME RemoteReturn PROVE pc' = "returned"
  BY <1>11, Zenon DEF RemoteReturn, CertGoto
<1>12. ASSUME BgGenerates \/ BgHasKey \/ Retry \/ Tick \/ UNCHANGED certVars PROVE Same
  BY <1>12, Zenon DEF BgGenerates, BgHasKey, Retry, Tick, certVars, tokVars, resVars
<1> QED
  BY <1>1, <1>2, <1>3, <1>4, <1>5, <1>6, <1>7, <1>8, <1>9, <1>10, <1>11, <1>12, Zenon
     DEF CertNext, RefreshStep

\* Every step of a refreshCfg, of the background generation and of time.
LEMMA CertNextInv == CertInv /\ [CertNext]_certVars => CertInv'
BY CertNextType, CertNextKey, CertNextRetry, CertNextResult, Zenon DEF CertInv

\* backoffAPIRetry keeps its contract whatever the API answers.
THEOREM RetriesAreBounded == CertSpec => []RetryContract
<1>1. CertInv => RetryContract
  BY Zenon DEF CertInv, RetryInv
<1> QED BY <1>1, CertInitInv, CertNextInv, PTL DEF CertSpec

\* What a refreshCfg gets from Local and Remote is right: key, expiry, instance
\* and address.
THEOREM RefreshedConfigIsSound == CertSpec => []RefreshIsSound
<1>1. CertInv => RefreshIsSound
  BY Zenon DEF CertInv, KeyInv, RefreshIsSound
<1> QED BY <1>1, CertInitInv, CertNextInv, PTL DEF CertSpec

=============================================================================

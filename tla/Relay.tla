------------------------------- MODULE Relay -------------------------------
(***************************************************************************)
(* The data of one proxied connection: copyThenClose with two calls of     *)
(* myCopy (src/proxy/proxy/common.go), chunk by chunk.  "up" copies from   *)
(* the client ("local") to the instance ("remote"), "down" back.  The      *)
(* chunks a peer sends are numbered 1, 2, ...                              *)
(***************************************************************************)
EXTENDS Naturals, Sequences

CONSTANT MaxChunks  \* bound: number of chunks a peer sends

Dirs == {"up", "down"}
Other(g) == IF g = "up" THEN "down" ELSE "up"

VARIABLES
  sent,    \* number of chunks the source of each direction has sent
  eof,     \* the source has closed its side after them
  reset,   \* the source's connection is broken
  read,    \* number of chunks myCopy has read
  buf,     \* the chunks in its buffer
  rerr,    \* the error of its last Read
  got,     \* what has been written to the destination
  copyPc,  \* control point of each copying goroutine
  err,     \* what myCopy has returned: the error and readErr
  first,   \* who put its error into firstErr, "none" before
  open     \* the socket that direction g reads from is open

peerVars == <<sent, eof, reset>>
relayVars == <<peerVars, read, buf, rerr, got, copyPc, err, first, open>>

Errs == {"nil", "EOF", "reset", "closed", "write"}

\* Every variable has its type; an error that is returned is never nil.
RelayTypeOK ==
  /\ sent \in [Dirs -> 0..MaxChunks] /\ eof \in [Dirs -> BOOLEAN] /\ reset \in [Dirs -> BOOLEAN]
  /\ \A g \in Dirs : read[g] \in 0..sent[g] /\ rerr[g] \in Errs \ {"write"}
  /\ copyPc \in [Dirs -> {"read", "write", "ended", "closeRemote", "closeLocal", "returned"}]
  /\ \A g \in Dirs : copyPc[g] \notin {"read", "write"} <=> err[g].err # "nil"
  /\ \A g \in Dirs : err[g].readErr \in BOOLEAN
  /\ first \in Dirs \cup {"none"}
  /\ open \in [Dirs -> BOOLEAN]

RelayInit ==
  /\ sent = [g \in Dirs |-> 0]
  /\ eof = [g \in Dirs |-> FALSE]
  /\ reset = [g \in Dirs |-> FALSE]
  /\ read = [g \in Dirs |-> 0]
  /\ buf = [g \in Dirs |-> <<>>]
  /\ rerr = [g \in Dirs |-> "nil"]
  /\ got = [g \in Dirs |-> <<>>]
  /\ copyPc = [g \in Dirs |-> "read"]
  /\ err = [g \in Dirs |-> [err |-> "nil", readErr |-> FALSE]]
  /\ first = "none"
  /\ open = [g \in Dirs |-> TRUE]

-----------------------------------------------------------------------------
(* The peers.                                                              *)

PeerSends(g) ==
  /\ ~eof[g] /\ ~reset[g] /\ sent[g] < MaxChunks
  /\ sent' = [sent EXCEPT ![g] = @ + 1]
  /\ UNCHANGED <<eof, reset, read, buf, rerr, got, copyPc, err, first, open>>

PeerCloses(g) ==
  /\ ~eof[g] /\ ~reset[g]
  /\ eof' = [eof EXCEPT ![g] = TRUE]
  /\ UNCHANGED <<sent, reset, read, buf, rerr, got, copyPc, err, first, open>>

PeerBreaks(g) ==
  /\ ~reset[g]
  /\ reset' = [reset EXCEPT ![g] = TRUE]
  /\ UNCHANGED <<sent, eof, read, buf, rerr, got, copyPc, err, first, open>>

-----------------------------------------------------------------------------
(* myCopy.                                                                 *)

CopyEnds(g, e, isRead) ==
  /\ copyPc' = [copyPc EXCEPT ![g] = "ended"]
  /\ err' = [err EXCEPT ![g] = [err |-> e, readErr |-> isRead]]

\* The error a Read of the chunks up to n may come with.
ReadErrors(g, n) ==
  IF ~open[g] THEN {"closed"}
  ELSE IF reset[g] THEN {"reset"}
  ELSE {"nil"} \cup (IF eof[g] /\ n = sent[g] THEN {"EOF"} ELSE {})

\* src.Read gives chunks, an error, or chunks and the error after them.
Read(g) ==
  /\ copyPc[g] = "read"
  /\ \E n \in read[g]..IF open[g] /\ ~reset[g] THEN sent[g] ELSE read[g], e \in Errs :
       /\ e \in ReadErrors(g, n)
       /\ n > read[g] \/ e # "nil"
       /\ read' = [read EXCEPT ![g] = n]
       /\ buf' = [buf EXCEPT ![g] = [k \in 1..n - read[g] |-> read[g] + k]]
       /\ rerr' = [rerr EXCEPT ![g] = e]
       /\ IF n > read[g] THEN copyPc' = [copyPc EXCEPT ![g] = "write"] /\ UNCHANGED err
          ELSE CopyEnds(g, e, TRUE)
  /\ UNCHANGED <<peerVars, got, first, open>>

\* Mutant: what was read along with an error is not written.
WrittenUnlessError(g) == IF rerr[g] = "nil" THEN buf[g] ELSE <<>>

Written(g) == buf[g]

\* dst.Write succeeds, which it also may if the peer is gone.
Write(g) ==
  /\ copyPc[g] = "write" /\ open[Other(g)]
  /\ got' = [got EXCEPT ![g] = @ \o Written(g)]
  /\ buf' = [buf EXCEPT ![g] = <<>>]
  /\ IF rerr[g] = "nil" THEN copyPc' = [copyPc EXCEPT ![g] = "read"] /\ UNCHANGED err
     ELSE CopyEnds(g, rerr[g], TRUE)
  /\ UNCHANGED <<peerVars, read, rerr, first, open>>

\* Mutant: after a failed write the loop goes on if there was no read error.
WriteErrorIgnored(g) ==
  IF rerr[g] = "nil" THEN copyPc' = [copyPc EXCEPT ![g] = "read"] /\ UNCHANGED err
  ELSE CopyEnds(g, rerr[g], TRUE)

\* A read error, which happened first, hides the write error.
WriteError(g) == IF rerr[g] = "nil" THEN CopyEnds(g, "write", FALSE) ELSE CopyEnds(g, rerr[g], TRUE)

\* dst.Write fails, after it has written some of the chunks.
WriteFails(g) ==
  /\ copyPc[g] = "write" /\ (~open[Other(g)] \/ reset[Other(g)])
  /\ \E k \in 0..Len(buf[g]) : got' = [got EXCEPT ![g] = @ \o SubSeq(buf[g], 1, k)]
  /\ buf' = [buf EXCEPT ![g] = <<>>]
  /\ WriteError(g)
  /\ UNCHANGED <<peerVars, read, rerr, first, open>>

-----------------------------------------------------------------------------
(* copyThenClose.                                                          *)

\* The select on firstErr.
Select(g) ==
  /\ copyPc[g] = "ended"
  /\ IF first = "none" THEN first' = g /\ copyPc' = [copyPc EXCEPT ![g] = "closeRemote"]
     ELSE copyPc' = [copyPc EXCEPT ![g] = "returned"] /\ UNCHANGED first
  /\ UNCHANGED <<peerVars, read, buf, rerr, got, err, open>>

\* Mutant: the winner closes the socket of its own source only.
CloseOwn(g) ==
  /\ copyPc[g] \in {"closeRemote", "closeLocal"}
  /\ open' = [open EXCEPT ![g] = FALSE]
  /\ copyPc' = [copyPc EXCEPT ![g] = "returned"]
  /\ UNCHANGED <<peerVars, read, buf, rerr, got, err, first>>

\* remote.Close() and local.Close(): "down" reads from remote.
CloseSockets(g) ==
  /\ \/ copyPc[g] = "closeRemote" /\ open' = [open EXCEPT !["down"] = FALSE]
        /\ copyPc' = [copyPc EXCEPT ![g] = "closeLocal"]
     \/ copyPc[g] = "closeLocal" /\ open' = [open EXCEPT !["up"] = FALSE]
        /\ copyPc' = [copyPc EXCEPT ![g] = "returned"]
  /\ UNCHANGED <<peerVars, read, buf, rerr, got, err, first>>

\* The steps of a copying goroutine that need nothing of the peers: all but a
\* Write that succeeds, which waits until the destination reads.
CopierAlone(g) == Read(g) \/ WriteFails(g) \/ Select(g) \/ CloseSockets(g)
Copier(g) == CopierAlone(g) \/ Write(g)
Peer(g) == PeerSends(g) \/ PeerCloses(g) \/ PeerBreaks(g)
RelayNext == \E g \in Dirs : Copier(g) \/ Peer(g)

RelaySpec == RelayInit /\ [][RelayNext]_relayVars

-----------------------------------------------------------------------------
(* Properties.                                                             *)

\* Each side gets what the other one sent: in order, nothing twice and
\* nothing left out before something else.
PrefixIsDelivered == \A g \in Dirs : got[g] = [k \in 1..Len(got[g]) |-> k] /\ Len(got[g]) <= sent[g]

\* If the peer whose close ended the connection closed it in good order,
\* everything it sent was written to the other side before the sockets are
\* closed, unless that side was broken.
CleanCloseDelivers ==
  \A g \in Dirs :
    first = g /\ err[g].err = "EOF" /\ ~reset[Other(g)] => Len(got[g]) = sent[g]

\* What copyThenClose promises for the data.
RelayDelivers == PrefixIsDelivered /\ CleanCloseDelivers

\* Both sockets are closed and both goroutines have returned.
Gone == \A g \in Dirs : ~open[g] /\ copyPc[g] = "returned"

\* Neither goroutine outlives the other.  Once one of them has ended, closing the
\* sockets gets the other out of whatever Read or Write it is blocked in, with no
\* help from a peer.  And a side that goes away ends both, unless the goroutine
\* that reads from it stays for ever in a Write to a side that does not read.
EndOfOneEndsBoth ==
  /\ (\E g \in Dirs : copyPc[g] = "ended") ~> Gone
  /\ \A g \in Dirs : []<>(copyPc[g] # "write") => ((eof[g] \/ reset[g]) ~> Gone)
=============================================================================

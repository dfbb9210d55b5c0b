----------------------------- MODULE PortStream -----------------------------
(***************************************************************************)
(* One direction of a forwarded connection (portforward.go,                *)
(* portForwardConn): the sender numbers its chunks, each chunk travels in  *)
(* a progress message of its own, the messages are handled concurrently    *)
(* and so in any order, and deliver() puts them back in order before it    *)
(* writes them to the TCP connection.                                      *)
(***************************************************************************)
EXTENDS Naturals, Sequences, FiniteSets

CONSTANTS
    Chunks,    \* what a chunk may contain
    MaxChunks  \* bound: chunks sent in one behaviour

ASSUME MaxChunksAssumption == MaxChunks \in Nat

VARIABLES
    sent,      \* the chunks that were numbered, in order; Len(sent) is sendSeq
    net,       \* messages on their way or waiting for recvMu
    recvNext,  \* recvNext
    recvBuf,   \* recvBuf: a function from sequence numbers to chunks
    written,   \* what was written to the TCP connection
    broken     \* the TCP connection is closed: writes fail

vars == <<sent, net, recvNext, recvBuf, written, broken>>

Msg == [seq : Nat \ {0}, chunk : Chunks]

TypeOK ==
    /\ sent \in Seq(Chunks)
    /\ net \subseteq Msg
    /\ recvNext \in Nat
    /\ DOMAIN recvBuf \in SUBSET (Nat \ {0})
    /\ \A n \in DOMAIN recvBuf : recvBuf[n] \in Chunks
    /\ written \in Seq(Chunks)
    /\ broken \in BOOLEAN

Init ==
    /\ sent = <<>>
    /\ net = {}
    /\ recvNext = 0
    /\ recvBuf = <<>>
    /\ written = <<>>
    /\ broken = FALSE

\* nextSendSeq: the counter is incremented before it is used, so it starts at 1.
nextSendSeq == Len(sent) + 1

\* A chunk read from the near TCP connection is numbered and sent.
SendChunk(c) ==
    /\ Len(sent) < MaxChunks
    /\ sent' = Append(sent, c)
    /\ net' = net \cup {[seq |-> nextSendSeq, chunk |-> c]}
    /\ UNCHANGED <<recvNext, recvBuf, written, broken>>

\* recvBuf after the assignment at the top of deliver.
Buffered(m) ==
    [n \in DOMAIN recvBuf \cup {m.seq} |-> IF n = m.seq THEN m.chunk ELSE recvBuf[n]]

\* Mutant: recvNext is never initialised.
FirstDueUninitialised == recvNext

\* recvNext after its lazy initialisation.
FirstDue == IF recvNext = 0 THEN 1 ELSE recvNext

\* Mutant: the written chunks stay in the buffer.
WriteUpToWithoutDelete(buf, n) ==
    /\ n >= FirstDue
    /\ FirstDue .. n - 1 \subseteq DOMAIN buf
    /\ written' = written \o [i \in 1 .. n - FirstDue |-> buf[FirstDue + i - 1]]
    /\ recvBuf' = buf
    /\ recvNext' = n

\* The loop of deliver wrote the chunks FirstDue .. n - 1 of buf and stopped at n.
WriteUpTo(buf, n) ==
    /\ n >= FirstDue
    /\ FirstDue .. n - 1 \subseteq DOMAIN buf
    /\ written' = written \o [i \in 1 .. n - FirstDue |-> buf[FirstDue + i - 1]]
    /\ recvBuf' = [k \in DOMAIN buf \ (FirstDue .. n - 1) |-> buf[k]]
    /\ recvNext' = n

\* Mutant: at most one chunk is written, there is no loop.
DeliverOnce(m) ==
    /\ m \in net
    /\ net' = net \ {m}
    /\ ~broken
    /\ WriteUpTo(Buffered(m), IF m.seq = FirstDue THEN FirstDue + 1 ELSE FirstDue)
    /\ UNCHANGED <<sent, broken>>

\* Mutant: a chunk is written when it arrives.
DeliverUnordered(m) ==
    /\ m \in net
    /\ net' = net \ {m}
    /\ ~broken
    /\ written' = Append(written, m.chunk)
    /\ recvNext' = FirstDue + 1
    /\ UNCHANGED <<sent, recvBuf, broken>>

\* deliver returns nil: the next chunk has not arrived.
Deliver(m) ==
    /\ m \in net
    /\ net' = net \ {m}
    /\ ~broken
    /\ \E n \in FirstDue .. FirstDue + Cardinality(DOMAIN recvBuf) + 1 :
        /\ n \notin DOMAIN Buffered(m)
        /\ WriteUpTo(Buffered(m), n)
    /\ UNCHANGED <<sent, broken>>

\* deliver returns an error: the write of chunk n, which is due, fails, and the
\* chunk stays in the buffer.  The device's handler closes the connection.
DeliverFails(m) ==
    /\ m \in net
    /\ net' = net \ {m}
    /\ \E n \in FirstDue .. FirstDue + Cardinality(DOMAIN recvBuf) + 1 :
        /\ n \in DOMAIN Buffered(m)
        /\ broken => n = FirstDue
        /\ WriteUpTo(Buffered(m), n)
    /\ broken' = TRUE
    /\ UNCHANGED sent

\* A message for a broken connection that is not due: only buffered.
DeliverBroken(m) ==
    /\ m \in net
    /\ net' = net \ {m}
    /\ broken
    /\ FirstDue \notin DOMAIN Buffered(m)
    /\ recvBuf' = Buffered(m)
    /\ recvNext' = FirstDue
    /\ UNCHANGED <<sent, written, broken>>

\* The far end's connection is closed.
Break ==
    /\ ~broken
    /\ broken' = TRUE
    /\ UNCHANGED <<sent, net, recvNext, recvBuf, written>>

Next ==
    \/ \E c \in Chunks : SendChunk(c)
    \/ \E m \in net : Deliver(m) \/ DeliverFails(m) \/ DeliverBroken(m)
    \/ Break

\* Every message is handled.
Spec == Init /\ [][Next]_vars /\ WF_vars(\E m \in net : Deliver(m) \/ DeliverFails(m) \/ DeliverBroken(m))

-----------------------------------------------------------------------------
(* Properties. *)

\* The number of the first chunk that is not written yet.
Due == Len(written) + 1

\* recvNext is that number, except that it is still 0 before the first delivery.
NextIsDue == recvNext = Due \/ (recvNext = 0 /\ Due = 1 /\ DOMAIN recvBuf = {})

\* What was written is what was read at the other end, up to some point.
WrittenIsPrefix ==
    /\ Len(written) <= Len(sent)
    /\ \A i \in 1 .. Len(written) : written[i] = sent[i]

\* A buffered chunk is the one its number stands for, and is not written yet.
BufferedIsLater ==
    \A n \in DOMAIN recvBuf : n \in Due .. Len(sent) /\ recvBuf[n] = sent[n]

\* So is a chunk in flight, and it is not buffered.
InFlightIsLater ==
    \A m \in net :
        /\ m.seq \in Due .. Len(sent)
        /\ m.chunk = sent[m.seq]
        /\ m.seq \notin DOMAIN recvBuf

\* No chunk is missing.
NoneMissing ==
    \A i \in Due .. Len(sent) :
        i \in DOMAIN recvBuf \/ [seq |-> i, chunk |-> sent[i]] \in net

\* Every chunk nextSendSeq numbered is in exactly one place: written by deliver at
\* its position, in recvBuf, or in flight, and recvNext is the number of the first
\* one that is not written.
Accounted ==
    /\ NextIsDue
    /\ WrittenIsPrefix
    /\ BufferedIsLater
    /\ InFlightIsLater
    /\ NoneMissing

\* deliver never leaves a chunk that is due in the buffer of a working connection.
NothingHeldBack == ~broken => Due \notin DOMAIN recvBuf

\* The stream the two connections promise: portForwardConn implements OrderedStream.
Ordered == INSTANCE OrderedStream WITH Chunks <- Chunks, sent <- sent, written <- written
OrderedSpec == Ordered!Spec
=============================================================================

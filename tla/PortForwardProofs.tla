------------------------- MODULE PortForwardProofs -------------------------
(***************************************************************************)
(* PortStream keeps Accounted, holds nothing back and implements           *)
(* OrderedStream, for every set of chunks and every bound on their number; *)
(* so does the upper stream of a forwarded connection, which stays within  *)
(* reach of its messages as long as it is open.                            *)
(***************************************************************************)
EXTENDS PortForward, FiniteSetTheorems, TLAPS

\* The invariant that is inductive.
IInv == TypeOK /\ Accounted

-----------------------------------------------------------------------------
\* The lazy initialisation of recvNext yields the number of the chunk that is due.
LEMMA FirstDueIsDue ==
    ASSUME TypeOK, NextIsDue
    PROVE  FirstDue = Due /\ Due \in Nat \ {0}
  BY DEF TypeOK, NextIsDue, FirstDue, Due

\* After a message is buffered, the buffer still holds only chunks that are due or
\* later, each under its own number.
LEMMA BufferedFacts ==
    ASSUME IInv, NEW m \in net
    PROVE  /\ DOMAIN Buffered(m) = DOMAIN recvBuf \cup {m.seq}
           /\ \A k \in DOMAIN Buffered(m) :
                k \in Due .. Len(sent) /\ Buffered(m)[k] = sent[k]
  <1>1. m.seq \in Due .. Len(sent) /\ m.chunk = sent[m.seq]
    BY DEF IInv, Accounted, InFlightIsLater
  <1>2. \A k \in DOMAIN recvBuf : k \in Due .. Len(sent) /\ recvBuf[k] = sent[k]
    BY DEF IInv, Accounted, BufferedIsLater
  <1> QED
    BY <1>1, <1>2 DEF Buffered

\* What the loop of deliver does to the connection: it extends what was written to
\* a longer prefix of what was read.
LEMMA WriteExtends ==
    ASSUME IInv, NEW m \in net, NEW n \in Nat, WriteUpTo(Buffered(m), n)
    PROVE  /\ n - 1 \in Len(written) .. Len(sent)
           /\ written' \in Seq(Chunks)
           /\ Len(written') = n - 1
           /\ \A i \in 1 .. n - 1 : written'[i] = sent[i]
  <1> DEFINE b == Buffered(m)
             new == [i \in 1 .. n - FirstDue |-> b[FirstDue + i - 1]]
  <1>1. FirstDue = Due /\ Due = Len(written) + 1 /\ Len(written) \in Nat /\ Len(sent) \in Nat
    BY FirstDueIsDue DEF IInv, Accounted, Due, TypeOK
  <1>2. \A k \in DOMAIN b : k \in Due .. Len(sent) /\ b[k] = sent[k]
    BY BufferedFacts
  <1>3. n >= Due /\ Due .. n - 1 \subseteq DOMAIN b /\ written' = written \o new
    BY <1>1 DEF WriteUpTo
  <1>4. n - 1 \in Len(written) .. Len(sent)
    <2>1. CASE n = Due
      BY <2>1, <1>1 DEF IInv, Accounted, WrittenIsPrefix
    <2>2. CASE n > Due
      BY <2>2, <1>1, <1>2, <1>3
    <2> QED BY <2>1, <2>2, <1>1, <1>3
  <1>5. \A i \in 1 .. n - Due : new[i] = sent[Due + i - 1] /\ new[i] \in Chunks
    <2> SUFFICES ASSUME NEW i \in 1 .. n - Due
                 PROVE  new[i] = sent[Due + i - 1] /\ new[i] \in Chunks
      OBVIOUS
    <2>1. Due + i - 1 \in DOMAIN b
      BY <1>1, <1>3
    <2>2. Due + i - 1 \in 1 .. Len(sent)
      BY <2>1, <1>1, <1>2
    <2> QED
      BY <2>1, <2>2, <1>1, <1>2 DEF IInv, TypeOK
  <1>6. new \in Seq(Chunks) /\ Len(new) = n - Due
    <2>1. n - Due \in Nat
      BY <1>1, <1>3
    <2>2. new \in [1 .. n - Due -> Chunks]
      BY <1>1, <1>5
    <2> HIDE DEF new
    <2> QED
      BY <2>1, <2>2
  <1>7. written \in Seq(Chunks)
    BY DEF IInv, TypeOK
  <1> HIDE DEF new
  <1>8. written' \in Seq(Chunks) /\ Len(written') = n - 1
    BY <1>1, <1>3, <1>6, <1>7
  <1>9. ASSUME NEW i \in 1 .. n - 1
        PROVE  written'[i] = sent[i]
    <2>1. CASE i <= Len(written)
      <3>1. written'[i] = written[i]
        BY <2>1, <1>1, <1>3, <1>6, <1>7
      <3> QED
        BY <3>1, <2>1, <1>1 DEF IInv, Accounted, WrittenIsPrefix
    <2>2. CASE i > Len(written)
      <3>1. written'[i] = new[i - Len(written)]
        BY <2>2, <1>1, <1>3, <1>6, <1>7
      <3>2. i - Len(written) \in 1 .. n - Due /\ Due + (i - Len(written)) - 1 = i
        BY <2>2, <1>1
      <3> QED
        BY <3>1, <3>2, <1>5
    <2> QED BY <2>1, <2>2, <1>1
  <1> QED
    BY <1>4, <1>8, <1>9

\* The loop of deliver, when it consumes message m, keeps every chunk accounted for.
LEMMA WritePreserves ==
    ASSUME IInv, NEW m \in net, NEW n \in Nat, WriteUpTo(Buffered(m), n),
           net' = net \ {m}, sent' = sent, broken' \in BOOLEAN
    PROVE  IInv'
  <1> DEFINE b == Buffered(m)
  <1>1. FirstDue = Due /\ Due = Len(written) + 1 /\ Len(written) \in Nat /\ Len(sent) \in Nat
    BY FirstDueIsDue DEF IInv, Accounted, Due, TypeOK
  <1>2. /\ DOMAIN b = DOMAIN recvBuf \cup {m.seq}
        /\ \A k \in DOMAIN b : k \in Due .. Len(sent) /\ b[k] = sent[k]
    BY BufferedFacts
  <1>3. /\ n - 1 \in Len(written) .. Len(sent)
        /\ written' \in Seq(Chunks)
        /\ Len(written') = n - 1
        /\ \A i \in 1 .. n - 1 : written'[i] = sent[i]
    BY WriteExtends
  <1>4. Due' = n
    BY <1>3 DEF Due
  <1>5. /\ DOMAIN recvBuf' = DOMAIN b \ (Due .. n - 1)
        /\ \A k \in DOMAIN recvBuf' : recvBuf'[k] = b[k]
        /\ recvNext' = n
    BY <1>1 DEF WriteUpTo
  <1>6. \A k \in DOMAIN recvBuf' : k \in n .. Len(sent) /\ recvBuf'[k] = sent[k]
    BY <1>1, <1>2, <1>3, <1>5
  <1>7. TypeOK'
    <2>1. \A k \in DOMAIN recvBuf' : k \in Nat \ {0} /\ recvBuf'[k] \in Chunks
      BY <1>1, <1>3, <1>6 DEF IInv, TypeOK
    <2> QED
      BY <2>1, <1>3, <1>5 DEF IInv, TypeOK
  <1>8. NextIsDue'
    BY <1>4, <1>5 DEF NextIsDue
  <1>9. WrittenIsPrefix'
    BY <1>1, <1>3 DEF WrittenIsPrefix
  <1>10. BufferedIsLater'
    BY <1>4, <1>6 DEF BufferedIsLater
  <1>11. InFlightIsLater'
    <2> SUFFICES ASSUME NEW x \in net, x # m
                 PROVE  /\ x.seq \in n .. Len(sent)
                        /\ x.chunk = sent[x.seq]
                        /\ x.seq \notin DOMAIN recvBuf'
      BY <1>4 DEF InFlightIsLater
    <2>1. /\ x.seq \in Due .. Len(sent)
          /\ x.chunk = sent[x.seq]
          /\ x.seq \notin DOMAIN recvBuf
      BY DEF IInv, Accounted, InFlightIsLater
    <2>2. x.seq # m.seq
      <3>1. m.chunk = sent[m.seq]
        BY DEF IInv, Accounted, InFlightIsLater
      <3>2. x \in Msg /\ m \in Msg
        BY DEF IInv, TypeOK
      <3> QED
        BY <2>1, <3>1, <3>2 DEF Msg
    <2>3. x.seq \notin DOMAIN b
      BY <2>1, <2>2, <1>2
    <2>4. x.seq \notin Due .. n - 1
      BY <2>3, <1>1 DEF WriteUpTo
    <2> QED
      BY <2>1, <2>3, <2>4, <1>1, <1>3, <1>5
  <1>12. NoneMissing'
    <2> SUFFICES ASSUME NEW i \in n .. Len(sent)
                 PROVE  i \in DOMAIN recvBuf' \/ [seq |-> i, chunk |-> sent[i]] \in net \ {m}
      BY <1>4 DEF NoneMissing
    <2>1. i \in Due .. Len(sent) /\ i \notin Due .. n - 1
      BY <1>1, <1>3
    <2>2. i \in DOMAIN recvBuf \/ [seq |-> i, chunk |-> sent[i]] \in net
      BY <2>1 DEF IInv, Accounted, NoneMissing
    <2>3. CASE i = m.seq \/ i \in DOMAIN recvBuf
      BY <2>1, <2>3, <1>2, <1>5
    <2>4. CASE i # m.seq
      BY <2>2, <2>3, <2>4
    <2> QED
      BY <2>3, <2>4
  <1> QED
    BY <1>7, <1>8, <1>9, <1>10, <1>11, <1>12 DEF IInv, Accounted

-----------------------------------------------------------------------------
\* The counters, buffers and streams start out empty.
LEMMA InitIInv ==
    ASSUME Init
    PROVE  IInv
  <1>1. Len(sent) = 0 /\ Len(written) = 0 /\ DOMAIN recvBuf = {} /\ net = {}
    BY DEF Init
  <1>2. Due = 1 /\ 1 .. 0 = {}
    BY <1>1 DEF Due
  <1>3. TypeOK
    <2>1. <<>> \in Seq(Chunks)
      OBVIOUS
    <2>2. DOMAIN recvBuf \in SUBSET (Nat \ {0}) /\ \A n \in DOMAIN recvBuf : recvBuf[n] \in Chunks
      BY <1>1
    <2> QED
      BY <2>1, <2>2 DEF Init, TypeOK
  <1>4. Accounted
    BY <1>1, <1>2 DEF Init, Accounted, NextIsDue, WrittenIsPrefix, BufferedIsLater,
                      InFlightIsLater, NoneMissing
  <1> QED
    BY <1>3, <1>4 DEF IInv

\* Numbering and sending a chunk keeps every chunk accounted for.
LEMMA SendPreserves ==
    ASSUME IInv, NEW c \in Chunks, SendChunk(c)
    PROVE  IInv'
  <1> DEFINE m == [seq |-> Len(sent) + 1, chunk |-> c]
  <1>1. /\ sent' = Append(sent, c)
        /\ net' = net \cup {m}
        /\ UNCHANGED <<recvNext, recvBuf, written, broken>>
    BY DEF SendChunk, nextSendSeq
  <1>2. /\ sent \in Seq(Chunks) /\ written \in Seq(Chunks)
        /\ Len(sent) \in Nat /\ Len(written) \in Nat
    BY DEF IInv, TypeOK
  <1>3. /\ sent' \in Seq(Chunks)
        /\ Len(sent') = Len(sent) + 1
        /\ sent'[Len(sent) + 1] = c
        /\ \A i \in 1 .. Len(sent) : sent'[i] = sent[i]
    BY <1>1, <1>2
  <1>4. Due' = Due /\ Due \in 1 .. Len(sent) + 1
    BY <1>1, <1>2 DEF IInv, Accounted, WrittenIsPrefix, Due
  <1>5. TypeOK'
    <2>1. m \in Msg
      BY <1>2 DEF Msg
    <2> QED
      BY <2>1, <1>1, <1>3 DEF IInv, TypeOK
  <1>6. NextIsDue'
    BY <1>1, <1>4 DEF IInv, Accounted, NextIsDue
  <1>7. WrittenIsPrefix'
    BY <1>1, <1>2, <1>3 DEF IInv, Accounted, WrittenIsPrefix
  <1>8. BufferedIsLater'
    BY <1>1, <1>2, <1>3, <1>4 DEF IInv, Accounted, BufferedIsLater
  <1>9. InFlightIsLater'
    <2> SUFFICES ASSUME NEW x \in net'
                 PROVE  /\ x.seq \in Due .. Len(sent')
                        /\ x.chunk = sent'[x.seq]
                        /\ x.seq \notin DOMAIN recvBuf
      BY <1>1, <1>4 DEF InFlightIsLater
    <2>1. CASE x \in net
      BY <2>1, <1>2, <1>3, <1>4 DEF IInv, Accounted, InFlightIsLater
    <2>2. CASE x = m
      BY <2>2, <1>2, <1>3, <1>4 DEF IInv, Accounted, BufferedIsLater
    <2> QED BY <2>1, <2>2, <1>1
  <1>10. NoneMissing'
    <2> SUFFICES ASSUME NEW i \in Due .. Len(sent')
                 PROVE  i \in DOMAIN recvBuf \/ [seq |-> i, chunk |-> sent'[i]] \in net'
      BY <1>1, <1>4 DEF NoneMissing
    <2>1. CASE i \in Due .. Len(sent)
      BY <2>1, <1>1, <1>2, <1>3, <1>4 DEF IInv, Accounted, NoneMissing
    <2>2. CASE i = Len(sent) + 1
      BY <2>2, <1>1, <1>3
    <2> QED BY <2>1, <2>2, <1>2, <1>3, <1>4
  <1> QED
    BY <1>5, <1>6, <1>7, <1>8, <1>9, <1>10 DEF IInv, Accounted

\* The bound of the loop in deliver is a number.
LEMMA LoopBound ==
    ASSUME IInv
    PROVE  FirstDue \in Nat /\ Cardinality(DOMAIN recvBuf) \in Nat
  <1>1. FirstDue \in Nat
    BY FirstDueIsDue DEF IInv, Accounted
  <1>2. DOMAIN recvBuf \subseteq 1 .. Len(sent)
    BY FirstDueIsDue DEF IInv, Accounted, BufferedIsLater, TypeOK
  <1>3. IsFiniteSet(1 .. Len(sent))
    BY FS_Interval DEF IInv, TypeOK
  <1>4. IsFiniteSet(DOMAIN recvBuf)
    BY <1>2, <1>3, FS_Subset
  <1> QED
    BY <1>1, <1>4, FS_CardinalityType

\* A message that is only buffered is the loop of deliver that stops at once.
LEMMA BrokenIsWrite ==
    ASSUME IInv, NEW m \in net, DeliverBroken(m)
    PROVE  FirstDue \in Nat /\ WriteUpTo(Buffered(m), FirstDue)
  <1>1. FirstDue \in Nat /\ written \in Seq(Chunks)
    BY LoopBound DEF IInv, TypeOK
  <1>2. FirstDue .. FirstDue - 1 = {} /\ FirstDue - FirstDue = 0 /\ 1 .. 0 = {}
    BY <1>1
  <1>3. written \o [i \in 1 .. 0 |-> Buffered(m)[FirstDue + i - 1]] = written
    <2> DEFINE e == [i \in 1 .. 0 |-> Buffered(m)[FirstDue + i - 1]]
    <2>1. e = <<>>
      BY <1>2
    <2> HIDE DEF e
    <2> QED
      BY <2>1, <1>1
  <1>4. Buffered(m) = [k \in DOMAIN Buffered(m) \ {} |-> Buffered(m)[k]]
    BY DEF Buffered
  <1>5. /\ recvBuf' = Buffered(m)
        /\ recvNext' = FirstDue
        /\ written' = written
    BY DEF DeliverBroken
  <1> HIDE DEF Buffered
  <1> DEFINE b == Buffered(m)
  <1>6. FirstDue >= FirstDue /\ FirstDue .. FirstDue - 1 \subseteq DOMAIN b
    BY <1>1
  <1>7. written' = written \o [i \in 1 .. FirstDue - FirstDue |-> b[FirstDue + i - 1]]
    BY <1>2, <1>3, <1>5
  <1>8. recvBuf' = [k \in DOMAIN b \ (FirstDue .. FirstDue - 1) |-> b[k]]
    BY <1>2, <1>4, <1>5
  <1> QED
    BY <1>1, <1>5, <1>6, <1>7, <1>8 DEF WriteUpTo

\* Every step of the two ends and of the network keeps the invariant.
LEMMA NextPreserves ==
    ASSUME IInv, [Next]_vars
    PROVE  IInv'
  <1>1. ASSUME NEW c \in Chunks, SendChunk(c) PROVE IInv'
    BY <1>1, SendPreserves
  <1>2. ASSUME NEW m \in net, Deliver(m) PROVE IInv'
    <2>1. PICK n \in FirstDue .. FirstDue + Cardinality(DOMAIN recvBuf) + 1 :
              WriteUpTo(Buffered(m), n)
      BY <1>2 DEF Deliver
    <2>2. n \in Nat
      BY LoopBound
    <2>3. net' = net \ {m} /\ sent' = sent /\ broken' \in BOOLEAN
      BY <1>2 DEF Deliver, IInv, TypeOK
    <2> QED
      BY <2>1, <2>2, <2>3, WritePreserves
  <1>3. ASSUME NEW m \in net, DeliverFails(m) PROVE IInv'
    <2>1. PICK n \in FirstDue .. FirstDue + Cardinality(DOMAIN recvBuf) + 1 :
              WriteUpTo(Buffered(m), n)
      BY <1>3 DEF DeliverFails
    <2>2. n \in Nat
      BY LoopBound
    <2>3. net' = net \ {m} /\ sent' = sent /\ broken' \in BOOLEAN
      BY <1>3 DEF DeliverFails
    <2> QED
      BY <2>1, <2>2, <2>3, WritePreserves
  <1>4. ASSUME NEW m \in net, DeliverBroken(m) PROVE IInv'
    <2>1. FirstDue \in Nat /\ WriteUpTo(Buffered(m), FirstDue)
      BY <1>4, BrokenIsWrite
    <2>2. net' = net \ {m} /\ sent' = sent /\ broken' \in BOOLEAN
      BY <1>4 DEF DeliverBroken, IInv, TypeOK
    <2> QED
      BY <2>1, <2>2, WritePreserves
  <1>5. ASSUME UNCHANGED <<sent, net, recvNext, recvBuf, written>>, broken' \in BOOLEAN
        PROVE IInv'
    BY <1>5 DEF IInv, TypeOK, Accounted, NextIsDue, WrittenIsPrefix, BufferedIsLater,
                InFlightIsLater, NoneMissing, Due
  <1>6. CASE Break
    BY <1>5, <1>6 DEF Break
  <1>7. CASE UNCHANGED vars
    BY <1>5, <1>7 DEF vars, IInv, TypeOK
  <1> QED
    BY <1>1, <1>2, <1>3, <1>4, <1>6, <1>7 DEF Next

-----------------------------------------------------------------------------
(* A step of deliver, as its two successful forms and its failing form share it. *)

\* A delivery is one run of the loop, which stops at some n.
LEMMA DeliverRuns ==
    ASSUME IInv, NEW m \in net,
           Deliver(m) \/ DeliverFails(m) \/ DeliverBroken(m)
    PROVE  \E n \in Nat : WriteUpTo(Buffered(m), n) /\ sent' = sent
  <1>1. ASSUME Deliver(m) \/ DeliverFails(m)
        PROVE  \E n \in Nat : WriteUpTo(Buffered(m), n) /\ sent' = sent
    <2>1. PICK n \in FirstDue .. FirstDue + Cardinality(DOMAIN recvBuf) + 1 :
              WriteUpTo(Buffered(m), n)
      BY <1>1 DEF Deliver, DeliverFails
    <2>2. n \in Nat /\ sent' = sent
      BY <1>1, LoopBound DEF Deliver, DeliverFails
    <2> QED BY <2>1, <2>2
  <1>2. ASSUME DeliverBroken(m)
        PROVE  \E n \in Nat : WriteUpTo(Buffered(m), n) /\ sent' = sent
    <2>1. FirstDue \in Nat /\ WriteUpTo(Buffered(m), FirstDue)
      BY <1>2, BrokenIsWrite
    <2>2. sent' = sent
      BY <1>2 DEF DeliverBroken
    <2> QED BY <2>1, <2>2
  <1> QED
    BY <1>1, <1>2

\* A step of the stream holds nothing back that was not held back before.
LEMMA NothingHeldBackStep ==
    ASSUME IInv, NothingHeldBack, [Next]_vars
    PROVE  NothingHeldBack'
  <1>1. IInv'
    BY NextPreserves
  <1>2. ASSUME NEW m \in net, Deliver(m) PROVE NothingHeldBack'
    <2>1. PICK n \in FirstDue .. FirstDue + Cardinality(DOMAIN recvBuf) + 1 :
              n \notin DOMAIN Buffered(m) /\ WriteUpTo(Buffered(m), n)
      BY <1>2 DEF Deliver
    <2>2. n \in Nat
      BY LoopBound
    <2>3. Due' = n
      BY <2>1, <2>2, WriteExtends DEF Due
    <2>4. DOMAIN recvBuf' \subseteq DOMAIN Buffered(m)
      BY <2>1 DEF WriteUpTo
    <2> QED
      BY <2>1, <2>3, <2>4 DEF NothingHeldBack
  <1>3. ASSUME NEW m \in net, DeliverFails(m) \/ DeliverBroken(m) PROVE NothingHeldBack'
    BY <1>3 DEF DeliverFails, DeliverBroken, NothingHeldBack
  <1>4. ASSUME NEW c \in Chunks, SendChunk(c) PROVE NothingHeldBack'
    BY <1>4 DEF SendChunk, NothingHeldBack, Due
  <1>5. CASE Break
    BY <1>1, <1>5, Zenon DEF Break, NothingHeldBack
  <1>6. CASE UNCHANGED vars
    BY <1>1, <1>6 DEF vars, NothingHeldBack, Due
  <1> QED
    BY <1>1, <1>2, <1>3, <1>4, <1>5, <1>6 DEF Next

\* A step of the stream is a step of OrderedStream, or leaves both ends alone.
LEMMA OrderedStep ==
    ASSUME IInv, [Next]_vars
    PROVE  [Ordered!Next]_(Ordered!vars)
  <1>1. ASSUME NEW c \in Chunks, SendChunk(c) PROVE Ordered!Read
    BY <1>1 DEF SendChunk, Ordered!Read
  <1>2. ASSUME NEW m \in net, Deliver(m) \/ DeliverFails(m) \/ DeliverBroken(m)
        PROVE  Ordered!Write \/ UNCHANGED Ordered!vars
    <2>1. PICK n \in Nat : WriteUpTo(Buffered(m), n) /\ sent' = sent
      BY <1>2, DeliverRuns
    <2>2. /\ n - 1 \in Len(written) .. Len(sent)
          /\ written' \in Seq(Chunks)
          /\ Len(written') = n - 1
          /\ \A i \in 1 .. n - 1 : written'[i] = sent[i]
      BY <2>1, WriteExtends
    <2>3. /\ sent \in Seq(Chunks) /\ written \in Seq(Chunks)
          /\ Len(sent) \in Nat /\ Len(written) \in Nat
          /\ \A i \in 1 .. Len(written) : written[i] = sent[i]
      BY DEF IInv, TypeOK, Accounted, WrittenIsPrefix
    <2>4. CASE n - 1 = Len(written)
      <3>1. written' = written
        BY <2>2, <2>3, <2>4
      <3> QED
        BY <3>1, <2>1 DEF Ordered!vars
    <2>5. CASE n - 1 > Len(written)
      <3>1. n - 1 \in Len(written) + 1 .. Len(sent)
        BY <2>2, <2>3, <2>5
      <3>2. written' = SubSeq(sent, 1, n - 1)
        BY <2>2, <2>3
      <3> QED
        BY <3>1, <3>2, <2>1 DEF Ordered!Write
    <2> QED
      BY <2>2, <2>3, <2>4, <2>5
  <1>3. CASE Break \/ UNCHANGED vars
    BY <1>3 DEF Break, vars, Ordered!vars
  <1> QED
    BY <1>1, <1>2, <1>3 DEF Next, Ordered!Next

\* The stream starts out with nothing read, written or held back.
LEMMA StreamInitial ==
    ASSUME Init
    PROVE  IInv /\ NothingHeldBack /\ Ordered!Init
  <1>1. DOMAIN recvBuf = {}
    BY DEF Init
  <1>2. NothingHeldBack
    BY <1>1, Zenon DEF NothingHeldBack
  <1>3. Ordered!Init
    BY DEF Init, Ordered!Init
  <1> QED
    BY <1>2, <1>3, InitIInv

\* Accounted is an invariant: every chunk nextSendSeq numbered is in exactly one
\* place, and deliver writes each at its position.
THEOREM ChunksAccounted == Spec => []Accounted
  <1>1. Init => IInv
    BY InitIInv
  <1>2. IInv /\ [Next]_vars => IInv'
    BY NextPreserves
  <1>3. IInv => Accounted
    BY DEF IInv
  <1> QED
    BY <1>1, <1>2, <1>3, PTL DEF Spec

\* On a working connection deliver returns only when the chunk that is due has not
\* arrived: it holds nothing back.
THEOREM DeliverHoldsNothingBack == Spec => []NothingHeldBack
  <1>1. Init => IInv /\ NothingHeldBack
    BY StreamInitial
  <1>2. IInv /\ NothingHeldBack /\ [Next]_vars => IInv' /\ NothingHeldBack'
    BY NextPreserves, NothingHeldBackStep
  <1> QED
    BY <1>1, <1>2, PTL DEF Spec

\* nextSendSeq and deliver together implement an ordered stream over messages that
\* arrive in any order: every step of PortStream is a step of OrderedStream or leaves
\* both ends of the stream alone.
THEOREM ImplementsOrderedStream == Spec => OrderedSpec
  <1>1. Init => IInv /\ Ordered!Init
    BY StreamInitial
  <1>2. IInv /\ [Next]_vars => IInv'
    BY NextPreserves
  <1>3. IInv /\ [Next]_vars => [Ordered!Next]_(Ordered!vars)
    BY OrderedStep
  <1> QED
    BY <1>1, <1>2, <1>3, PTL DEF Spec, OrderedSpec, Ordered!Spec
-----------------------------------------------------------------------------
(* The connection around the two streams. *)

\* The key that lets the client send is on its way only after the connection was stored, and
\* the handler of msgConnect runs once.
KeyInd ==
    /\ sender = "first" => "connect" \notin toDevice /\ handler = "idle"
    /\ "connect" \in toDevice => handler = "idle"
    /\ "key" \in toClient \/ keyReady => handler = "over"
    /\ sender = "loop" => keyReady
    /\ net # {} => keyReady
    /\ closing = "waiting" => pfDone

\* ForwardTypeOK without the two streams.
EndsOK ==
    /\ sendCh \in Seq(Chunks) /\ Len(sendCh) <= SendCap
    /\ reader \in {"reading", "ended"}
    /\ sender \in {"first", "key", "loop", "final"}
    /\ toDevice \subseteq {"connect", "final"}
    /\ toClient \subseteq {"key", "close", "result"}
    /\ handler \in {"idle", "dialing", "failed", "stored", "over"}
    /\ devReader \in {"none", "reading", "ended"}
    /\ closing \in {"idle", "waiting", "over"}
    /\ done \in BOOLEAN /\ keyReady \in BOOLEAN /\ entry \in BOOLEAN
    /\ pfDone \in BOOLEAN /\ eof \in BOOLEAN /\ left \in BOOLEAN
    /\ unread \subseteq net /\ dUnread \subseteq dNet

ForwardInd ==
    /\ IInv /\ NothingHeldBack
    /\ Down!TypeOK
    /\ EndsOK
    /\ KeyInd
    /\ LostOnlyAfterClose /\ RemovedIsClosed

\* What SendData takes from sendCh is a chunk.
LEMMA HeadOfSendCh ==
    ASSUME NEW q \in Seq(Chunks), q # <<>>, Len(q) <= SendCap
    PROVE  Head(q) \in Chunks /\ Tail(q) \in Seq(Chunks) /\ Len(Tail(q)) <= SendCap
  BY SendCapAssumption

\* Every step of the connection is a step of its upper stream, or leaves that alone.
LEMMA UpperStep ==
    ASSUME TypeOK, EndsOK, [ForwardNext]_forwardVars
    PROVE  [Next]_vars
  <1>1. CASE closeConn
    <2>1. CASE broken
      BY <1>1, <2>1 DEF closeConn, TypeOK, vars
    <2>2. CASE ~broken
      BY <1>1, <2>2 DEF closeConn, Break, Next
    <2> QED
      BY <2>1, <2>2
  <1>2. CASE SendData
    <2>1. Head(sendCh) \in Chunks /\ SendChunk(Head(sendCh))
      BY <1>2, HeadOfSendCh DEF SendData, EndsOK
    <2> QED
      BY <2>1 DEF Next
  <1>3. ASSUME NEW m \in net, HandleData(m) PROVE Next
    BY <1>3 DEF HandleData, Next
  <1>4. CASE SendKeyFails \/ ReadRemoteUnsent \/ HandleFinal
    BY <1>1, <1>4 DEF SendKeyFails, ReadRemoteUnsent, HandleFinal
  <1>5. CASE deleteCaller
    BY <1>1, <1>5 DEF deleteCaller
  <1>6. CASE \/ \E c \in Chunks : ReadLocal(c) \/ ReadRemote(c)
             \/ ReadLocalFails \/ SendFinalCancelled \/ RemoteCloses
    BY <1>6 DEF ReadLocal, ReadRemote, ReadLocalFails, SendFinalCancelled, RemoteCloses
  <1>7. CASE \/ SendConnect \/ WaitKey \/ SendFinal
             \/ HandleKey \/ HandleKeyFails \/ HandleCloseOrReturn
             \/ \E m \in dNet : HandleResultData(m) \/ DropResultData(m)
    BY <1>7 DEF SendConnect, WaitKey, SendFinal, HandleKey, HandleKeyFails,
                HandleCloseOrReturn, HandleResultData, DropResultData
  <1>8. CASE \/ HandleConnect \/ DialFails \/ Store \/ SendKey \/ ReadRemoteEnds
             \/ \E m \in net : DropData(m)
             \/ HandleFinalUnknown \/ FinishClose
    BY <1>8 DEF HandleConnect, DialFails, Store, SendKey, ReadRemoteEnds, DropData,
                HandleFinalUnknown, FinishClose
  <1>9. CASE UNCHANGED forwardVars
    BY <1>9 DEF forwardVars
  <1> QED
    BY <1>2, <1>3, <1>4, <1>5, <1>6, <1>7, <1>8, <1>9
    DEF ForwardNext, ClientStep, DeviceStep, Environment

\* The chunks that the loop of deliver takes from a buffer extend what was written.
LEMMA WriteTypes ==
    ASSUME NEW w \in Seq(Chunks), NEW b, \A k \in DOMAIN b : b[k] \in Chunks,
           NEW f \in Nat, NEW n \in Nat, n >= f, f .. n - 1 \subseteq DOMAIN b
    PROVE  w \o [i \in 1 .. n - f |-> b[f + i - 1]] \in Seq(Chunks)
  <1> DEFINE new == [i \in 1 .. n - f |-> b[f + i - 1]]
  <1>1. n - f \in Nat
    OBVIOUS
  <1>2. \A i \in 1 .. n - f : b[f + i - 1] \in Chunks
    <2> SUFFICES ASSUME NEW i \in 1 .. n - f PROVE b[f + i - 1] \in Chunks
      OBVIOUS
    <2>1. f + i - 1 \in f .. n - 1
      BY <1>1
    <2> QED
      BY <2>1
  <1>3. new \in [1 .. n - f -> Chunks]
    BY <1>2
  <1> HIDE DEF new
  <1>4. new \in Seq(Chunks)
    BY <1>1, <1>3
  <1> QED
    BY <1>4 DEF new

\* A message of the lower stream is delivered.
LEMMA DownDeliver ==
    ASSUME Down!TypeOK, NEW m \in dNet,
           Down!Deliver(m) \/ Down!DeliverFails(m) \/ Down!DeliverBroken(m)
    PROVE  Down!TypeOK'
  <1> DEFINE b == Down!Buffered(m)
             f == Down!FirstDue
  <1>1. /\ dSent \in Seq(Chunks) /\ dWritten \in Seq(Chunks) /\ dNet \subseteq Msg
        /\ dRecvNext \in Nat /\ DOMAIN dRecvBuf \in SUBSET (Nat \ {0})
        /\ \A k \in DOMAIN dRecvBuf : dRecvBuf[k] \in Chunks
        /\ dBroken \in BOOLEAN
    BY DEF Down!TypeOK, Down!Msg, Msg
  <1>2. m.seq \in Nat \ {0} /\ m.chunk \in Chunks
    BY <1>1 DEF Msg
  <1>3. /\ DOMAIN b = DOMAIN dRecvBuf \cup {m.seq}
        /\ \A k \in DOMAIN b : k \in Nat \ {0} /\ b[k] \in Chunks
    BY <1>1, <1>2 DEF Down!Buffered
  <1>4. f \in Nat
    BY <1>1 DEF Down!FirstDue
  <1>5. dNet' \subseteq Msg /\ dSent' = dSent /\ dBroken' \in BOOLEAN
    BY <1>1 DEF Down!Deliver, Down!DeliverFails, Down!DeliverBroken
  <1> HIDE DEF b, f
  <1>6. ASSUME NEW n \in Nat, Down!WriteUpTo(b, n)
        PROVE  Down!TypeOK'
    <2>1. /\ n >= f /\ f .. n - 1 \subseteq DOMAIN b
          /\ dWritten' = dWritten \o [i \in 1 .. n - f |-> b[f + i - 1]]
          /\ dRecvBuf' = [k \in DOMAIN b \ (f .. n - 1) |-> b[k]]
          /\ dRecvNext' = n
      BY <1>6 DEF Down!WriteUpTo, f
    <2>2. dWritten' \in Seq(Chunks)
      BY <1>1, <1>3, <1>4, <2>1, WriteTypes
    <2>3. /\ DOMAIN dRecvBuf' \subseteq DOMAIN b
          /\ \A k \in DOMAIN dRecvBuf' : dRecvBuf'[k] = b[k]
      BY <2>1
    <2>4. /\ DOMAIN dRecvBuf' \in SUBSET (Nat \ {0})
          /\ \A k \in DOMAIN dRecvBuf' : dRecvBuf'[k] \in Chunks
      BY <1>3, <2>3
    <2> QED
      BY <1>1, <1>5, <2>1, <2>2, <2>4 DEF Down!TypeOK, Down!Msg, Msg
  <1>7. CASE Down!Deliver(m) \/ Down!DeliverFails(m)
    <2>1. PICK n \in Nat : Down!WriteUpTo(b, n)
      BY <1>4, <1>7 DEF Down!Deliver, Down!DeliverFails, b, f
    <2> QED
      BY <1>6, <2>1
  <1>8. CASE Down!DeliverBroken(m)
    <2>1. dRecvBuf' = b /\ dRecvNext' = f /\ dWritten' = dWritten
      BY <1>8 DEF Down!DeliverBroken, b, f
    <2> QED
      BY <1>1, <1>3, <1>4, <1>5, <2>1 DEF Down!TypeOK, Down!Msg, Msg
  <1> QED
    BY <1>7, <1>8

\* Every step keeps the types of the lower stream.
LEMMA DownStep ==
    ASSUME Down!TypeOK, [ForwardNext]_forwardVars
    PROVE  Down!TypeOK'
  <1>1. ASSUME UNCHANGED <<dSent, dNet, dRecvNext, dRecvBuf, dWritten>>, dBroken' \in BOOLEAN
        PROVE  Down!TypeOK'
    BY <1>1 DEF Down!TypeOK
  <1>2. CASE closeDone
    BY <1>1, <1>2 DEF closeDone
  <1>3. CASE UNCHANGED down
    BY <1>1, <1>3 DEF down, Down!TypeOK
  <1>4. ASSUME NEW m \in dNet, HandleResultData(m) PROVE Down!TypeOK'
    BY <1>4, DownDeliver DEF HandleResultData
  <1>5. ASSUME NEW c \in Chunks, ReadRemote(c) PROVE Down!TypeOK'
    <2>1. /\ dSent \in Seq(Chunks) /\ dNet \subseteq Msg
          /\ dSent' = Append(dSent, c) /\ dNet' = dNet \cup {[seq |-> Len(dSent) + 1, chunk |-> c]}
          /\ UNCHANGED <<dRecvNext, dRecvBuf, dWritten, dBroken>>
      BY <1>5 DEF ReadRemote, Down!SendChunk, Down!nextSendSeq, Down!TypeOK, Down!Msg, Msg
    <2>2. [seq |-> Len(dSent) + 1, chunk |-> c] \in Msg
      BY <2>1 DEF Msg
    <2>3. dSent' \in Seq(Chunks) /\ dNet' \subseteq Msg
      BY <2>1, <2>2
    <2> QED
      BY <2>1, <2>3 DEF Down!TypeOK, Down!Msg, Msg
  <1>6. CASE ReadLocalFails \/ SendFinalCancelled \/ HandleKeyFails \/ HandleCloseOrReturn
    BY <1>2, <1>6 DEF ReadLocalFails, SendFinalCancelled, HandleKeyFails, HandleCloseOrReturn
  <1>7. CASE \/ SendConnect \/ WaitKey \/ SendData \/ SendFinal \/ HandleKey
             \/ \E m \in dNet : DropResultData(m)
             \/ \E c \in Chunks : ReadLocal(c)
             \/ deleteCaller \/ RemoteCloses
    BY <1>3, <1>7 DEF SendConnect, WaitKey, SendData, SendFinal, HandleKey, DropResultData,
                      ReadLocal, deleteCaller, RemoteCloses
  <1>8. CASE DeviceStep
    BY <1>3, <1>8 DEF DeviceStep, HandleConnect, DialFails, Store, SendKey, SendKeyFails,
                      ReadRemoteUnsent, ReadRemoteEnds, HandleData, DropData, HandleFinal,
                      HandleFinalUnknown, FinishClose
  <1>9. CASE UNCHANGED forwardVars
    BY <1>3, <1>9 DEF forwardVars
  <1> QED
    BY <1>4, <1>5, <1>6, <1>7, <1>8, <1>9 DEF ForwardNext, ClientStep, Environment

\* Every step keeps the types of the two ends.
LEMMA EndsStep ==
    ASSUME TypeOK, EndsOK, [ForwardNext]_forwardVars
    PROVE  EndsOK'
  <1> USE DEF EndsOK, client, device, down, vars
  <1>1. ASSUME SendConnect PROVE EndsOK'
    BY <1>1 DEF SendConnect
  <1>2. ASSUME WaitKey PROVE EndsOK'
    BY <1>2 DEF WaitKey
  <1>3. ASSUME SendData PROVE EndsOK'
    BY <1>3, HeadOfSendCh DEF SendData, SendChunk
  <1>4. ASSUME SendFinal PROVE EndsOK'
    BY <1>4 DEF SendFinal
  <1>5. ASSUME HandleKey PROVE EndsOK'
    BY <1>5 DEF HandleKey
  <1>6. ASSUME HandleKeyFails PROVE EndsOK'
    BY <1>6 DEF HandleKeyFails, closeDone
  <1>7. ASSUME HandleCloseOrReturn PROVE EndsOK'
    <2>1. toClient' \subseteq toClient /\ done' \in BOOLEAN /\ dNet' = dNet
      BY <1>7 DEF HandleCloseOrReturn, closeDone
    <2> QED
      BY <1>7, <2>1 DEF HandleCloseOrReturn
  <1>8. ASSUME NEW m \in dNet, HandleResultData(m) PROVE EndsOK'
    BY <1>8 DEF HandleResultData, Down!Deliver, Down!DeliverFails, Down!DeliverBroken
  <1>9. ASSUME NEW m \in dNet, DropResultData(m) PROVE EndsOK'
    BY <1>9 DEF DropResultData
  <1>10. ASSUME HandleConnect PROVE EndsOK'
    BY <1>10 DEF HandleConnect
  <1>11. ASSUME DialFails PROVE EndsOK'
    BY <1>11 DEF DialFails
  <1>12. ASSUME Store PROVE EndsOK'
    BY <1>12 DEF Store
  <1>13. ASSUME SendKey PROVE EndsOK'
    BY <1>13 DEF SendKey
  <1>14. ASSUME SendKeyFails PROVE EndsOK'
    BY <1>14 DEF SendKeyFails, closeConn
  <1>15. ASSUME ReadRemoteUnsent PROVE EndsOK'
    BY <1>15 DEF ReadRemoteUnsent, closeConn
  <1>16. ASSUME ReadRemoteEnds PROVE EndsOK'
    BY <1>16 DEF ReadRemoteEnds
  <1>17. ASSUME NEW m \in net, HandleData(m) PROVE EndsOK'
    BY <1>17 DEF HandleData, Deliver, DeliverFails, DeliverBroken
  <1>18. ASSUME NEW m \in net, DropData(m) PROVE EndsOK'
    BY <1>18 DEF DropData
  <1>19. ASSUME HandleFinal PROVE EndsOK'
    BY <1>19 DEF HandleFinal, closeConn
  <1>20. ASSUME HandleFinalUnknown PROVE EndsOK'
    BY <1>20 DEF HandleFinalUnknown
  <1>21. ASSUME FinishClose PROVE EndsOK'
    BY <1>21 DEF FinishClose
  <1>22. ASSUME NEW c \in Chunks, ReadLocal(c) PROVE EndsOK'
    BY <1>22, SendCapAssumption DEF ReadLocal
  <1>23. ASSUME NEW c \in Chunks, ReadRemote(c) PROVE EndsOK'
    BY <1>23 DEF ReadRemote, Down!SendChunk
  <1>24. ASSUME ReadLocalFails PROVE EndsOK'
    BY <1>24 DEF ReadLocalFails, closeDone
  <1>25. ASSUME SendFinalCancelled PROVE EndsOK'
    BY <1>25 DEF SendFinalCancelled, closeDone
  <1>26. ASSUME deleteCaller PROVE EndsOK'
    <2>1. pfDone' \in BOOLEAN /\ entry' \in BOOLEAN /\ left' \in BOOLEAN /\ net' = net
      BY <1>26 DEF deleteCaller, closeConn
    <2> QED
      BY <1>26, <2>1 DEF deleteCaller
  <1>27. ASSUME RemoteCloses PROVE EndsOK'
    BY <1>27 DEF RemoteCloses
  <1>28. CASE UNCHANGED forwardVars
    BY <1>28 DEF forwardVars
  <1> QED
    BY <1>1, <1>2, <1>3, <1>4, <1>5, <1>6, <1>7, <1>8, <1>9, <1>10, <1>11, <1>12, <1>13, <1>14,
       <1>15, <1>16, <1>17, <1>18, <1>19, <1>20, <1>21, <1>22, <1>23, <1>24, <1>25, <1>26, <1>27, <1>28
    DEF ForwardNext, ClientStep, DeviceStep, Environment

\* Every step keeps the order of the key exchange, and with it the connection within reach: it
\* is stored before the key is sent, and closed by whoever removes it.
LEMMA ReachStep ==
    ASSUME TypeOK, EndsOK, KeyInd, LostOnlyAfterClose, RemovedIsClosed,
           [ForwardNext]_forwardVars
    PROVE  KeyInd' /\ LostOnlyAfterClose' /\ RemovedIsClosed'
  <1> USE DEF EndsOK, KeyInd, LostOnlyAfterClose, RemovedIsClosed, client, device, vars
  <1>1. ASSUME SendConnect PROVE KeyInd' /\ LostOnlyAfterClose' /\ RemovedIsClosed'
    BY <1>1 DEF SendConnect
  <1>2. ASSUME WaitKey PROVE KeyInd' /\ LostOnlyAfterClose' /\ RemovedIsClosed'
    BY <1>2 DEF WaitKey
  <1>3. ASSUME SendData PROVE KeyInd' /\ LostOnlyAfterClose' /\ RemovedIsClosed'
    BY <1>3 DEF SendData, SendChunk
  <1>4. ASSUME SendFinal PROVE KeyInd' /\ LostOnlyAfterClose' /\ RemovedIsClosed'
    BY <1>4 DEF SendFinal
  <1>5. ASSUME HandleKey PROVE KeyInd' /\ LostOnlyAfterClose' /\ RemovedIsClosed'
    BY <1>5 DEF HandleKey
  <1>6. ASSUME HandleKeyFails PROVE KeyInd' /\ LostOnlyAfterClose' /\ RemovedIsClosed'
    BY <1>6 DEF HandleKeyFails, closeDone
  <1>7. ASSUME HandleCloseOrReturn PROVE KeyInd' /\ LostOnlyAfterClose' /\ RemovedIsClosed'
    BY <1>7 DEF HandleCloseOrReturn, closeDone
  <1>8. ASSUME NEW m \in dNet, HandleResultData(m) PROVE KeyInd' /\ LostOnlyAfterClose' /\ RemovedIsClosed'
    BY <1>8 DEF HandleResultData
  <1>9. ASSUME NEW m \in dNet, DropResultData(m) PROVE KeyInd' /\ LostOnlyAfterClose' /\ RemovedIsClosed'
    BY <1>9 DEF DropResultData
  <1>10. ASSUME HandleConnect PROVE KeyInd' /\ LostOnlyAfterClose' /\ RemovedIsClosed'
    BY <1>10 DEF HandleConnect
  <1>11. ASSUME DialFails PROVE KeyInd' /\ LostOnlyAfterClose' /\ RemovedIsClosed'
    BY <1>11 DEF DialFails
  <1>12. ASSUME Store PROVE KeyInd' /\ LostOnlyAfterClose' /\ RemovedIsClosed'
    BY <1>12 DEF Store
  <1>13. ASSUME SendKey PROVE KeyInd' /\ LostOnlyAfterClose' /\ RemovedIsClosed'
    BY <1>13 DEF SendKey
  <1>14. ASSUME SendKeyFails PROVE KeyInd' /\ LostOnlyAfterClose' /\ RemovedIsClosed'
    BY <1>14 DEF SendKeyFails, closeConn
  <1>15. ASSUME ReadRemoteUnsent PROVE KeyInd' /\ LostOnlyAfterClose' /\ RemovedIsClosed'
    BY <1>15 DEF ReadRemoteUnsent, closeConn
  <1>16. ASSUME ReadRemoteEnds PROVE KeyInd' /\ LostOnlyAfterClose' /\ RemovedIsClosed'
    BY <1>16 DEF ReadRemoteEnds
  <1>17. ASSUME NEW m \in net, HandleData(m) PROVE KeyInd' /\ LostOnlyAfterClose' /\ RemovedIsClosed'
    BY <1>17 DEF HandleData, Deliver, DeliverFails, DeliverBroken
  <1>18. ASSUME NEW m \in net, DropData(m) PROVE KeyInd' /\ LostOnlyAfterClose' /\ RemovedIsClosed'
    BY <1>18 DEF DropData
  <1>19. ASSUME HandleFinal PROVE KeyInd' /\ LostOnlyAfterClose' /\ RemovedIsClosed'
    BY <1>19 DEF HandleFinal, closeConn
  <1>20. ASSUME HandleFinalUnknown PROVE KeyInd' /\ LostOnlyAfterClose' /\ RemovedIsClosed'
    BY <1>20 DEF HandleFinalUnknown
  <1>21. ASSUME FinishClose PROVE KeyInd' /\ LostOnlyAfterClose' /\ RemovedIsClosed'
    BY <1>21 DEF FinishClose
  <1>22. ASSUME NEW c \in Chunks, ReadLocal(c) PROVE KeyInd' /\ LostOnlyAfterClose' /\ RemovedIsClosed'
    BY <1>22 DEF ReadLocal
  <1>23. ASSUME NEW c \in Chunks, ReadRemote(c) PROVE KeyInd' /\ LostOnlyAfterClose' /\ RemovedIsClosed'
    BY <1>23 DEF ReadRemote
  <1>24. ASSUME ReadLocalFails PROVE KeyInd' /\ LostOnlyAfterClose' /\ RemovedIsClosed'
    BY <1>24 DEF ReadLocalFails, closeDone
  <1>25. ASSUME SendFinalCancelled PROVE KeyInd' /\ LostOnlyAfterClose' /\ RemovedIsClosed'
    BY <1>25 DEF SendFinalCancelled, closeDone
  <1>26. ASSUME deleteCaller PROVE KeyInd' /\ LostOnlyAfterClose' /\ RemovedIsClosed'
    BY <1>26 DEF deleteCaller, closeConn
  <1>27. ASSUME RemoteCloses PROVE KeyInd' /\ LostOnlyAfterClose' /\ RemovedIsClosed'
    BY <1>27 DEF RemoteCloses
  <1>28. CASE UNCHANGED forwardVars
    BY <1>28 DEF forwardVars
  <1> QED
    BY <1>1, <1>2, <1>3, <1>4, <1>5, <1>6, <1>7, <1>8, <1>9, <1>10, <1>11, <1>12, <1>13, <1>14,
       <1>15, <1>16, <1>17, <1>18, <1>19, <1>20, <1>21, <1>22, <1>23, <1>24, <1>25, <1>26, <1>27, <1>28
    DEF ForwardNext, ClientStep, DeviceStep, Environment

\* A connection that was not opened yet has the invariant.
LEMMA ForwardInitial ==
    ASSUME ForwardInit
    PROVE  ForwardInd /\ Ordered!Init
  <1>1. IInv /\ NothingHeldBack /\ Ordered!Init
    BY StreamInitial DEF ForwardInit
  <1>2. Down!TypeOK
    <2>1. DOMAIN dRecvBuf = {} /\ <<>> \in Seq(Chunks)
      BY DEF ForwardInit, Down!Init
    <2> QED
      BY <2>1 DEF ForwardInit, Down!Init, Down!TypeOK
  <1>3. EndsOK
    <2>1. sendCh \in Seq(Chunks) /\ Len(sendCh) <= SendCap
      BY SendCapAssumption DEF ForwardInit
    <2> QED
      BY <2>1 DEF ForwardInit, EndsOK
  <1>4. KeyInd /\ LostOnlyAfterClose /\ RemovedIsClosed
    BY DEF ForwardInit, Init, KeyInd, LostOnlyAfterClose, RemovedIsClosed
  <1> QED
    BY <1>1, <1>2, <1>3, <1>4 DEF ForwardInd

\* Every step of the client, the device and the network keeps it.
LEMMA ForwardStep ==
    ASSUME ForwardInd, [ForwardNext]_forwardVars
    PROVE  ForwardInd' /\ [Ordered!Next]_(Ordered!vars)
  <1>1. IInv /\ NothingHeldBack /\ Down!TypeOK /\ EndsOK /\ TypeOK
    BY DEF ForwardInd, IInv
  <1>2. [Next]_vars
    BY <1>1, UpperStep
  <1>3. IInv' /\ NothingHeldBack' /\ [Ordered!Next]_(Ordered!vars)
    BY <1>1, <1>2, NextPreserves, NothingHeldBackStep, OrderedStep
  <1>4. Down!TypeOK' /\ EndsOK'
    BY <1>1, DownStep, EndsStep
  <1>5. KeyInd' /\ LostOnlyAfterClose' /\ RemovedIsClosed'
    BY <1>1, ReachStep DEF ForwardInd
  <1> QED
    BY <1>3, <1>4, <1>5 DEF ForwardInd

\* The invariant of a forwarded connection: forwardConnection, handlePortForward, the streams
\* between them and the end of the session in any interleaving (portforward.go).
THEOREM ForwardInvariant == ForwardSpec => []ForwardInd
  <1>1. ForwardInit => ForwardInd
    BY ForwardInitial
  <1>2. ForwardInd /\ [ForwardNext]_forwardVars => ForwardInd'
    BY ForwardStep
  <1> QED
    BY <1>1, <1>2, PTL DEF ForwardSpec

\* A data message misses its connection, and the device's table its entry, only after the
\* connection was closed (handlePortForward, portforward.go:147-282).
THEOREM ConnectionReachable == ForwardSpec => []ConnectionWithinReach
  <1>1. ForwardInd => ForwardTypeOK
    <2> SUFFICES ASSUME ForwardInd PROVE ForwardTypeOK
      OBVIOUS
    <2>1. TypeOK /\ Down!TypeOK /\ EndsOK
      BY DEF ForwardInd, IInv
    <2>2. {done, keyReady, entry, pfDone, eof, left} \subseteq BOOLEAN
      BY <2>1 DEF EndsOK
    <2> QED
      BY <2>1, <2>2 DEF ForwardTypeOK, EndsOK
  <1>2. ForwardInd => ConnectionWithinReach
    BY <1>1 DEF ForwardInd, ConnectionWithinReach
  <1> QED
    BY <1>2, ForwardInvariant, PTL

\* Inside a forwarded connection, too, every chunk that ProgressSender numbered is in one
\* place, and deliver holds none back while the device's connection works.
THEOREM ForwardedChunks == ForwardSpec => [](Accounted /\ NothingHeldBack)
  <1>1. ForwardInd => Accounted /\ NothingHeldBack
    BY DEF ForwardInd, IInv
  <1> QED
    BY <1>1, ForwardInvariant, PTL

\* So a forwarded connection, with its key exchange, its final message, its failures and the
\* end of its session, implements an ordered stream from the local program to the service.
THEOREM ForwardImplementsOrderedStream == ForwardSpec => OrderedSpec
  <1>1. ForwardInit => ForwardInd /\ Ordered!Init
    BY ForwardInitial
  <1>2. ForwardInd /\ [ForwardNext]_forwardVars => ForwardInd'
    BY ForwardStep
  <1>3. ForwardInd /\ [ForwardNext]_forwardVars => [Ordered!Next]_(Ordered!vars)
    BY ForwardStep
  <1> QED
    BY <1>1, <1>2, <1>3, PTL DEF ForwardSpec, OrderedSpec, Ordered!Spec
=============================================================================

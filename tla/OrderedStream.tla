---------------------------- MODULE OrderedStream ----------------------------
(***************************************************************************)
(* What a forwarded TCP connection promises in one direction: the far end  *)
(* writes the chunks the near end read, in the same order, without a gap   *)
(* and without repetition.  Writing may stop early, when the far end's     *)
(* connection breaks.                                                      *)
(***************************************************************************)
EXTENDS Naturals, Sequences

CONSTANT Chunks

VARIABLES sent, written

vars == <<sent, written>>

Init == sent = <<>> /\ written = <<>>

\* The near end reads one more chunk.
Read ==
    /\ \E c \in Chunks : sent' = Append(sent, c)
    /\ written' = written

\* The far end writes some of the chunks that are due.
Write ==
    /\ \E n \in Len(written) + 1 .. Len(sent) : written' = SubSeq(sent, 1, n)
    /\ sent' = sent

Next == Read \/ Write

Spec == Init /\ [][Next]_vars
=============================================================================

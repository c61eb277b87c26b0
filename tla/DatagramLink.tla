---------------------------- MODULE DatagramLink ----------------------------
(***************************************************************************)
(* What the programs at the two ends of omega4-linkd may rely on: a        *)
(* datagram service that loses, repeats and reorders, and never hands out  *)
(* anything that was not handed in before.  Datagrams are numbered in the  *)
(* order they are handed in.                                               *)
(***************************************************************************)
EXTENDS Naturals, Sequences

VARIABLES
  fed,  \* datagrams handed in so far
  got   \* what was handed out, in order: each a payload (a set, see LinkFrame)

Init == fed = 0 /\ got = <<>>

HandIn == fed' = fed + 1 /\ UNCHANGED got

\* One frame from the radio is worth one datagram, or two when it completes a block.
HandOut ==
  /\ \/ \E n \in 1..fed : got' = Append(got, {n})
     \/ \E n, m \in 1..fed : got' = got \o <<{n}, {m}>>
  /\ UNCHANGED fed

Spec == Init /\ [][HandIn \/ HandOut]_<<fed, got>>
=============================================================================

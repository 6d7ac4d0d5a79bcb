---------------------- MODULE MCOverlappingPoolEscrow ----------------------
(***************************************************************************)
(* The contract's own sizes: seven members, four of them a threshold set,  *)
(* two pools of four that share the member m3, caps and floor of two.      *)
(***************************************************************************)
EXTENDS CaptureCertificate, TLC

CONSTANTS m0, m1, m2, m3, m4, m5, m6

MCMembers == {m0, m1, m2, m3, m4, m5, m6}
MCFirstPool == {m0, m1, m2, m3}
MCSecondPool == {m3, m4, m5, m6}

\* Members of one pool only are interchangeable, and so are the outsiders.
Symmetry ==
  Permutations({m0, m1, m2}) \cup Permutations({m4, m5, m6}) \cup Permutations(Outsiders)

\* Property: both certificates about the contract, that of all its sales and that
\* of one captured sale, say what it does.
CertificatesHold == CertificateIsComplete /\ CaptureIsBound
=============================================================================

-------------------------- MODULE MCTraceThenSlash --------------------------
(***************************************************************************)
(* A committee of three with threshold two, two release jobs, bonds of     *)
(* different sizes (and one too small), one caller outside the committee.  *)
(***************************************************************************)
EXTENDS TraceThenSlash, TLC

\* Evidence for either job, signed by the right or by another signer, and
\* one piece that somebody else than the verifier attested.
MCEvidence ==
  [job : 1 .. MaxJobs, member : Members, share : {"share"},
   signedBy : Signers, attestedBy : {Verifier}]
  \cup
  [job : {1}, member : Members, share : {"share"},
   signedBy : Signers, attestedBy : {Treasury}]

\* Positions, and the addresses that may sit on them, are interchangeable:
\* no definition singles one out and MCEvidence is closed under permutations.
Symmetry == Permutations(Members) \cup Permutations(Signers)

\* The cardinality form of a sum agrees with the usual one.
ASSUME TotalIsSum ==
  \A f \in [Members -> 0 .. 3] : Total(f) = FoldFunction(+, 0, f)
=============================================================================

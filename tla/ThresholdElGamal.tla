--------------------------- MODULE ThresholdElGamal ---------------------------
(***************************************************************************)
(* The arithmetic under a session, of which PtrSession assumes only the    *)
(* outcome: Shamir shares of an ElGamal key, partial decryptions with      *)
(* their Chaum-Pedersen proofs, their combination, and the operators'      *)
(* Schnorr signatures (ptr_v3/crypto.py and ptr_v3/network_identity.py;    *)
(* ptr_exp/crypto.py carries the same threshold code), over a group small  *)
(* enough to enumerate.  A hash is a free choice: a challenge may be any   *)
(* scalar, and two hashes are equal when everything that was hashed is.    *)
(***************************************************************************)
EXTENDS PtrSession, Integers, FiniteSetsExt, SequencesExt

CONSTANTS P, Q, G   \* the prime, the order of the subgroup and its generator

Scalars == 0 .. Q - 1
NonZero == 1 .. Q - 1   \* what ScalarRng.scalar draws

Pow(b, e) == (b ^ e) % P

\* What the code requires of its parameters, and operators with different indices.
ASSUME GroupParameters ==
  /\ Q = (P - 1) \div 2 /\ Pow(G, Q) = 1 /\ G # 1
  /\ Cardinality(Operators) < Q

\* mod_inv, for a value that is not zero modulo the modulus.
ModInv(value, modulus) == CHOOSE x \in 1 .. modulus - 1 : (value * x) % modulus = 1

LagrangeAtZero(i, S) ==
    LET others == S \ {i}
        numerator == FoldSet(LAMBDA o, acc : (acc * (0 - o)) % Q, 1, others)
        denominator == FoldSet(LAMBDA o, acc : (acc * (i - o)) % Q, 1, others)
    IN  (numerator * ModInv(denominator, Q)) % Q

-----------------------------------------------------------------------------
(* Keys, ciphertexts and partial decryptions.                               *)

\* eval_poly
EvalPoly(coefficients, x) ==
    FoldLeft(LAMBDA s, c : [acc |-> (s.acc + c * s.power) % Q, power |-> (s.power * x) % Q],
             [acc |-> 0, power |-> 1], coefficients).acc

Polynomials == [1 .. Threshold -> NonZero]

KeySet(coefficients) ==
    [public |-> Pow(G, coefficients[1]),
     secret |-> [i \in Operators |-> EvalPoly(coefficients, i)]]

Encrypt(public, plaintext, nonce) ==
    [c1 |-> Pow(G, nonce), c2 |-> (plaintext * Pow(public, nonce)) % P]

\* combine_partials, for the responses of the operators S.
CombinePartials(ciphertext, value, S) ==
    LET combined == FoldSet(LAMBDA i, acc : (acc * Pow(value[i], LagrangeAtZero(i, S))) % P, 1, S)
    IN  (ciphertext.c2 * ModInv(combined, P)) % P

\* The response z of create_partial to a challenge.
ProofResponse(witness, challenge, share) == (witness + challenge * share) % Q

\* verify_partial, with the challenge that the hash gives.
VerifyPartial(publicShare, c1, value, a1, a2, z, challenge) ==
    /\ 1 < value /\ value < P
    /\ Pow(G, z) = (a1 * Pow(publicShare, challenge)) % P
    /\ Pow(c1, z) = (a2 * Pow(value, challenge)) % P

-----------------------------------------------------------------------------
(* What is hashed.  The first copy of the code draws the witness; the second*)
(* derives it from everything the challenge can depend on.                  *)

Statements ==
    [operator : {1, 2}, share : {1, 2}, c1 : {1, 2}, c2 : {1, 2}, epoch : {1, 2},
     context : {"order", "other order"}]

\* Faulty variant, for a mutation test: the epoch is not bound.
WitnessWithoutEpoch(s) == <<s.share, s.operator, s.c1, s.c2, s.context>>

\* _proof_witness
ProofWitness(s) == <<s.share, s.operator, s.c1, s.c2, s.epoch, s.context>>

\* _proof_challenge: the public share, the partial and both commitments are those
\* of the share, of c1 and of the witness.
ProofChallenge(s, witness) ==
    <<s.operator, <<"G", s.share>>, s.c1, <<s.c1, s.share>>, <<"G", witness>>,
      <<s.c1, witness>>, s.epoch, s.context>>

-----------------------------------------------------------------------------
(* Signatures.                                                              *)

\* sign, with the nonce and the challenge that the hashes give.
Sign(secretKey, k, challenge) ==
    [r |-> Pow(G, k), s |-> (k + challenge * secretKey) % Q]

\* verify
VerifySignature(publicKey, signature, challenge) ==
    /\ 1 < signature.r /\ signature.r < P /\ signature.s \in Scalars
    /\ Pow(G, signature.s) = (signature.r * Pow(publicKey, challenge)) % P

-----------------------------------------------------------------------------
(* The ceremony (dealer.py), what an operator checks of the file it is      *)
(* given, what the coordinator reads from the public bundle, and the        *)
(* bindings that the runner has the operators' keys sign.                   *)

\* NetworkIdentity.derive: a seed gives every operator some key.
NetworkSecrets == [Operators -> NonZero]

\* deal
Deal(coefficients, networkSecret) ==
    LET key == KeySet(coefficients)
        bundle == [publicKey   |-> key.public,
                   publicShare |-> [i \in Operators |-> Pow(G, key.secret[i])],
                   networkKey  |-> [i \in Operators |-> Pow(G, networkSecret[i])]]
    IN  [public  |-> bundle,
         secrets |-> [i \in Operators |->
                        [operator |-> i, share |-> key.secret[i],
                         publicShare |-> bundle.publicShare[i],
                         networkSecret |-> networkSecret[i]]]]

\* The checks of the operator's main, started as operator i.
StartsWith(i, file, bundle) ==
    /\ file.operator = i
    /\ file.publicShare = bundle.publicShare[i]
    /\ file.networkSecret \in NonZero
    /\ Pow(G, file.networkSecret) = bundle.networkKey[i]

\* OperatorRegistry: an entry for every operator of the bundle.
RegisteredKey(bundle, i) == bundle.networkKey[i]

\* build_bindings: whether a binding signed by the key of the file verifies.
BindingVerifies(file, k, challenge) ==
    VerifySignature(Pow(G, file.networkSecret), Sign(file.networkSecret, k, challenge), challenge)

-----------------------------------------------------------------------------
\* The partial decryptions of the operators S give the plaintext back, whatever
\* key was dealt.
Decrypts(S) ==
    \A coefficients \in Polynomials, nonce, token \in NonZero :
        LET key == KeySet(coefficients)
            ciphertext == Encrypt(key.public, Pow(G, token), nonce)
            value == [i \in S |-> Pow(ciphertext.c1, key.secret[i])]
        IN  CombinePartials(ciphertext, value, S) = Pow(G, token)

\* An honest proof verifies whatever the challenge, unless the share is zero (then
\* the value is 1, which is refused); with another response it does not.
HonestProofsVerify ==
    \A share, witness, nonce \in NonZero, challenge, z \in Scalars :
        LET c1 == Pow(G, nonce)
        IN  VerifyPartial(Pow(G, share), c1, Pow(c1, share), Pow(G, witness),
                          Pow(c1, witness), z, challenge)
              <=> z = ProofResponse(witness, challenge, share)

\* A value for which two challenges to the same commitments can be answered is the
\* operator's decryption up to its sign (the value need not be in the subgroup).
ProofFixesValue ==
    \A share, nonce \in NonZero, value \in 2 .. P - 1, a1, a2 \in 1 .. P - 1 :
        LET c1 == Pow(G, nonce)
            honest == Pow(c1, share)
            answerable == {challenge \in Scalars : \E z \in Scalars :
                             VerifyPartial(Pow(G, share), c1, value, a1, a2, z, challenge)}
        IN  Cardinality(answerable) > 1 => value \in {honest, P - honest}

\* One witness never serves two challenges: two responses to different challenges
\* with one witness would give the share away.
WitnessServesOneChallenge ==
    /\ \A s, t \in Statements :
          ProofWitness(s) = ProofWitness(t)
            => ProofChallenge(s, ProofWitness(s)) = ProofChallenge(t, ProofWitness(t))
    /\ \A share, witness \in NonZero, c, d \in Scalars : c # d =>
          share = ((ProofResponse(witness, c, share) - ProofResponse(witness, d, share))
                     * ModInv((c - d) % Q, Q)) % Q

\* A signature verifies for the challenge of its own message and for no other.
SignaturesBind ==
    \A secretKey, k \in NonZero, c, d \in Scalars :
        VerifySignature(Pow(G, secretKey), Sign(secretKey, k, c), d) <=> c = d

\* Every operator starts with its own file and with nobody else's, and what it then
\* proves and signs is accepted under what the coordinator reads of it; a file whose
\* public part is not the one that was dealt is refused.
DealIsConsistent ==
    \A coefficients \in Polynomials, networkSecret \in NetworkSecrets :
        LET dealt == Deal(coefficients, networkSecret)
        IN  \A i, j \in Operators :
              LET file == dealt.secrets[j]
              IN  /\ StartsWith(i, file, dealt.public) <=> i = j
                  /\ file.share # 0 =>
                       VerifyPartial(dealt.public.publicShare[j], G, Pow(G, file.share),
                                     Pow(G, 1), Pow(G, 1), ProofResponse(1, 2, file.share), 2)
                  /\ BindingVerifies(file, 1, 2)
                  /\ VerifySignature(RegisteredKey(dealt.public, j),
                                     Sign(file.networkSecret, 1, 2), 2)
                  /\ \A x \in NonZero : x # file.networkSecret =>
                       ~StartsWith(j, [file EXCEPT !.networkSecret = x], dealt.public)

\* Property: what the session takes for granted of the cryptography, on the code's
\* own arithmetic: the operators that were counted for a route decrypt its
\* ciphertext under any key, a proof is accepted exactly with its own response,
\* fixes the value up to its sign and never shares its witness with another
\* challenge, a signature is good for one message, and what the dealer hands out
\* fits together.
CryptographyHolds ==
    /\ RouteAnswered => Decrypts({Verified[i].operator : i \in DOMAIN Verified})
    /\ HonestProofsVerify /\ ProofFixesValue /\ WitnessServesOneChallenge
    /\ SignaturesBind /\ DealIsConsistent
=============================================================================

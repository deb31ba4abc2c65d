------------------------------- MODULE MCCodec -------------------------------
(* Instance of Codec for TLC: four validators, so that three are a quorum. *)
EXTENDS Codec

CONSTANTS h1, h2

TwoHashes == {h1, h2}
MCViews == {1}
MCTimes == {1, 2}

Signers == {<<0, 1, 2>>, <<2, 0, 1>>, <<0, 0, 1>>, <<0, 1>>, <<0, 1, 4>>, <<0, 1, 2, 3>>}

\* Certificates as they may be decoded: with the signatures of the signers they
\* list or of others, for their block or another one.
MCReceived ==
  { [ view |-> 1, node |-> h1, signers |-> signers, cryptoScheme |-> "ed25519",
      timestamps |-> [k \in DOMAIN signers |-> 1],
      aggregateSignature |->
        <<Len(signers)>> \o listed
          \o [k \in DOMAIN listed |-> Signature(listed[k], Digest(1, hash, listed[k], 1))] ] :
    signers \in Signers, listed \in Signers, hash \in TwoHashes }
==============================================================================

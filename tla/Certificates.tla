----------------------------- MODULE Certificates -----------------------------
(***************************************************************************)
(* Votes and quorum certificates as data (vote.go, quorum_cert.go): how    *)
(* votes are verified, a certificate formed from them and validated.       *)
(*                                                                         *)
(* A signature is who signed what; nobody can make another's.  A BLS       *)
(* aggregate is the set of the signatures it was made of.  An Ed25519      *)
(* aggregate lists the signers and, in the same order, their signatures.   *)
(***************************************************************************)
EXTENDS Validators, SequencesExt

CONSTANT Window   \* VoteTimestampWindow

Schemes == {"ed25519", "bls"}

Signature(i, digest) == [by |-> i, over |-> digest]

-----------------------------------------------------------------------------
(* Votes *)

Digest(view, hash, i, timestamp) == <<view, hash, i, timestamp>>

BLSDigest(view, hash) == <<view, hash>>

VoteRecord(view, hash, i, timestamp, signature) ==
  [ view |-> view, nodeHash |-> hash, validatorIndex |-> i,
    timestamp |-> timestamp, signature |-> signature ]

NewVote(view, hash, i, now) ==
  VoteRecord(view, hash, i, now, Signature(i, Digest(view, hash, i, now)))

NewBLSVote(view, hash, i) ==
  VoteRecord(view, hash, i, 0, Signature(i, BLSDigest(view, hash)))

\* A vote of NewBLSVote never passes: it is the digest with the index that is
\* checked, whatever the scheme.
VerifyVote(vote, now) ==
  /\ vote.timestamp # 0 => now - vote.timestamp \in -Window .. Window
  /\ vote.signature =
       Signature(vote.validatorIndex,
                 Digest(vote.view, vote.nodeHash, vote.validatorIndex, vote.timestamp))

-----------------------------------------------------------------------------
(* Forming a certificate *)

\* The first vote of each validator, whatever it repeats.
UniqueVotes(votes) ==
  {votes[i] : i \in {i \in DOMAIN votes :
                       \A j \in 1 .. i - 1 : votes[j].validatorIndex # votes[i].validatorIndex}}

ByIndex(unique) ==
  CHOOSE s \in [1 .. Cardinality(unique) -> unique] :
    \A i, j \in DOMAIN s : i < j => s[i].validatorIndex < s[j].validatorIndex

Indices(sorted) == [k \in DOMAIN sorted |-> sorted[k].validatorIndex]
Timestamps(sorted) == [k \in DOMAIN sorted |-> sorted[k].timestamp]
Signatures(sorted) == [k \in DOMAIN sorted |-> sorted[k].signature]

\* Mutation: the votes are put together the other way round.
AggregateBackwards(unique) ==
  LET sorted == Reverse(ByIndex(unique))
  IN  [ aggregate  |-> <<Len(sorted)>> \o Indices(sorted) \o Signatures(sorted),
        timestamps |-> Timestamps(sorted) ]

\* [count][signers][signatures], and the timestamps, by validator index.
AggregateEd25519Signatures(unique) ==
  LET sorted == ByIndex(unique)
  IN  [ aggregate  |-> <<Len(sorted)>> \o Indices(sorted) \o Signatures(sorted),
        timestamps |-> Timestamps(sorted) ]

\* One signature, and no timestamps.
AggregateBLSSignatures(unique) ==
  [ aggregate |-> <<{vote.signature : vote \in unique}>>, timestamps |-> <<>> ]

NoCertificate == [view |-> -1]

NewQC(view, hash, votes, scheme) ==
  LET unique == UniqueVotes(votes)
      parts == IF scheme = "bls" THEN AggregateBLSSignatures(unique)
               ELSE AggregateEd25519Signatures(unique)
  IN  IF \/ votes = <<>>
         \/ \E k \in DOMAIN votes : votes[k].view # view \/ votes[k].nodeHash # hash
         \/ Cardinality(unique) < Quorum
      THEN NoCertificate
      ELSE [ view |-> view, node |-> hash, signers |-> Indices(ByIndex(unique)),
             timestamps |-> parts.timestamps, cryptoScheme |-> scheme,
             aggregateSignature |-> parts.aggregate ]

-----------------------------------------------------------------------------
(* Validating a certificate *)

ValidateEd25519(qc) ==
  LET k == Len(qc.signers)
      data == qc.aggregateSignature
  IN  /\ Len(data) >= 1
      /\ data[1] = k
      /\ Len(data) = 1 + 2 * k
      /\ SubSeq(data, 2, 1 + k) = qc.signers
      /\ Len(qc.timestamps) = k
      /\ \A i \in 1 .. k :
           data[1 + k + i] =
             Signature(qc.signers[i], Digest(qc.view, qc.node, qc.signers[i], qc.timestamps[i]))

ValidateBLS(qc) ==
  qc.aggregateSignature =
    <<{Signature(qc.signers[i], BLSDigest(qc.view, qc.node)) : i \in DOMAIN qc.signers}>>

ValidateScheme(qc) ==
  IF qc.cryptoScheme = "bls" THEN ValidateBLS(qc) ELSE ValidateEd25519(qc)

\* Mutation: a signer listed twice counts twice.
ValidateRepeated(qc) ==
  /\ Len(qc.signers) >= Quorum
  /\ ToSet(qc.signers) \subseteq Replicas
  /\ ValidateScheme(qc)

Validate(qc) ==
  /\ Len(qc.signers) >= Quorum
  /\ ToSet(qc.signers) \subseteq Replicas
  /\ IsInjective(qc.signers)
  /\ ValidateScheme(qc)
==============================================================================

-------------------------------- MODULE Codec --------------------------------
(***************************************************************************)
(* The way of a certificate: a replica collects votes, forms a certificate *)
(* from them, puts it in a message and encodes it; another one decodes     *)
(* what arrives, whole or cut short, and validates the certificate         *)
(* (quorum_cert.go, vote.go, payload.go).                                  *)
(*                                                                         *)
(* An encoding is a sequence of cells: a number, a signature or a scheme   *)
(* is one, a hash HashCells of them.  Numbers of two bytes, the lengths    *)
(* and counts, keep their width: modulo Wide.  Decoding gives a message,   *)
(* "error", or "panic" where a read is not guarded by the length.          *)
(***************************************************************************)
EXTENDS Certificates

CONSTANTS
  Views, Hashes, Times,
  Wide,       \* numbers a length field holds (65536 in the code)
  HashCells,  \* cells of a hash
  MaxVotes,   \* bound: votes collected
  Received    \* bound: certificates that arrive from somewhere else

\* Votes are made after 1970; only those of NewBLSVote have no timestamp.
ASSUME CodecAssumption ==
  /\ Wide \in Nat
  /\ HashCells \in 1 .. Wide - 1
  /\ MaxVotes \in Nat
  /\ 0 \notin Times

IsSequence(s) == Len(s) \in Nat /\ s = [i \in 1 .. Len(s) |-> s[i]]

\* A certificate as QCFromBytes may return it: whatever it says, it has as many
\* timestamps as signers, and their number was read from a length field.
ASSUME ReceivedAssumption ==
  \A qc \in Received :
    /\ qc = [ view |-> qc.view, node |-> qc.node, signers |-> qc.signers,
              timestamps |-> qc.timestamps, cryptoScheme |-> qc.cryptoScheme,
              aggregateSignature |-> qc.aggregateSignature ]
    /\ IsSequence(qc.signers) /\ IsSequence(qc.timestamps)
    /\ IsSequence(qc.aggregateSignature)
    /\ Len(qc.signers) = Len(qc.timestamps)
    /\ Len(qc.signers) < Wide

VARIABLES
  scheme,    \* CryptoScheme of the configuration
  phase,     \* collecting, formed, sent, arrived, decoded, valid or the failure
  votes,     \* what is collected, in the order of arrival
  cert,      \* the certificate that was formed or received
  sent,      \* the message it is part of
  wire,      \* its encoding, or the part of it that arrived
  got        \* what was decoded

vars == <<scheme, phase, votes, cert, sent, wire, got>>

-----------------------------------------------------------------------------
(* Encoding *)

Short(n) == n % Wide

HashBytes(hash) == [i \in 1 .. HashCells |-> hash]

\* Mutation: the timestamps come before the signers.
QCBytesTimesFirst(qc) ==
  <<qc.view, Short(HashCells)>> \o HashBytes(qc.node)
    \o <<Short(Len(qc.signers))>> \o qc.timestamps \o qc.signers
    \o <<1, qc.cryptoScheme>>
    \o <<Short(Len(qc.aggregateSignature))>> \o qc.aggregateSignature

QCBytes(qc) ==
  <<qc.view, Short(HashCells)>> \o HashBytes(qc.node)
    \o <<Short(Len(qc.signers))>> \o qc.signers \o qc.timestamps
    \o <<1, qc.cryptoScheme>>
    \o <<Short(Len(qc.aggregateSignature))>> \o qc.aggregateSignature

VoteBytes(vote) ==
  <<vote.view, Short(HashCells)>> \o HashBytes(vote.nodeHash)
    \o <<vote.validatorIndex, vote.timestamp, Short(1), vote.signature>>

OptionalQC(qc) == IF qc = NoCertificate THEN <<0>> ELSE <<1>> \o QCBytes(qc)

\* A block is one cell here, and its length field wide enough.
MessageBytes(m) ==
  <<m.type, m.view, m.validatorIndex>> \o
    CASE m.type = "PROPOSE" -> <<1, m.block>> \o OptionalQC(m.qc)
      [] m.type = "VOTE"    -> VoteBytes(m.vote)
      [] m.type = "NEWVIEW" -> OptionalQC(m.qc)

-----------------------------------------------------------------------------
(* Decoding *)

Ok(x) == [result |-> "decoded", value |-> x]
Error == [result |-> "error"]
Panic == [result |-> "panic"]
Failed(x) == x.result # "decoded"

From(data, i) == SubSeq(data, i, Len(data))

\* Mutation: the last length is not compared with what there is.
QCFromLooseBytes(data) ==
  LET h == 2 + data[2]
      k == data[h + 1]
      s == h + 1 + 2 * k
      aggregate == SubSeq(data, s + 4, Len(data))
  IN  IF Len(data) < 5 \/ Len(data) < h THEN Error
      ELSE IF Len(data) = h THEN Panic
      ELSE IF \/ Len(data) < h + 1 + k \/ Len(data) < s
              \/ Len(data) < s + 1 \/ Len(data) < s + 2
              \/ Len(data) < s + 3 THEN Error
      ELSE Ok([ view |-> data[1], node |-> data[3],
                signers |-> SubSeq(data, h + 2, h + 1 + k),
                timestamps |-> SubSeq(data, h + 2 + k, s),
                cryptoScheme |-> data[s + 2], aggregateSignature |-> aggregate ])

\* The checks in the order of the code: before the count of the signers is
\* read there is none.
QCFromBytes(data) ==
  LET h == 2 + data[2]             \* end of the hash
      k == data[h + 1]             \* signers
      s == h + 1 + 2 * k           \* end of the timestamps
      n == data[s + 3]             \* length of the aggregate
  IN  IF Len(data) < 5 \/ Len(data) < h THEN Error
      ELSE IF Len(data) = h THEN Panic
      ELSE IF \/ Len(data) < h + 1 + k \/ Len(data) < s
              \/ Len(data) < s + 1 \/ Len(data) < s + 2
              \/ Len(data) < s + 3 \/ Len(data) < s + 3 + n THEN Error
      ELSE Ok([ view |-> data[1], node |-> data[3],
                signers |-> SubSeq(data, h + 2, h + 1 + k),
                timestamps |-> SubSeq(data, h + 2 + k, s),
                cryptoScheme |-> data[s + 2],
                aggregateSignature |-> SubSeq(data, s + 4, s + 3 + n) ])

VoteFromBytes(data) ==
  LET h == 2 + data[2]
      n == data[h + 3]
  IN  IF \/ Len(data) < 5 \/ Len(data) < h
         \/ Len(data) < h + 3 \/ Len(data) < h + 3 + n THEN Error
      ELSE Ok(VoteRecord(data[1], data[3], data[h + 1], data[h + 2], data[h + 4]))

\* What follows the flag hasQC.
QCAfterFlag(flag, data) == IF flag = 1 THEN QCFromBytes(data) ELSE Ok(NoCertificate)

DeserializePropose(view, i, payload) ==
  IF Len(payload) < 2 \/ Len(payload) < 1 + payload[1] + 1 THEN Error
  ELSE LET qc == QCAfterFlag(payload[3], From(payload, 4))
       IN  IF Failed(qc) THEN qc
           ELSE Ok([type |-> "PROPOSE", view |-> view, validatorIndex |-> i,
                    block |-> payload[2], qc |-> qc.value])

DeserializeVote(view, i, payload) ==
  LET vote == VoteFromBytes(payload)
  IN  IF Failed(vote) THEN vote
      ELSE Ok([type |-> "VOTE", view |-> view, validatorIndex |-> i, vote |-> vote.value])

DeserializeNewView(view, i, payload) ==
  IF Len(payload) < 1 \/ (payload[1] = 1 /\ Len(payload) < 2) THEN Error
  ELSE LET qc == QCAfterFlag(payload[1], From(payload, 2))
       IN  IF Failed(qc) THEN qc
           ELSE Ok([type |-> "NEWVIEW", view |-> view, validatorIndex |-> i, qc |-> qc.value])

MessageFromBytes(data) ==
  IF Len(data) < 3 THEN Error
  ELSE CASE data[1] = "PROPOSE" -> DeserializePropose(data[2], data[3], From(data, 4))
         [] data[1] = "VOTE"    -> DeserializeVote(data[2], data[3], From(data, 4))
         [] data[1] = "NEWVIEW" -> DeserializeNewView(data[2], data[3], From(data, 4))
         [] OTHER               -> Error

-----------------------------------------------------------------------------
(* The exchange *)

NoMessage == [type |-> "none"]

Init ==
  /\ scheme \in Schemes
  /\ phase = "collecting"
  /\ votes = <<>>
  /\ cert = NoCertificate
  /\ sent = NoMessage
  /\ wire = <<>>
  /\ got = NoMessage

\* Votes that passed VerifyVote when they came, of NewVote whatever the scheme;
\* a validator may vote again, as a replica that was restarted does.
CollectVote ==
  /\ phase = "collecting"
  /\ Len(votes) < MaxVotes
  /\ \E view \in Views, hash \in Hashes, i \in Replicas, timestamp, now \in Times :
       LET vote == NewVote(view, hash, i, timestamp)
       IN  /\ VerifyVote(vote, now)
           /\ votes' = Append(votes, vote)
  /\ UNCHANGED <<scheme, phase, cert, sent, wire, got>>

\* Votes made for BLS, as a caller of NewQC may have them; VerifyVote, and with
\* it a replica, refuses them.
CollectBLSVote ==
  /\ phase = "collecting"
  /\ Len(votes) < MaxVotes
  /\ scheme = "bls"
  /\ \E view \in Views, hash \in Hashes, i \in Replicas :
       votes' = Append(votes, NewBLSVote(view, hash, i))
  /\ UNCHANGED <<scheme, phase, cert, sent, wire, got>>

Form ==
  /\ phase = "collecting"
  /\ votes # <<>>
  /\ cert' = NewQC(votes[1].view, votes[1].nodeHash, votes, scheme)
  /\ phase' = IF cert' = NoCertificate THEN "not formed" ELSE "formed"
  /\ UNCHANGED <<scheme, votes, sent, wire, got>>

\* A certificate that was made elsewhere, well formed or not.
ReceiveCertificate ==
  /\ phase = "collecting"
  /\ votes = <<>>
  /\ scheme = "ed25519"
  /\ cert' \in Received
  /\ phase' = "formed"
  /\ UNCHANGED <<scheme, votes, sent, wire, got>>

\* Only Ed25519 certificates are encoded here.
Send ==
  /\ phase = "formed"
  /\ cert.cryptoScheme = "ed25519"
  /\ sent' \in { [type |-> "PROPOSE", view |-> cert.view, validatorIndex |-> 0,
                  block |-> cert.node, qc |-> cert],
                 [type |-> "NEWVIEW", view |-> cert.view, validatorIndex |-> 0, qc |-> cert] }
  /\ wire' = MessageBytes(sent')
  /\ phase' = "sent"
  /\ UNCHANGED <<scheme, votes, cert, got>>

\* Messages without a certificate.
SendPlain ==
  /\ phase = "collecting"
  /\ Len(votes) = 1
  /\ votes[1].timestamp # 0
  /\ sent' \in { [type |-> "VOTE", view |-> votes[1].view,
                  validatorIndex |-> votes[1].validatorIndex, vote |-> votes[1]],
                 [type |-> "PROPOSE", view |-> votes[1].view, validatorIndex |-> 0,
                  block |-> votes[1].nodeHash, qc |-> NoCertificate],
                 [type |-> "NEWVIEW", view |-> votes[1].view, validatorIndex |-> 0,
                  qc |-> NoCertificate] }
  /\ wire' = MessageBytes(sent')
  /\ phase' = "sent"
  /\ UNCHANGED <<scheme, votes, cert, got>>

Arrive ==
  /\ phase = "sent"
  /\ \E n \in 0 .. Len(wire) : wire' = SubSeq(wire, 1, n)
  /\ phase' = "arrived"
  /\ UNCHANGED <<scheme, votes, cert, sent, got>>

Decode ==
  /\ phase = "arrived"
  /\ LET message == MessageFromBytes(wire)
     IN  /\ phase' = message.result
         /\ got' = IF Failed(message) THEN NoMessage ELSE message.value
  /\ UNCHANGED <<scheme, votes, cert, sent, wire>>

Check ==
  /\ phase = "formed"
  /\ phase' = IF Validate(cert) THEN "valid" ELSE "invalid"
  /\ UNCHANGED <<scheme, votes, cert, sent, wire, got>>

Next ==
  \/ CollectVote \/ CollectBLSVote \/ Form \/ ReceiveCertificate
  \/ Send \/ SendPlain \/ Arrive \/ Decode \/ Check

Spec == Init /\ [][Next]_vars

-----------------------------------------------------------------------------
(* Properties *)

\* What a replica forms from votes it verified holds for everybody else: the
\* signatures and timestamps of an Ed25519 certificate match its signers in
\* whatever order the votes came, repeated votes included, and so does a BLS
\* certificate of votes that were all made for BLS.
FormedCertificatesHold ==
  phase = "invalid" /\ votes # <<>> =>
    scheme = "bls" /\ \E k \in DOMAIN votes : votes[k].timestamp # 0

\* A valid certificate, wherever it comes from, stands for a quorum of
\* different validators that each signed for its view and block, at the time
\* the certificate gives.
CertificatesAreQuorums ==
  phase = "valid" =>
    LET backers == ToSet(cert.signers)
        k == Len(cert.signers)
    IN  /\ backers \subseteq Replicas
        /\ IsQuorum(backers)
        /\ cert.cryptoScheme = "ed25519" =>
             \A i \in backers : \E j \in 1 .. k :
               cert.aggregateSignature[k + 1 + j] =
                 Signature(i, Digest(cert.view, cert.node, i, cert.timestamps[j]))

\* The length of the aggregate fits its field.
Fits == sent.type # "VOTE" /\ sent.qc # NoCertificate =>
          Len(sent.qc.aggregateSignature) < Wide

Whole == phase \in {"decoded", "error", "panic"} /\ wire = MessageBytes(sent)

\* A message that arrives whole is decoded to what was sent, unless the
\* aggregate is too long for its length field.
RoundTrip == Whole /\ Fits => phase = "decoded" /\ got = sent

\* A message that was cut short anywhere is never taken for one.
CutMessagesAreRefused == phase = "decoded" /\ Fits => wire = MessageBytes(sent)
==============================================================================

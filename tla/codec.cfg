SPECIFICATION Spec
CONSTANTS
  N = 4
  Window = 1
  h1 = h1
  h2 = h2
  Views <- MCViews
  Hashes <- TwoHashes
  Times <- MCTimes
  Wide = 8
  HashCells = 4
  MaxVotes = 4
  Received <- MCReceived
INVARIANTS FormedCertificatesHold CertificatesAreQuorums RoundTrip CutMessagesAreRefused
CHECK_DEADLOCK FALSE

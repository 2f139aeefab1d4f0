\* The builds that write a header; pages of 0-4, 127, 128 and 4096 bytes.
CONSTANTS
    Bytes <- MCBytes
    Fillers <- MCFillers
    MaxLead = 4
    Builds <- MCBuildsHeadered
SPECIFICATION Spec
INVARIANT RoundTripUnlessRawTrv
INVARIANT EncryptedRejectedWithoutEncryption
\* A page is written once and read once; the behaviour then stops.
CHECK_DEADLOCK FALSE

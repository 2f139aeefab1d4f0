---------------------------- MODULE MCPageCodec ----------------------------
EXTENDS PageCodec

\* "t", "r", "v", Lz4, the encryption bit, the encryption bit with Lz4,
\* and a byte that is none of these.
MCBytes == {116, 114, 118, 1, 128, 0}
\* With MaxLead = 4: pages of 127, 128 and 4096 bytes.
MCFillers == {123, 124, 4092}
MCBuilds == {"Both", "Compression", "Encryption"}
MCBuildsHeadered == {"Both", "Compression"}
====

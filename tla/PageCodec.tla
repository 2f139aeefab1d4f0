----------------------------- MODULE PageCodec -----------------------------
(***************************************************************************)
(* The per-page codec of the tree store: TreeVault's nebari::Vault         *)
(* implementation (crates/bonsaidb-local/src/storage.rs), in the three     *)
(* builds the code has: compression and encryption, compression only,     *)
(* encryption only.                                                        *)
(*                                                                         *)
(* A page is a sequence of symbols: a byte ([byte |-> 0..255]), an        *)
(* opaque LZ4 block with its size prefix ([lz4 |-> page]), an opaque vault *)
(* payload ([vault |-> page]), or a run of bytes ([fill |-> length])      *)
(* standing for the rest of a long page.  Only the first bytes of a page  *)
(* and its length decide what the codec does, so they are all it keeps.  *)
(***************************************************************************)
EXTENDS Naturals, Sequences, SequencesExt

CONSTANTS
    Bytes,        \* byte values that may lead a payload
    Fillers,      \* lengths of the run that follows MaxLead leading bytes
    MaxLead,      \* number of leading bytes a payload is built from
    Builds        \* the feature sets compiled: "Both", "Compression", "Encryption"

ASSUME /\ Bytes \subseteq 0..255 /\ Fillers \subseteq Nat \ {0} /\ MaxLead \in Nat
       /\ Builds \subseteq {"Both", "Compression", "Encryption"}

B(n) == [byte |-> n]
Is(s, kind) == kind \in DOMAIN s

\* b"trv" and Compression::Lz4 as u8.
TRV  == <<B(116), B(114), B(118)>>
Lz4  == 1

\* payload.len(): an opaque lz4 block or vault payload is at least 8 bytes.
SymbolLen(s) == IF Is(s, "byte") THEN 1 ELSE IF Is(s, "fill") THEN s.fill ELSE 8
ByteLen(p) == FoldSeq(LAMBDA s, n : n + SymbolLen(s), 0, p)

Ok(v)  == [tag |-> "Ok", val |-> v]
Err(e) == [tag |-> e, val |-> <<>>]

StartsWithTrv(p) ==
    ByteLen(p) >= 4 /\ Len(p) >= 4 /\ SubSeq(p, 1, 3) = TRV /\ Is(p[4], "byte")

-----------------------------------------------------------------------------
(* Collaborators outside this repository (lz4_flex, Vault)                *)

\* lz4_flex::block::compress_prepend_size and decompress_size_prepended.
Compress(p) == <<[lz4 |-> p]>>
Decompress(p) ==
    IF Len(p) = 1 /\ Is(p[1], "lz4") THEN Ok(p[1].lz4)
    ELSE Err("Compression")

\* Vault::encrypt_payload and Vault::decrypt_payload: bytes that do not
\* parse as a vault payload are taken to be a page stored unencrypted and
\* are passed through.
EncryptPayload(p) == <<[vault |-> p]>>
DecryptPayload(p) ==
    IF Len(p) = 1 /\ Is(p[1], "vault") THEN Ok(p[1].vault)
    ELSE Ok(p)

-----------------------------------------------------------------------------
(* Build with compression and encryption                                  *)

\* A TreeVault exists only if a key or a compression is configured.
NewIfNeededBoth(key, compression) == key \/ compression

HeaderNoKeyBit(key, compression, compressed) ==
    IF compressed /\ compression THEN Lz4 ELSE 0

Header(key, compression, compressed) ==
    (IF key THEN 128 ELSE 0) + (IF compressed /\ compression THEN Lz4 ELSE 0)

EncryptBoth(key, compression, p) ==
    LET compressNow == ByteLen(p) >= 128 /\ compression
        compressed  == IF compressNow THEN Compress(p) ELSE p
        complete    == IF key THEN EncryptPayload(compressed) ELSE compressed
        h           == Header(key, compression, compressNow)
    IN IF h # 0 THEN TRV \o <<B(h)>> \o complete ELSE complete

\* A headerless page goes to the vault, as if it were encrypted.
DecryptBoth(p) ==
    IF StartsWithTrv(p)
      THEN LET h         == p[4].byte
               body      == SubSeq(p, 5, Len(p))
               decrypted == IF h >= 128 THEN DecryptPayload(body) ELSE Ok(body)
           IN IF decrypted.tag # "Ok" THEN decrypted
              ELSE IF h % 128 = Lz4 THEN Decompress(decrypted.val)
              ELSE decrypted
      ELSE DecryptPayload(p)

-----------------------------------------------------------------------------
(* Build with compression only                                            *)

EncryptCompression(p) ==
    IF ByteLen(p) >= 128 THEN TRV \o <<B(Lz4)>> \o Compress(p) ELSE p

DecryptCompressionIgnoresEncrypted(p) ==
    IF StartsWithTrv(p)
      THEN LET h == p[4].byte
           IN IF h % 128 = Lz4 THEN Decompress(SubSeq(p, 5, Len(p)))
              ELSE Ok(SubSeq(p, 5, Len(p)))
      ELSE Ok(p)

DecryptCompression(p) ==
    IF StartsWithTrv(p)
      THEN LET h == p[4].byte
               body == SubSeq(p, 5, Len(p))
           IN IF h >= 128 THEN Err("EncryptionDisabled")
              ELSE IF h % 128 = Lz4 THEN Decompress(body)
              ELSE Ok(body)
      ELSE Ok(p)

-----------------------------------------------------------------------------
(* Build with encryption only                                             *)

EncryptEncryption(key, p) == IF key THEN EncryptPayload(p) ELSE p
DecryptEncryption(p) == DecryptPayload(p)

-----------------------------------------------------------------------------
(* One page written by the storage's codec and read back.  Storage::open  *)
(* builds one TreeVault from its configuration (storage.rs 300-312); the  *)
(* tree store then encrypts every page it writes and decrypts every page  *)
(* it reads with it.  A page written by a build with encryption may also  *)
(* be read by a build without it (the same files opened by another        *)
(* binary).                                                               *)

VARIABLES build, key, compression, plain, stored, out, reader, stage
vars == <<build, key, compression, plain, stored, out, reader, stage>>

\* The configurations for which new_if_needed returns a TreeVault.
Configs ==
    {c \in [build : Builds, key : BOOLEAN, compression : BOOLEAN] :
        CASE c.build = "Both"        -> NewIfNeededBoth(c.key, c.compression)
          [] c.build = "Compression" -> c.compression /\ ~c.key
          [] c.build = "Encryption"  -> c.key /\ ~c.compression}

\* Payloads: up to MaxLead leading bytes, or MaxLead bytes and a run.
Leads == UNION {[1..n -> {B(b) : b \in Bytes}] : n \in 0..MaxLead}
Payloads ==
    Leads \cup {l \o <<[fill |-> f]>> : l \in [1..MaxLead -> {B(b) : b \in Bytes}],
                                         f \in Fillers}

EncryptIn(b, k, c, p) ==
    CASE b = "Both"        -> EncryptBoth(k, c, p)
      [] b = "Compression" -> EncryptCompression(p)
      [] b = "Encryption"  -> EncryptEncryption(k, p)

DecryptIn(b, p) ==
    CASE b = "Both"        -> DecryptBoth(p)
      [] b = "Compression" -> DecryptCompression(p)
      [] b = "Encryption"  -> DecryptEncryption(p)

Init ==
    /\ \E c \in Configs : build = c.build /\ key = c.key /\ compression = c.compression
    /\ plain \in Payloads
    /\ stored = <<>>
    /\ out = Err("None")
    /\ reader = build
    /\ stage = "Plain"

\* nebari::Vault::encrypt of the configured TreeVault.
WritePage ==
    /\ stage = "Plain"
    /\ stored' = EncryptIn(build, key, compression, plain)
    /\ stage' = "Stored"
    /\ UNCHANGED <<build, key, compression, plain, out, reader>>

\* nebari::Vault::decrypt of the same TreeVault.
ReadPage ==
    /\ stage = "Stored"
    /\ out' = DecryptIn(build, stored)
    /\ stage' = "Read"
    /\ UNCHANGED <<build, key, compression, plain, stored, reader>>

\* The page read by the compression-only build's decrypt.
ReadPageWithoutEncryption ==
    /\ stage = "Stored"
    /\ build # "Compression"
    /\ out' = DecryptCompression(stored)
    /\ reader' = "Compression"
    /\ stage' = "Read"
    /\ UNCHANGED <<build, key, compression, plain, stored>>

Next == WritePage \/ ReadPage \/ ReadPageWithoutEncryption

Spec == Init /\ [][Next]_vars

-----------------------------------------------------------------------------
(* Properties                                                             *)

TypeOK ==
    /\ build \in Builds /\ key \in BOOLEAN /\ compression \in BOOLEAN
    /\ plain \in Payloads
    /\ stage \in {"Plain", "Stored", "Read"}
    /\ reader \in Builds \cup {"Compression"}
    /\ out.tag \in {"None", "Ok", "Compression", "EncryptionDisabled"}

\* A raw page whose first bytes happen to read "trv" and one more byte.
RawTrvPage == StartsWithTrv(plain) /\ stored = plain

\* Codec round-trip (decrypt(encrypt(x)) = x) for every page the codec
\* itself wrote, except a raw one that begins with "trv": the header, the
\* lz4 block and the vault payload are all undone in the right order.
RoundTripUnlessRawTrv ==
    (stage = "Read" /\ reader = build /\ ~RawTrvPage) => out = Ok(plain)

\* Codec round-trip for every page, as the specification states it.
RoundTrip ==
    (stage = "Read" /\ reader = build) => out = Ok(plain)

\* A page encrypted with a key, read by a build without encryption, is
\* refused with EncryptionDisabled rather than returned as ciphertext.
EncryptedRejectedWithoutEncryption ==
    (stage = "Read" /\ reader # build /\ key) => out = Err("EncryptionDisabled")

====

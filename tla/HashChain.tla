------------------------------ MODULE HashChain ------------------------------
(***************************************************************************)
(* The hash chain of packages/integrity.  SHA-256 is taken as collision    *)
(* free, so a digest is represented by what it commits to: the content     *)
(* hash of an event by the tagged event, and the chain hash of a prefix of *)
(* events by the sequence of their content hashes, which the code builds   *)
(* by hashing the previous chain hash together with one content hash.      *)
(***************************************************************************)
EXTENDS Naturals, Sequences

\* '0'.repeat(64): the hash that precedes the first event.
GENESIS_HASH == <<>>

\* sha256 of the canonical JSON of the whole event, every field included.
ContentHash(event) == <<"content", event>>

ChainHash(previousHash, contentHash) == Append(previousHash, contentHash)

\* computeEventChain, for events whose content hashes are given: the chain
\* hash after each event.
ComputeEventChain(contents) ==
  LET chain[i \in 1 .. Len(contents)] ==
        ChainHash(IF i = 1 THEN GENESIS_HASH ELSE chain[i - 1], contents[i])
  IN  chain

\* sealTrace: the last chain hash, or GENESIS_HASH when there is no event.
SealTrace(contents) ==
  IF contents = <<>> THEN GENESIS_HASH
  ELSE ComputeEventChain(contents)[Len(contents)]

(***************************************************************************)
(* HashChainProcessor.verifyChain walks the stored events and throws at    *)
(* the first one whose chain hash does not follow from its predecessor's.  *)
(***************************************************************************)
PreviousHash(events, i) ==
  IF i = 1 THEN GENESIS_HASH ELSE events[i - 1].chainHash

ChainVerifies(events) ==
  \A i \in DOMAIN events :
    events[i].chainHash = ChainHash(PreviousHash(events, i), events[i].contentHash)

\* What verifyChain returns when it does not throw.
VerifiedHash(events) ==
  IF events = <<>> THEN GENESIS_HASH ELSE events[Len(events)].chainHash

=============================================================================

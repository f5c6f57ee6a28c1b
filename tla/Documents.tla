------------------------------ MODULE Documents ------------------------------
(****************************************************************************)
(* The signed documents ("nodes": posts, replies, profiles) that clients    *)
(* submit and servers store: internal/core/domain/node.go and               *)
(* internal/core/security/signature.go.                                     *)
(*                                                                          *)
(* Cryptography is ideal: a signature is an opaque value, SignedFields says *)
(* which fields it is a valid "v2" TLV signature of, and both digests the   *)
(* code takes of it are injective.                                          *)
(****************************************************************************)
EXTENDS Integers

CONSTANTS
    Key,          \* ed25519 public keys of the authors
    Nonce,        \* the random nonces of the documents
    Network,      \* network identifiers
    HomeNetwork,  \* NETWORK_ID of this server
    Word,         \* the words the moderators may ban
    Sig,          \* signatures
    SignedFields, \* what each v2 signature signs; other schemes are outside its domain
    Hash,         \* hex SHA256 digests
    SigHash,      \* SHA256 of a signature
    ID,           \* UUIDs of stored nodes
    UUID,         \* the UUID cut from a digest
    NoParent,     \* a null parent_id
    Blank         \* an empty network_id or nonce

\* What VerifySignature hashes: network, author, kind and payload (body), time, nonce.
Fields == [author: Key, nonce: Nonce, network: Network, body: SUBSET Word, claimed: Int]

\* domain.Node as a client sends it. body stands for kind, payload and tags: the
\* bannable words that occur in its strings. parent and tags are not signed.
Document == [author: Key, nonce: Nonce \cup {Blank}, network: Network \cup {Blank},
             body: SUBSET Word, claimed: Int, parent: ID \cup {NoParent}, sig: Sig]

ASSUME HomeAssumption == HomeNetwork \in Network /\ Blank \notin Network \cup Nonce
ASSUME ParentAssumption == NoParent \notin ID
ASSUME SignatureAssumption ==
    DOMAIN SignedFields \subseteq Sig /\ \A s \in DOMAIN SignedFields : SignedFields[s] \in Fields
ASSUME DigestAssumption ==
    /\ SigHash \in [Sig -> Hash]
    /\ \A s, t \in Sig : SigHash[s] = SigHash[t] => s = t
    /\ UUID \in [Hash -> ID]
    /\ \A g, h \in Hash : UUID[g] = UUID[h] => g = h

\* The fields of a document the canonical message is rebuilt from.
CanonicalMessage(d) == [author |-> d.author, nonce |-> d.nonce, network |-> d.network,
                        body |-> d.body, claimed |-> d.claimed]

\* An absent network_id or nonce fails the character check; anything else is
\* compared with what was signed.
VerifySignature(d) ==
    /\ d.nonce # Blank
    /\ d.network # Blank
    /\ d.sig \in DOMAIN SignedFields
    /\ SignedFields[d.sig] = CanonicalMessage(d)

\* The content-addressed identity of a document: SHA256 of its signature, cut to a UUID.
NodeID(d) == UUID[SigHash[d.sig]]
=============================================================================

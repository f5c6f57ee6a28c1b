------------------------------- MODULE Import -------------------------------
(****************************************************************************)
(* POST /v1/import: SyncHandler.HandleImport behind the same middleware.    *)
(* A batch is filtered document by document, then inserted in one           *)
(* transaction.  The handler checks neither the nonces nor the clock.       *)
(****************************************************************************)
EXTENDS Governance, Sequences

CONSTANTS
    Bulk,   \* import requests; each arrives at most once
    Batch   \* the batches of documents the clients upload: sequences

ASSUME ImportAssumption == Batch \subseteq Seq(Document)

VARIABLES
    bulkStage,    \* the next call of each import's handler
    bulkFrom,     \* the X-MeuEu-Author header each import carries
    batch,        \* and its documents (both settled initially)
    validNodes,   \* the documents kept so far
    position,     \* the document the validation loop has reached
    bulkAnswer,   \* what the client is told
    bulkStanding  \* history: bans on the uploader in force since the request arrived

importVars == <<bulkStage, bulkFrom, batch, validNodes, position, bulkAnswer, bulkStanding>>
importTables == <<used_nonces, banned_users, banned_words, banned_hashes, whitelist, clock>>

BulkStages == {"idle", "banlist", "words", "whitelist", "validate", "commit", "done"}

ImportTypeOK ==
    /\ bulkStage \in [Bulk -> BulkStages]
    /\ bulkFrom \in [Bulk -> Key \cup {NoKey}]
    /\ batch \in [Bulk -> Batch]
    /\ validNodes \in [Bulk -> Seq(Document)]
    /\ position \in [Bulk -> Nat \ {0}]
    /\ bulkAnswer \in [Bulk -> {"none", "imported", "refused", "error", "lost"}]

ImportInit ==
    /\ bulkStage = [b \in Bulk |-> "idle"]
    /\ bulkFrom \in [Bulk -> Key \cup {NoKey}]
    /\ batch \in [Bulk -> Batch]
    /\ validNodes = [b \in Bulk |-> <<>>]
    /\ position = [b \in Bulk |-> 1]
    /\ bulkAnswer = [b \in Bulk |-> "none"]
    /\ bulkStanding = [b \in Bulk |-> {}]

BulkGoto(b, s) == bulkStage' = [bulkStage EXCEPT ![b] = s] /\ UNCHANGED bulkAnswer
BulkReply(b, a) ==
    /\ bulkStage' = [bulkStage EXCEPT ![b] = "done"]
    /\ bulkAnswer' = [bulkAnswer EXCEPT ![b] = a]

BulkArrive(b) ==
    /\ bulkStage[b] = "idle"
    /\ BulkGoto(b, "banlist")
    /\ bulkStanding' = [bulkStanding EXCEPT ![b] = Bans \cap {<<"user", bulkFrom[b]>>}]
    /\ UNCHANGED <<bulkFrom, batch, validNodes, position, nodes, faults, importTables>>

\* Mutant: the ban check fails open.
BulkBanlistFailsOpen(b) ==
    /\ bulkStage[b] = "banlist"
    /\ \/ bulkFrom[b] \in {NoKey} \cup banned_users /\ BulkReply(b, "refused") /\ UNCHANGED faults
       \/ bulkFrom[b] \in Key \ banned_users /\ BulkGoto(b, "words") /\ UNCHANGED faults
       \/ bulkFrom[b] # NoKey /\ Fault /\ BulkGoto(b, "words")
    /\ UNCHANGED <<bulkFrom, batch, validNodes, position, bulkStanding, nodes, importTables>>

\* BanlistMiddleware: fails closed.
BulkBanlist(b) ==
    /\ bulkStage[b] = "banlist"
    /\ \/ bulkFrom[b] \in {NoKey} \cup banned_users /\ BulkReply(b, "refused") /\ UNCHANGED faults
       \/ bulkFrom[b] \in Key \ banned_users /\ BulkGoto(b, "words") /\ UNCHANGED faults
       \/ bulkFrom[b] # NoKey /\ Fault /\ BulkReply(b, "error")
    /\ UNCHANGED <<bulkFrom, batch, validNodes, position, bulkStanding, nodes, importTables>>

\* ContentFilterMiddleware reads the whole array for words, fails open, and looks for a
\* signature to check only when the body is a single object, which a batch is not.
BulkFilter(b) ==
    /\ bulkStage[b] = "words"
    /\ LET hit == \E i \in DOMAIN batch[b] : ContainsBannedWords(batch[b][i]) IN
       \/ hit /\ BulkReply(b, "refused") /\ UNCHANGED faults
       \/ ~hit /\ BulkGoto(b, "whitelist") /\ UNCHANGED faults
       \/ Fault /\ BulkGoto(b, "whitelist")
    /\ UNCHANGED <<bulkFrom, batch, validNodes, position, bulkStanding, nodes, importTables>>

\* WhitelistMiddleware decodes the body as one object: an array is an "Invalid JSON" 400.
BulkWhitelist(b) ==
    /\ bulkStage[b] = "whitelist"
    /\ IF WhitelistMode THEN BulkReply(b, "refused") ELSE BulkGoto(b, "validate")
    /\ UNCHANGED <<bulkFrom, batch, validNodes, position, bulkStanding, nodes, faults, importTables>>

\* What the loop keeps, if the hash is not banned.
\* Mutant: the network is not compared.
GenuineAnywhere(d) == VerifySignature(d)
Genuine(d) == d.network = HomeNetwork /\ VerifySignature(d)

\* One turn of the validation loop: foreign, unverifiable and banned documents are dropped
\* silently; the ban check fails open.
BulkValidate(b) ==
    /\ bulkStage[b] = "validate"
    /\ position[b] \in DOMAIN batch[b]
    /\ position' = [position EXCEPT ![b] = @ + 1]
    /\ LET d == batch[b][position[b]]
           Keep == validNodes' = [validNodes EXCEPT ![b] = Append(@, d)]
       IN  \/ Genuine(d) /\ ~IsBannedHash(d) /\ Keep /\ UNCHANGED faults
           \/ ~(Genuine(d) /\ ~IsBannedHash(d)) /\ UNCHANGED <<validNodes, faults>>
           \/ Genuine(d) /\ Fault /\ Keep
    /\ UNCHANGED <<bulkStage, bulkAnswer, bulkFrom, batch, bulkStanding, nodes, importTables>>

EndOfBatch(b) ==
    /\ bulkStage[b] = "validate"
    /\ position[b] \notin DOMAIN batch[b]
    /\ IF validNodes[b] = <<>> THEN BulkReply(b, "imported") ELSE BulkGoto(b, "commit")
    /\ UNCHANGED <<bulkFrom, batch, validNodes, position, bulkStanding, nodes, faults, importTables>>

\* INSERT ... ON CONFLICT (id) DO NOTHING, in batch order: which documents are new, and
\* whether each of those finds its parent stored or inserted before it.
NewAt(ds, i) == /\ NodeID(ds[i]) \notin IDs
                /\ \A j \in 1..(i - 1) : NodeID(ds[j]) # NodeID(ds[i])
BatchFits(ds) ==
    \A i \in DOMAIN ds :
        NewAt(ds, i) => ds[i].parent \in IDs \cup {NoParent} \cup {NodeID(ds[j]) : j \in 1..i}
\* Mutant: what fits is inserted, the rest is left out.
InsertFitting(ds) ==
    nodes' = nodes \cup {NodeRow(ds[i], NodeID(ds[i]), clock) :
                            i \in {j \in DOMAIN ds : NewAt(ds, j) /\ ParentStored(ds[j], NodeID(ds[j]))}}

InsertBatch(ds) ==
    /\ BatchFits(ds)
    /\ nodes' = nodes \cup {NodeRow(ds[i], NodeID(ds[i]), clock) : i \in {j \in DOMAIN ds : NewAt(ds, j)}}

\* Mutant: a statement that fails within the transaction is not answered.
CommitSilently(b) ==
    /\ bulkStage[b] = "commit"
    /\ \/ InsertBatch(validNodes[b]) /\ BulkReply(b, "imported") /\ UNCHANGED faults
       \/ /\ Fault /\ BulkReply(b, "error")
          /\ UNCHANGED nodes \/ InsertBatch(validNodes[b])
    /\ UNCHANGED <<bulkFrom, batch, validNodes, position, bulkStanding, importTables>>

\* NodeRepository.CreateBatch: all or nothing. A failed commit may have been applied.
CreateBatch(b) ==
    /\ bulkStage[b] = "commit"
    /\ \/ InsertBatch(validNodes[b]) /\ BulkReply(b, "imported") /\ UNCHANGED faults
       \/ ~BatchFits(validNodes[b]) /\ BulkReply(b, "error") /\ UNCHANGED <<nodes, faults>>
       \/ /\ Fault /\ BulkReply(b, "error")
          /\ UNCHANGED nodes \/ InsertBatch(validNodes[b])
    /\ UNCHANGED <<bulkFrom, batch, validNodes, position, bulkStanding, importTables>>

ImportStep(b) ==
    \/ BulkArrive(b) \/ BulkBanlist(b) \/ BulkFilter(b) \/ BulkWhitelist(b)
    \/ BulkValidate(b) \/ EndOfBatch(b) \/ CreateBatch(b)
=============================================================================

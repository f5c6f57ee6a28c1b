------------------------------- MODULE Restore -------------------------------
(****************************************************************************)
(* The restore of a backup (restoreBackup of frontend/js/exporter.js, with  *)
(* importBulk of sdk/client.js): the nodes of the file are sent to          *)
(* POST /v1/import in chunks, one after the other, whatever becomes of      *)
(* each.  Server goes on beside it, its crashes, moderators and other       *)
(* requests included.                                                       *)
(****************************************************************************)
EXTENDS Server, Functions

CONSTANTS
    File,       \* histories a backup may hold: sequences of documents
    ChunkSize,  \* nodes in one import (100)
    Uploads     \* the import requests in the order of their use

ASSUME RestoreAssumption ==
    /\ File \subseteq Seq(Document)
    /\ ChunkSize \in Nat \ {0}
    /\ Uploads \in Bijection(1..Cardinality(Bulk), Bulk)
    /\ \A f \in File : Len(f) <= ChunkSize * Cardinality(Bulk)

VARIABLES
    file,       \* the history in the backup
    turn,       \* the chunk that is on its way
    processed   \* the nodes the page counts as restored

restoreVars == <<file, turn, processed>>
allVars == <<vars, restoreVars>>

\* slice: the last chunk is as long as there are nodes.
Chunk(f, i) ==
    SubSeq(f, (i - 1) * ChunkSize + 1, IF i * ChunkSize < Len(f) THEN i * ChunkSize ELSE Len(f))

\* The owner of the backup has been logged in: importBulk names him as the uploader.
RestoreInit ==
    /\ file \in File /\ turn = 1 /\ processed = 0
    /\ batch = [b \in Bulk |-> Chunk(file, CHOOSE i \in DOMAIN Uploads : Uploads[i] = b)]
    /\ \E owner \in Key : bulkFrom = [b \in Bulk |-> owner]
    /\ Init

OnItsWay(b) == turn \in DOMAIN Uploads /\ Uploads[turn] = b /\ batch[b] # <<>>

\* The server's steps; a chunk is sent when its turn has come.
Serve ==
    /\ Next
    /\ \A b \in Bulk : bulkStage[b] = "idle" /\ bulkStage'[b] # "idle" => OnItsWay(b)
    /\ UNCHANGED restoreVars

\* Mutant: the nodes that were sent are counted.
Sent(b) == Len(batch[b])

\* res.imported of an answer of 200; any other answer, and none, is an exception.
Imported(b) == IF bulkAnswer[b] = "imported" THEN Len(validNodes[b]) ELSE 0

\* The exception is caught within the loop: the next chunk follows in any case.
NextChunk ==
    /\ \E b \in Bulk : /\ OnItsWay(b) /\ bulkStage[b] = "done"
                       /\ processed' = processed + Imported(b)
    /\ turn' = turn + 1
    /\ UNCHANGED <<vars, file>>

RestoreNext == Serve \/ NextChunk
RestoreSpec == RestoreInit /\ [][RestoreNext]_allVars

\* The handlers of Server run on; the page may be closed.
FairRestoreSpec == RestoreSpec /\ HandlersRun

\* "Synced n historical nodes" (exporter.js:120): at least that many nodes of the backup are
\* stored, or were until a moderator deleted them. Chunks that fail, are lost in a crash or
\* have parents in such a chunk, and nodes that are dropped, are not in the number.
RestoreCountsTrue ==
    processed <= Cardinality({i \in DOMAIN file : NodeID(file[i]) \in IDs \cup removed})

(****************************************************************************)
(* Why: the inductive invariant                                             *)
(****************************************************************************)

\* The places of a chunk that the validation loop has passed and whose nodes it kept, and the
\* places among the first n of the backup whose nodes are, or were, stored.
Kept(b) ==
    {i \in DOMAIN batch[b] :
        i < position[b] /\ batch[b][i] \in {validNodes[b][j] : j \in DOMAIN validNodes[b]}}
Restored(n) == {i \in DOMAIN file : i <= n /\ NodeID(file[i]) \in IDs \cup removed}

\* The server keeps no more nodes of a chunk than it has places for them, a chunk that was
\* answered for is there, and the page counts each place once, chunk by chunk.
ChunkInv(b) ==
    /\ Len(validNodes[b]) <= Cardinality(Kept(b))
    /\ bulkAnswer[b] = "imported" =>
           \A i \in DOMAIN validNodes[b] : NodeID(validNodes[b][i]) \in IDs \cup removed
CountInv ==
    /\ file \in File /\ turn \in Nat \ {0} /\ processed \in Nat
    /\ \A i \in DOMAIN Uploads : batch[Uploads[i]] = Chunk(file, i)
    /\ \A b \in Bulk : ChunkInv(b)
    /\ processed <= Cardinality(Restored((turn - 1) * ChunkSize))
=============================================================================

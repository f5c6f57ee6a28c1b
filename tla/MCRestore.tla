------------------------------ MODULE MCRestore ------------------------------
(* Small instances of Restore: backups of the documents of MCServer. *)
EXTENDS MCServer, Restore

CONSTANT b2   \* a second import

InOrder == <<b1, b2>>
\* a thread, out of order within a chunk, and what belongs to another network; one in order
\* across the chunks, with what servers hand out; a node that was in two backups
Backups == {<<Reply1, Root, Foreign>>, <<Root, RootFromTable, Reply1>>, <<Root, Root>>}
Chunks == {Chunk(f, i) : f \in Backups, i \in DOMAIN Uploads}
\* what clients publish meanwhile
Arriving == {Root, Reply1, OldScheme}
=============================================================================

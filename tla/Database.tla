------------------------------ MODULE Database ------------------------------
(****************************************************************************)
(* The PostgreSQL tables of one server and the statements the repositories  *)
(* run on them (internal/storage/postgres, db/migrations).  A statement is  *)
(* atomic; everything between two statements of a handler is not.           *)
(****************************************************************************)
EXTENDS Documents, FiniteSets

CONSTANTS TTL,        \* how long a nonce is remembered (24h)
          MaxClock,   \* bound of the model: the clock stops here
          MaxFaults   \* bound of the model: failing calls, crashes and restarts

ASSUME TimeAssumption == TTL \in Nat /\ MaxClock \in Nat /\ MaxFaults \in Nat

VARIABLES clock,          \* the wall clock, shared by server and database host
          faults,         \* failures so far
          nodes, used_nonces, banned_users, banned_words, banned_hashes, whitelist

dbVars == <<nodes, used_nonces, banned_users, banned_words, banned_hashes, whitelist>>

\* Rows of nodes: what Create keeps of a document. network_id and nonce have no column.
Row == [id: ID, parent: ID \cup {NoParent}, author: Key, body: SUBSET Word,
        sig: Sig, claimed: Int, verified: Nat]

NonceRow == [nonce: Nonce, author: Key, created: Nat]

DatabaseTypeOK ==
    /\ clock \in 0..MaxClock
    /\ faults \in 0..MaxFaults
    /\ nodes \subseteq Row
    /\ used_nonces \subseteq NonceRow
    /\ banned_users \subseteq Key
    /\ banned_words \subseteq Word
    /\ banned_hashes \subseteq Hash
    /\ whitelist \subseteq Key

DatabaseInit ==
    /\ clock = 0 /\ faults = 0
    /\ nodes = {} /\ used_nonces = {}
    /\ banned_users = {} /\ banned_words = {} /\ banned_hashes = {} /\ whitelist = {}

\* A call fails: the pool is exhausted, the connection drops, the client hung up.
Fault == faults < MaxFaults /\ faults' = faults + 1

IDs == {n.id : n \in nodes}
StoredWith(h) == {n \in nodes : SigHash[n.sig] = h}

NodeRow(d, id, t) == [id |-> id, parent |-> d.parent, author |-> d.author, body |-> d.body,
                      sig |-> d.sig, claimed |-> d.claimed, verified |-> t]

\* nodes.parent_id REFERENCES nodes(id), checked once the row itself is there.
ParentStored(d, id) == d.parent \in IDs \cup {id, NoParent}

\* INSERT INTO nodes: the primary key is checked before the foreign key.
InsertNode(d, id) ==
    /\ id \notin IDs
    /\ ParentStored(d, id)
    /\ nodes' = nodes \cup {NodeRow(d, id, clock)}

\* No row that stays refers to a row that goes (no ON DELETE clause).
Deletable(rows) ==
    \A n \in nodes \ rows : \A gone \in rows : n.parent # gone.id

\* Mutant: the key of the table is the nonce alone.
NonceFreeOfAll(nonce, author) == ~ \E u \in used_nonces : u.nonce = nonce

\* NonceRepository.MarkUsed: one INSERT ... ON CONFLICT DO NOTHING.
NonceFree(nonce, author) ==
    ~ \E u \in used_nonces : u.nonce = nonce /\ u.author = author

MarkUsed(nonce, author, t) ==
    /\ NonceFree(nonce, author)
    /\ used_nonces' = used_nonces \cup {[nonce |-> nonce, author |-> author, created |-> t]}

\* Mutant: a nonce that is exactly TTL old is already forgotten.
CleanupExpiredEarly ==
    \E t \in 0..clock :
        /\ used_nonces' = {u \in used_nonces : ~ (u.created <= t - TTL)}
        /\ UNCHANGED <<clock, faults, nodes, banned_users, banned_words, banned_hashes, whitelist>>

\* NonceRepository.CleanupExpired, run every hour; the clock is read before the DELETE runs.
CleanupExpired ==
    \E t \in 0..clock :
        /\ used_nonces' = {u \in used_nonces : ~ (u.created < t - TTL)}
        /\ UNCHANGED <<clock, faults, nodes, banned_users, banned_words, banned_hashes, whitelist>>

Tick == clock < MaxClock /\ clock' = clock + 1 /\ UNCHANGED <<faults, dbVars>>
=============================================================================

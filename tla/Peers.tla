------------------------------- MODULE Peers -------------------------------
(****************************************************************************)
(* The table of known servers that each server keeps, and the statements of *)
(* PeerRepository (internal/storage/postgres/peer_repository.go).  Servers  *)
(* are named by their URLs.                                                 *)
(****************************************************************************)
EXTENDS Integers, Sequences, FiniteSets

CONSTANTS
    Server,      \* servers that run this code
    Foreign,     \* servers of other implementations of the protocol
    PubKey,      \* the public keys servers are listed under
    Shared,      \* "discovered-from-gossip": the key of any server met by its URL alone
    Reputation,  \* the reputation a new peer starts with (100)
    Day          \* how long a peer counts as active after it was last seen (24h)

Host == Server \cup Foreign

ASSUME HostAssumption == Server \cap Foreign = {} /\ Shared \notin PubKey
ASSUME ActiveAssumption == Reputation \in Nat \ {0} /\ Day \in Nat

VARIABLE peers  \* peers[s]: the table of server s

\* A row of peers. age is the time since last_seen: beyond Day, it makes no difference.
Row == [key: PubKey \cup {Shared}, url: Host, age: 0..Day + 1, rep: Int]

\* domain.Peer as one server lists it to another; its last_seen is overwritten.
Entry == [key: PubKey \cup {Shared}, url: Host, rep: Int]

\* public_key is UNIQUE and so is the index idx_peers_url.
OneRowEach(rows) == \A p, q \in rows : p.key = q.key \/ p.url = q.url => p = q

PeersTypeOK == /\ peers \in [Server -> SUBSET Row]
               /\ \A s \in Server : OneRowEach(peers[s])
PeersInit == peers = [s \in Server |-> {}]

\* PeerRepository.GetByURL: a set of at most one row.
At(rows, url) == {p \in rows : p.url = url}

Moved(rows, e) ==
    {IF p.key = e.key THEN [p EXCEPT !.url = e.url, !.age = 0] ELSE p : p \in rows}
Inserted(rows, e) ==
    rows \cup {[key |-> e.key, url |-> e.url, age |-> 0, rep |-> e.rep]}

\* Mutants: the reputation is set on conflict, too; the URL is not unique.
UpsertRestoring(rows, e) ==
    IF \E p \in rows : p.url = e.url /\ p.key # e.key THEN rows
    ELSE Inserted({p \in rows : p.key # e.key}, e)
UpsertAnywhere(rows, e) ==
    IF \E p \in rows : p.key = e.key THEN Moved(rows, e) ELSE Inserted(rows, e)

\* PeerRepository.Upsert: a known key is moved to the URL and keeps its reputation; a URL
\* that another key holds fails the statement.
Upsert(rows, e) ==
    IF \E p \in rows : p.url = e.url /\ p.key # e.key THEN rows
    ELSE IF \E p \in rows : p.key = e.key THEN Moved(rows, e) ELSE Inserted(rows, e)

\* Mutant: the UPDATE lost its WHERE clause.
PunishAll(rows, key, penalty) == {[p EXCEPT !.rep = @ - penalty] : p \in rows}

\* PeerRepository.Punish
Punish(rows, key, penalty) ==
    {IF p.key = key THEN [p EXCEPT !.rep = @ - penalty] ELSE p : p \in rows}

\* Mutant: a peer counts as active until its reputation is below 0.
ActiveAtZero(rows) == {p \in rows : p.age <= Day /\ p.rep >= 0}

Active(rows) == {p \in rows : p.age <= Day /\ p.rep > 0}

\* PeerRepository.ListActive: at most limit, the most recently seen first, ties in any order.
ListActive(rows, limit) ==
    {list \in UNION {[1..n -> Active(rows)] : n \in {m \in 0..limit : m <= Cardinality(rows)}} :
        /\ \A i, j \in DOMAIN list : i < j => list[i] # list[j] /\ list[i].age <= list[j].age
        /\ \A p \in Active(rows) :
               \/ \E i \in DOMAIN list : list[i] = p
               \/ Len(list) = limit /\ \A i \in DOMAIN list : list[i].age <= p.age}

Older(rows) == {[p EXCEPT !.age = IF @ > Day THEN @ ELSE @ + 1] : p \in rows}
=============================================================================

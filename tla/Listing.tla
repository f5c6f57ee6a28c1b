------------------------------ MODULE Listing ------------------------------
(****************************************************************************)
(* The two queries that list nodes (NodeRepository.Query and ListRecent in  *)
(* internal/storage/postgres/node_repository.go), on any set of rows with a *)
(* claimed time.  claimed_at is no key: rows that were claimed at one time  *)
(* come in any order, and in another one when the query is run again.       *)
(****************************************************************************)
EXTENDS Integers, SequencesExt

\* The sequences of the rows that a sort may leave.
Ordered(rows, Before(_, _)) ==
    {s \in SetToSeqs(rows) : \A i, j \in DOMAIN s : i < j => ~Before(s[j], s[i])}

\* LIMIT and OFFSET
Page(s, limit, offset) ==
    SubSeq(s, offset + 1, IF offset + limit < Len(s) THEN offset + limit ELSE Len(s))

Older(m, n) == m.claimed < n.claimed
Newer(m, n) == m.claimed > n.claimed

\* Mutant: the newest of the window come first.
ListLatest(rows, since, limit) ==
    {Page(s, limit, 0) : s \in Ordered({n \in rows : n.claimed > since}, Newer)}

\* NodeRepository.ListRecent: the oldest rows of a window that begins after since.
ListRecent(rows, since, limit) ==
    {Page(s, limit, 0) : s \in Ordered({n \in rows : n.claimed > since}, Older)}

\* Mutants: the offset counts the pages; the oldest rows come first.
QueryPages(rows, limit, offset) ==
    {Page(s, limit, limit * offset) : s \in Ordered(rows, Newer)}
QueryOldest(rows, limit, offset) ==
    {Page(s, limit, offset) : s \in Ordered(rows, Older)}

\* NodeRepository.Query, of the rows its filters select: the newest first.
Query(rows, limit, offset) ==
    {Page(s, limit, offset) : s \in Ordered(rows, Newer)}
=============================================================================

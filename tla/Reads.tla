-------------------------------- MODULE Reads --------------------------------
(****************************************************************************)
(* What a server answers from its table of nodes: the rows as they are read *)
(* back, the parcel GET /v1/sync makes of them, and the pages of            *)
(* POST /v1/query.                                                          *)
(****************************************************************************)
EXTENDS Database, Listing

CONSTANTS DefaultLimit,  \* the length of a page if none is asked for (20)
          MaxLimit       \* the longest page that may be asked for (100)

ASSUME LimitAssumption == DefaultLimit \in Nat \ {0} /\ MaxLimit \in Nat

\* Mutant: the first column is not scanned.
ReadBackNameless(n) ==
    [doc |-> [author |-> n.author, nonce |-> Blank, network |-> Blank, body |-> n.body,
              claimed |-> n.claimed, parent |-> n.parent, sig |-> n.sig],
     id |-> NoParent]

\* A row as it is scanned: what has no column comes back empty, and is sent so.
ReadBack(n) ==
    [doc |-> [author |-> n.author, nonce |-> Blank, network |-> Blank, body |-> n.body,
              claimed |-> n.claimed, parent |-> n.parent, sig |-> n.sig],
     id |-> n.id]

\* GET /v1/sync, with a limit of its own where the one asked for is out of range.
SyncAnswers(rows, since, limit) ==
    {[i \in DOMAIN s |-> ReadBack(s[i])] :
        s \in ListRecent(rows, since, IF limit \in 1..200 THEN limit ELSE 50)}

\* domain.NodeFilter: an empty filter selects everything. Kinds and tags are part of body.
Filter == [ids: SUBSET ID, authors: SUBSET Key, tags: SUBSET Word]
Selected(rows, f) ==
    {n \in rows : /\ f.ids = {} \/ n.id \in f.ids
                  /\ f.authors = {} \/ n.author \in f.authors
                  /\ f.tags = {} \/ n.body \cap f.tags # {}}

\* POST /v1/query: a limit that is out of range is not cut down to the longest page but
\* replaced by the default.
QueryAnswers(rows, f, limit, offset) ==
    {[i \in DOMAIN s |-> ReadBack(s[i])] :
        s \in Query(Selected(rows, f), IF limit \in 1..MaxLimit THEN limit ELSE DefaultLimit, offset)}
=============================================================================

------------------------------- MODULE Paging -------------------------------
(****************************************************************************)
(* A reader goes through the answers to one query, page by page, with the   *)
(* offset of POST /v1/query (handlers/query.go over NodeRepository.Query),  *)
(* while posts are stored and deleted.  Each page is a statement of its     *)
(* own.  The reader is an external client, the most careful there can be:   *)
(* it asks from where the last page ended until a page is empty.            *)
(****************************************************************************)
EXTENDS Reads, Moderation

CONSTANTS Arrivals,  \* the documents that are published
          Question,  \* the filter of the query
          Wish       \* the limit the reader asks for

\* What is stored has been signed, whichever way it came: so its time belongs to its ID.
ASSUME PagingAssumption ==
    /\ Arrivals \subseteq {d \in Document : VerifySignature(d)}
    /\ Question \in Filter /\ Wish \in Int

VARIABLES
    reading,  \* "before", "under way" or "done"
    got,      \* the IDs of the nodes the reader was given, in order
    lasting,  \* history: rows that have been there ever since the reader began
    arrived,  \* history: rows stored since
    gone,     \* history: rows deleted since
    broken    \* history: the connection to the database was lost before the first row of a page

readerVars == <<reading, got, lasting, arrived, gone, broken>>
vars == <<clock, faults, dbVars, moderationVars, readerVars>>

TypeOK ==
    /\ DatabaseTypeOK /\ ModerationTypeOK
    /\ reading \in {"before", "under way", "done"}
    /\ got \in Seq(ID)
    /\ lasting \subseteq nodes /\ arrived \subseteq Row /\ gone \subseteq Row
    /\ broken \in BOOLEAN

Init ==
    /\ DatabaseInit /\ ModerationInit
    /\ reading = "before" /\ got = <<>>
    /\ lasting = {} /\ arrived = {} /\ gone = {} /\ broken = FALSE

Begin ==
    /\ reading = "before" /\ reading' = "under way"
    /\ lasting' = nodes
    /\ UNCHANGED <<clock, faults, dbVars, moderationVars, got, arrived, gone, broken>>

Take(page) ==
    /\ got' = got \o [i \in DOMAIN page |-> page[i].id]
    /\ reading' = IF page = <<>> THEN "done" ELSE reading

\* A page is read and sent. The loop over the rows does not ask whether it ended for an error
\* (rows.Err): what was read before the connection was lost is sent as the whole answer.
ReadPage ==
    /\ reading = "under way"
    /\ \E page \in QueryAnswers(nodes, Question, Wish, Len(got)) :
          \/ Take(page) /\ UNCHANGED <<faults, broken>>
          \/ \E n \in 0..Len(page) - 1 :
                /\ Fault /\ Take(SubSeq(page, 1, n))
                /\ broken' = (broken \/ n = 0)
    /\ UNCHANGED <<clock, dbVars, moderationVars, lasting, arrived, gone>>

Remember ==
    /\ lasting' = lasting \cap nodes'
    /\ arrived' = IF reading = "before" THEN {} ELSE arrived \cup (nodes' \ nodes)
    /\ gone' = IF reading = "before" THEN {} ELSE gone \cup (nodes \ nodes')
    /\ UNCHANGED <<reading, got, broken>>

\* A post is published, imported, or pulled under its own ID: whatever time it claims.
Store ==
    /\ \E d \in Arrivals : InsertNode(d, NodeID(d))
    /\ Remember
    /\ UNCHANGED <<clock, faults, used_nonces, banned_users, banned_words, banned_hashes,
                   whitelist, moderationVars>>

Moderate == ModerationStep /\ Remember

Next == Begin \/ ReadPage \/ Store \/ Moderate
Spec == Init /\ [][Next]_vars

\* The rows the query is about, if they were claimed when n was, and if later.
Tied(rows, n) == {m \in Selected(rows, Question) : m.claimed = n.claimed} \ {n}
Above(rows, n) == {m \in Selected(rows, Question) : m.claimed > n.claimed}

\* POST /v1/query loses nothing but by a deletion: a node that was there all the time and is
\* not in any page was overtaken by the offset when a newer one was deleted, shared its claimed
\* time with another one, or the first row of a page was lost. However many posts are stored
\* meanwhile, backdated ones too, and whatever is cut off a page, no node falls between two.
NothingOverlooked ==
    reading = "done" =>
        \A n \in Selected(lasting, Question) :
            \/ n.id \in {got[i] : i \in DOMAIN got}
            \/ Above(gone, n) # {} \/ Tied(nodes \cup gone, n) # {}
            \/ broken

\* A node is in two pages only if a newer one was stored meanwhile, or one claimed at the
\* same time is there; a deletion or a cut repeats nothing.
NothingRepeated ==
    \A i, j \in DOMAIN got : i < j /\ got[i] = got[j] =>
        \E n \in nodes \cup gone :
            n.id = got[i] /\ (Above(arrived, n) # {} \/ Tied(nodes \cup gone, n) # {})

(****************************************************************************)
(* Why: the inductive invariant                                             *)
(****************************************************************************)

\* A row that is, or was, there: what was signed under its ID.
SignedRow(n) == /\ n.sig \in DOMAIN SignedFields /\ n.claimed = SignedFields[n.sig].claimed
                /\ n.id = UUID[SigHash[n.sig]]

\* Nodes that are the only ones of their time have a place in the order of the answers: as many
\* are before them as were claimed later.
Before(n) == Cardinality(Above(nodes, n))

\* A lasting node is not behind the offset unless it was read or overtaken; and a node that was
\* read is not before it again unless a newer one arrived.
Ahead(n) ==
    \/ n.id \in {got[i] : i \in DOMAIN got}
    \/ Above(gone, n) # {} \/ Tied(nodes \cup gone, n) # {} \/ broken
    \/ reading = "under way" /\ Len(got) <= Before(n)
Behind(i) ==
    \E n \in Selected(nodes \cup gone, Question) :
        /\ n.id = got[i]
        /\ Above(arrived, n) # {} \/ Tied(nodes \cup gone, n) # {} \/ Before(n) < i
OffsetInv ==
    /\ \A n \in nodes \cup gone : SignedRow(n)
    /\ IF reading = "before" THEN got = <<>> /\ lasting = {} /\ gone = {} /\ arrived = {}
       ELSE \A n \in Selected(lasting, Question) : Ahead(n)
    /\ \A i \in DOMAIN got : Behind(i)
    /\ NothingRepeated
=============================================================================

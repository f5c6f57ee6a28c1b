------------------------------- MODULE Ledger -------------------------------
(****************************************************************************)
(* What a server promises its clients, with no tables, middleware or steps: *)
(* a ledger of genuine posts in closed threads, on which every request has  *)
(* one atomic effect, at the moment its receipt is settled.                 *)
(****************************************************************************)
EXTENDS Integers

CONSTANTS Request,   \* the publish requests
          GenuineID,   \* IDs of the documents that were signed for this network
          NoParent

VARIABLES ledger,    \* the posts: [id, parent]
          receipt    \* what each request came to: [status, id]

vars == <<ledger, receipt>>

Entry == [id: GenuineID, parent: GenuineID \cup {NoParent}]
Pending == [status |-> "pending", id |-> NoParent]
Refused == [status |-> "refused", id |-> NoParent]

Sound(posts) ==
    /\ posts \subseteq Entry
    /\ \A p, q \in posts : p.id = q.id => p = q
    /\ \A p \in posts : p.parent = NoParent \/ \E q \in posts : q.id = p.parent

Init == ledger = {} /\ receipt = [r \in Request |-> Pending]

Settle(r, status, id) ==
    /\ receipt[r] = Pending
    /\ receipt' = [receipt EXCEPT ![r] = [status |-> status, id |-> id]]

\* "published": the post was not there and is there now.
Publish(r) ==
    \E p \in Entry :
        /\ \A q \in ledger : q.id # p.id
        /\ ledger' = ledger \cup {p}
        /\ Sound(ledger')
        /\ Settle(r, "published", p.id)

\* "already_exists": the post is there.
Confirm(r) == \E p \in ledger : Settle(r, "already_exists", p.id) /\ UNCHANGED ledger

\* A refusal has no effect.
Refuse(r) == Settle(r, "refused", NoParent) /\ UNCHANGED ledger

\* After an internal error the client does not know: the post may be there all the same.
Fail(r) ==
    /\ Settle(r, "refused", NoParent)
    /\ \E p \in Entry : ledger' = ledger \cup {p} /\ Sound(ledger')

\* A crash settles every request that is open, or some of them, without effect.
Lose ==
    /\ receipt' \in [Request -> {Pending, Refused} \cup {receipt[r] : r \in Request}]
    /\ \A r \in Request : receipt[r] # Pending => receipt'[r] = receipt[r]
    /\ \A r \in Request : receipt'[r] \in {receipt[r], Refused}
    /\ UNCHANGED ledger

\* An import adds posts, a moderator deletes some; neither settles a request, breaks a
\* thread or changes a post that stays.
Import == ledger \subseteq ledger' /\ Sound(ledger') /\ UNCHANGED receipt
Moderate == ledger' \subseteq ledger /\ Sound(ledger') /\ UNCHANGED receipt

Next ==
    \/ \E r \in Request : Publish(r) \/ Confirm(r) \/ Refuse(r) \/ Fail(r)
    \/ Lose \/ Import \/ Moderate

Spec == Init /\ [][Next]_vars

\* The ledger never holds an ungenuine post, two versions of one, or a reply to nothing.
AlwaysSound == Sound(ledger)
=============================================================================

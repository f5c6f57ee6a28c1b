------------------------------ MODULE MCServer ------------------------------
(* Small instances of Server: one thread of documents and what goes wrong with them. *)
EXTENDS Server, Clients, Reads, TLC

CONSTANTS ann, bob,            \* authors
          n1, n2, n3,          \* nonces
          home, elsewhere,     \* networks
          spam,                \* a word
          r1, r2, r3,          \* requests
          b1                   \* an import

Doc(author, nonce, network, body, claimed, parent, sig) ==
    [author |-> author, nonce |-> nonce, network |-> network, body |-> body,
     claimed |-> claimed, parent |-> parent, sig |-> sig]

MCHash == {<<"sha256", s>> : s \in Sig}
MCSigHash == [s \in Sig |-> <<"sha256", s>>]
MCID == {<<"uuid", s>> : s \in Sig}
MCUUID == [h \in MCHash |-> <<"uuid", h[2]>>]

Root == Doc(ann, n1, home, {spam}, 0, NoParent, "root")
Reply1 == Doc(bob, n2, home, {}, 1, <<"uuid", "root">>, "reply")
\* ann's client used the nonce of Root again
Reused == Doc(ann, n1, home, {}, 1, NoParent, "reused")
\* bob's client happened upon the same nonce
Namesake == Doc(bob, n1, home, {}, 1, NoParent, "namesake")
\* what a client of the repository sends: its signature is of the version 1 text
OldDraft == [author |-> ann, body |-> {}, at |-> 1, sig |-> "pipe"]
OldScheme == Composed("page", OldDraft, n3)
\* a client that leaves the nonce out
Nonceless == [Root EXCEPT !.nonce = Blank]
\* a client whose clock is ahead
Future == Doc(ann, n3, home, {}, 2, NoParent, "future")
Foreign == Doc(bob, n3, elsewhere, {}, 0, NoParent, "foreign")
\* Root as /v1/sync, /v1/query and a backup return it: two fields have no column
RootFromTable == ReadBack(NodeRow(Root, NodeID(Root), 0)).doc

Signed(docs) == [s \in {d.sig : d \in docs} |->
                    CanonicalMessage(CHOOSE d \in docs : d.sig = s)]
MCSignedFields == Signed({d \in {Root, Reply1, Reused, Namesake, Future, Foreign} : d.sig \in Sig})

Retries == {Root, Reused, Namesake}
Singles == {<<Root>>}
Thread == {Root, Reply1}
Oddities == {Root, Future, Foreign, OldScheme, Nonceless, RootFromTable}
\* what the checks tell apart: words, times, missing fields
Sorts == {Root, Future, Nonceless}
Batches == {<<Root, Reply1>>, <<Reply1, Root>>, <<Foreign, Root, RootFromTable>>, <<>>}

RequestSymmetry == Permutations(Request)
=============================================================================

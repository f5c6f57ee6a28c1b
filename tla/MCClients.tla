------------------------------ MODULE MCClients ------------------------------
(* A server that meets nobody but the clients of the repository. *)
EXTENDS MCServer

CONSTANT Using   \* the clients in use

Composable == {Composed(c, OldDraft, n) : c \in Using, n \in Nonce}

ClientInit ==
    /\ Init
    /\ \A r \in Request : \E c \in Using, n \in Nonce :
          post[r] = Composed(c, OldDraft, n) /\ from[r] = Header(c, OldDraft)

ClientSpec == ClientInit /\ [][Next]_vars

\* scripts/publish_client.go:40: "Canonical String Logic must match Server". So what the clients
\* sign is what the server verifies, and where nothing fails and nobody is banned, what they
\* send is published.
ClientsServed ==
    \A r \in Request : stage[r] = "done" => answer[r] \in Acknowledged
=============================================================================

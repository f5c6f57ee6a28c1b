------------------------------- MODULE Clients -------------------------------
(****************************************************************************)
(* What the clients of this repository send when a person publishes: the    *)
(* web page, its direct messages, the command line client with its SDK, and *)
(* the scripts.  All of them sign a "version:1|author:..|kind:..|..." text, *)
(* without the network and the nonce.  They read the clock twice, for the   *)
(* signature and for claimed_at; here both readings are of one second.      *)
(****************************************************************************)
EXTENDS Governance

CONSTANT Mainnet  \* "meueu-mainnet-v1", written into the clients

ASSUME MainnetAssumption == Mainnet \in Network

Client == {"page", "message", "cli", "script", "seeder"}

\* What a person publishes. sig is the signature of its version 1 text: whatever that is, it
\* is none of a version 2 message, which begins with a length.
Draft == [author: Key, body: SUBSET Word, at: Int, sig: Sig \ DOMAIN SignedFields]

\* A body with what is signed and nothing else.
Bare(x) == [author |-> x.author, nonce |-> Blank, network |-> Blank, body |-> x.body,
            claimed |-> x.at, parent |-> NoParent, sig |-> x.sig]

\* DMManager.sendDM, the publish script and the seeder send that.
DirectMessage(x) == Bare(x)
ScriptPost(x) == Bare(x)
SeedPost(x) == Bare(x)

\* signAndSend names the network and draws a nonce, beside what it signs.
PagePost(x, nonce) == [Bare(x) EXCEPT !.network = Mainnet, !.nonce = nonce]

\* Client.Publish of the SDK fills in what is missing, after it was signed.
FillIn(d, nonce) ==
    [d EXCEPT !.network = IF @ = Blank THEN Mainnet ELSE @,
              !.nonce = IF @ = Blank THEN nonce ELSE @]

\* The post and dm commands.
CliPost(x, nonce) == FillIn(Bare(x), nonce)

Composed(c, x, nonce) ==
    CASE c = "page" -> PagePost(x, nonce)
      [] c = "cli" -> CliPost(x, nonce)
      [] c = "message" -> DirectMessage(x)
      [] c = "script" -> ScriptPost(x)
      [] c = "seeder" -> SeedPost(x)

\* Only the page's SDK sends the header X-MeuEu-Author.
Header(c, x) == IF c = "page" THEN x.author ELSE NoKey
=============================================================================

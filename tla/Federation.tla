----------------------------- MODULE Federation -----------------------------
(****************************************************************************)
(* A server among others: its own clients and moderators, as in Server, and *)
(* the posts it pulls from its peers at the same time.                      *)
(****************************************************************************)
EXTENDS Server, ContentSync

fedVars == <<vars, syncVars>>
serverOnly == <<requestVars, moderationVars, importVars>>

FedInit == Init /\ SyncInit

\* Whatever the server does meanwhile; a crash takes the worker along.
Serve ==
    /\ Next
    /\ IF Crash THEN pull' = "idle" /\ items' = <<>> ELSE UNCHANGED <<pull, items>>
    /\ pullStanding' = pullStanding \cap banned_hashes'
    /\ UNCHANGED <<validCount, invalidCount, verdict, parcel, pullBlind>>

\* SYNC_EXTERNAL_POSTS=false keeps the worker from pulling.
Sync == SyncExternal /\ SyncStep /\ UNCHANGED serverOnly

FedNext == Serve \/ Sync
FedSpec == FedInit /\ [][FedNext]_fedVars

\* The worker visits its peers every two minutes, as long as the process lives.
FairFedSpec == FedSpec /\ WF_fedVars(Sync)

\* Every variable stays in its type.
FedTypeOK == TypeOK /\ SyncTypeOK

\* Whatever endpoint, batch or peer it came through, a stored node carries what its author
\* signed, for this network.
GenuineByAnyWay == \A n \in nodes : Attested(n)

\* A post whose hash has been banned since the pull began is not taken from a peer, unless
\* the look at the banned hashes failed.
SyncBarrier ==
    [][\A n \in nodes' \ nodes :
          pull = "store" /\ pull' = "check" =>
              SigHash[n.sig] \notin pullStanding \/ n.sig \in pullBlind]_fedVars

\* A peer is punished only for a signature that does not verify: not for what this server
\* has already, has banned, cannot attach to a parent or fails to store.
OnlyPunishedForForgery ==
    verdict = "punished" =>
        \E i \in DOMAIN parcel : Judge(parcel[i].doc) = "forged"

(****************************************************************************)
(* What the code says of itself and does not do                             *)
(****************************************************************************)

\* README.md:209: a server pulls the recent posts of its peers. So where a peer goes on
\* offering a genuine post, it comes to be stored.
SyncTransfers == <>(nodes # {})

(****************************************************************************)
(* Why: the inductive invariant                                             *)
(****************************************************************************)

\* What the worker holds comes from the parcel; its counts and its verdict are about the parcel;
\* and a document it is about to store has verified and, bar a failed look, was not banned.
PullInv ==
    /\ pullStanding \subseteq banned_hashes
    /\ \A i \in DOMAIN items : \E j \in DOMAIN parcel : items[i] = parcel[j]
    /\ invalidCount > 0 \/ verdict = "punished" =>
           \E j \in DOMAIN parcel : Judge(parcel[j].doc) = "forged"
    /\ pull = "store" =>
           /\ items # <<>>
           /\ Judge(items[1].doc) = "genuine"
           /\ SigHash[items[1].doc.sig] \notin pullStanding \/ items[1].doc.sig \in pullBlind
=============================================================================

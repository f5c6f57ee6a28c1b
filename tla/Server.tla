------------------------------- MODULE Server -------------------------------
(****************************************************************************)
(* One server: publish and import requests, the moderators, the nonce       *)
(* cleanup, the clock, and crashes, all over the same tables.               *)
(****************************************************************************)
EXTENDS Publish, Moderation, Import

vars == <<clock, faults, dbVars, requestVars, moderationVars, importVars>>

Init ==
    /\ DatabaseInit
    /\ PublishInit
    /\ ModerationInit
    /\ ImportInit

\* The tables survive; the goroutines of the handlers do not, and a purge that was
\* still to come never runs. Only SIGINT lets the server finish what it is doing.
Crash ==
    /\ Fault
    /\ stage' = [r \in Request |-> IF stage[r] = "idle" THEN "idle" ELSE "done"]
    /\ answer' = [r \in Request |-> IF stage[r] \in {"idle", "done"} THEN answer[r] ELSE "lost"]
    /\ bulkStage' = [b \in Bulk |-> IF bulkStage[b] = "idle" THEN "idle" ELSE "done"]
    /\ bulkAnswer' = [b \in Bulk |-> IF bulkStage[b] \in {"idle", "done"} THEN bulkAnswer[b] ELSE "lost"]
    /\ purging' = {}
    /\ UNCHANGED <<clock, dbVars, from, post, now, standing, blind, accepted, removed,
                   bulkFrom, batch, validNodes, position, bulkStanding>>

\* A moderator's step may lift bans: they have then not been in force throughout.
Moderate ==
    /\ ModerationStep
    /\ standing' = [r \in Request |-> standing[r] \cap Bans']
    /\ bulkStanding' = [b \in Bulk |-> bulkStanding[b] \cap Bans']
    /\ UNCHANGED <<stage, from, post, now, answer, blind, accepted,
                   bulkStage, bulkFrom, batch, validNodes, position, bulkAnswer>>

Next ==
    \/ \E r \in Request : PublishStep(r) /\ UNCHANGED <<moderationVars, importVars>>
    \/ \E b \in Bulk : ImportStep(b) /\ UNCHANGED <<moderationVars, requestVars>>
    \/ Moderate
    \/ CleanupExpired /\ UNCHANGED <<requestVars, moderationVars, importVars>>
    \/ Tick /\ UNCHANGED <<requestVars, moderationVars, importVars>>
    \/ Crash

\* A handler that was started runs on: every call it makes returns, with or without
\* an error. Clients, moderators and the clock owe nothing.
HandlersRun ==
    /\ \A r \in Request : WF_vars(/\ stage[r] # "idle" /\ PublishStep(r)
                                  /\ UNCHANGED <<moderationVars, importVars>>)
    /\ \A b \in Bulk : WF_vars(/\ bulkStage[b] # "idle" /\ ImportStep(b)
                               /\ UNCHANGED <<moderationVars, requestVars>>)

Spec == Init /\ [][Next]_vars
FairSpec == Spec /\ HandlersRun

(****************************************************************************)
(* What must hold                                                           *)
(****************************************************************************)

\* Every variable stays in its type.
TypeOK == DatabaseTypeOK /\ PublishTypeOK /\ ModerationTypeOK /\ ImportTypeOK

\* A row carries exactly what its author signed, and he signed it for this network.
Attested(n) ==
    /\ n.sig \in DOMAIN SignedFields
    /\ SignedFields[n.sig].author = n.author
    /\ SignedFields[n.sig].body = n.body
    /\ SignedFields[n.sig].claimed = n.claimed
    /\ SignedFields[n.sig].network = HomeNetwork

\* Every stored node is under the ID its signature determines, carries exactly what its
\* author signed, and was signed for this network: whichever endpoint it came through.
OnlyGenuine == \A n \in nodes : n.id = UUID[SigHash[n.sig]] /\ Attested(n)

\* A nonce is accepted again only when its first use has expired: of two acceptances of one
\* author's nonce, the later happened more than TTL after the stamp of the earlier. Concurrent
\* submissions, the cleanup job, failing calls and crashes do not get two past MarkUsed.
NonceSpacing ==
    \A a, b \in accepted :
        /\ a # b
        /\ post[a.by].author = post[b.by].author
        /\ post[a.by].nonce = post[b.by].nonce
        => a.when > b.stamp + TTL \/ b.when > a.stamp + TTL

\* The checks that fail closed: no request is acknowledged if its sender has been banned, or
\* under WHITELIST its author not listed, ever since it arrived, whatever call fails.
ClosedBarrier ==
    /\ \A r \in Request : answer[r] \in Acknowledged =>
        /\ <<"user", from[r]>> \notin standing[r]
        /\ WhitelistMode => <<"stranger", post[r].author>> \notin standing[r]
    /\ \A b \in Bulk : bulkAnswer[b] = "imported" => <<"user", bulkFrom[b]>> \notin bulkStanding[b]

\* The checks that fail open: content banned by a word ever since the request arrived is
\* acknowledged only if the word check failed; content banned by hash, only if both the
\* middleware's and the handler's own look at the banned hashes failed.
OpenBarrier ==
    \A r \in Request : answer[r] \in Acknowledged =>
        /\ "words" \notin blind[r] => \A w \in post[r].body : <<"word", w>> \notin standing[r]
        /\ ~({"hash", "content_ban"} \subseteq blind[r]) =>
               <<"hash", SigHash[post[r].sig]>> \notin standing[r]

\* What was acknowledged is stored until a moderator deletes it.
AckDurable ==
    \A r \in Request :
        answer[r] \in Acknowledged => NodeID(post[r]) \in IDs \cup removed

\* Nobody is refused for what others do: a replay is answered only if the author's own nonce was
\* accepted from another request, or a call has failed; an error, only if a call has failed or
\* the post is a reply. Two authors who draw one nonce, two handlers that insert one document,
\* and a nonce that is cleaned up meanwhile cost no one an answer.
RefusedForCause ==
    \A r \in Request :
        /\ answer[r] = "replay" =>
               \/ faults > 0
               \/ \E a \in accepted : /\ a.by # r
                                      /\ post[a.by].author = post[r].author
                                      /\ post[a.by].nonce = post[r].nonce
        /\ answer[r] = "error" => faults > 0 \/ post[r].parent # NoParent

\* A server that takes no imports stores nothing from the future: whatever the delays
\* between the handler's reading of the clock and the INSERT.
NothingFromFuture == \A n \in nodes : n.claimed <= n.verified + Skew

\* An import that reaches the database is stored completely or not at all.
BatchAllOrNothing ==
    [][\A b \in Bulk :
          bulkStage[b] = "commit" /\ bulkStage'[b] = "done" =>
              \/ nodes' = nodes
              \/ {NodeID(validNodes[b][i]) : i \in DOMAIN validNodes[b]} \subseteq {n.id : n \in nodes'}]_vars

\* Every request that reaches the server is answered, or lost in a crash: no combination of
\* bans, replays, missing parents and failing calls leaves a handler without a way on.
EveryRequestAnswered ==
    /\ \A r \in Request : stage[r] # "idle" ~> stage[r] = "done"
    /\ \A b \in Bulk : bulkStage[b] # "idle" ~> bulkStage[b] = "done"

\* The server implements the ledger: seen from the clients, a request takes effect in one
\* instant, exactly when its answer is decided, whatever else is going on.
GenuineIDs == {UUID[SigHash[s]] : s \in {t \in DOMAIN SignedFields :
                                           SignedFields[t].network = HomeNetwork}}
Posts == {[id |-> n.id, parent |-> n.parent] : n \in nodes}
Receipts ==
    [r \in Request |->
        [status |-> IF answer[r] = "none" THEN "pending"
                    ELSE IF answer[r] \in Acknowledged THEN answer[r] ELSE "refused",
         id |-> IF answer[r] \in Acknowledged THEN NodeID(post[r]) ELSE NoParent]]
Promise == INSTANCE Ledger WITH GenuineID <- GenuineIDs, ledger <- Posts, receipt <- Receipts
ImplementsLedger == Promise!Spec

(****************************************************************************)
(* Why: the inductive invariants                                            *)
(****************************************************************************)

\* Only a document with all its fields reaches the nonce table.
FieldsChecked == \A r \in Request : stage[r] = "nonce" => FieldsPresent(post[r])
TypeInv == TypeOK /\ FieldsChecked

\* The handlers' stages behind each check, and the requests that have got there.
BehindBanlist == Stages \ {"idle", "banlist", "done"}
BehindWhitelist == BehindBanlist \ {"words", "hash", "whitelist"}
BehindNonce == {"signature", "content_ban", "lookup", "create"}
Past(r, stages) == stage[r] \in stages \/ answer[r] \in Acknowledged
BulkBehindBanlist == BulkStages \ {"idle", "banlist", "done"}
BulkPastBanlist(b) == bulkStage[b] \in BulkBehindBanlist \/ bulkAnswer[b] = "imported"

\* Bans that were in force throughout are in force now; so a request that has passed a check
\* that fails closed is not concerned by one, and stays so: such bans only become fewer.
RequestBarrier(r) ==
    /\ stage[r] # "done" => answer[r] = "none"
    /\ Past(r, BehindBanlist) => <<"user", from[r]>> \notin standing[r]
    /\ WhitelistMode /\ Past(r, BehindWhitelist) =>
           <<"stranger", post[r].author>> \notin standing[r]
BulkBarrier(b) ==
    /\ bulkStage[b] # "done" => bulkAnswer[b] = "none"
    /\ BulkPastBanlist(b) => <<"user", bulkFrom[b]>> \notin bulkStanding[b]
BarrierInv ==
    /\ standing \in [Request -> SUBSET Bans] /\ bulkStanding \in [Bulk -> SUBSET Bans]
    /\ \A r \in Request : RequestBarrier(r)
    /\ \A b \in Bulk : BulkBarrier(b)

\* The nonce of an acceptance is either still remembered or expired; and a request whose
\* nonce was accepted has left the nonce check behind.
Remembered(a) ==
    \E u \in used_nonces : /\ u.nonce = post[a.by].nonce
                           /\ u.author = post[a.by].author
                           /\ u.created = a.stamp
NonceInv ==
    \A a \in accepted :
        /\ a.stamp <= a.when /\ a.when <= clock
        /\ stage[a.by] \in BehindNonce \cup {"done"}
        /\ Remembered(a) \/ clock > a.stamp + TTL
        /\ \A b \in accepted : a.by = b.by => a = b
\* Behind the check of its network a document is for this network; behind that of its signature
\* it is what its author signed. The document does not change meanwhile: the handler has it.
BehindSignature == {"content_ban", "lookup", "create"}
CheckedInv ==
    /\ \A r \in Request :
        /\ stage[r] \in {"nonce"} \cup BehindNonce => post[r].network = HomeNetwork
        /\ stage[r] \in BehindSignature => VerifySignature(post[r])
    /\ \A b \in Bulk : \A i \in DOMAIN validNodes[b] : Genuine(validNodes[b][i])

\* nodes is a table: one row to an ID, and no reply without what it replies to.
Keyed == \A m, n \in nodes : m.id = n.id => m = n
Threaded == \A n \in nodes : n.parent \in IDs \cup {NoParent}
TableInv == Keyed /\ Threaded

\* Of the two looks at the banned hashes and the one at the banned words, each that did not
\* fail has kept out what was banned all the while.
BehindWords == BehindBanlist \ {"words"}
BehindHash == BehindWords \ {"hash"}
BehindContentBan == {"lookup", "create"}
OpenInv ==
    \A r \in Request :
        /\ Past(r, BehindWords) /\ "words" \notin blind[r] =>
               \A w \in post[r].body : <<"word", w>> \notin standing[r]
        /\ \/ Past(r, BehindHash) /\ "hash" \notin blind[r]
           \/ Past(r, BehindContentBan) /\ "content_ban" \notin blind[r]
           => <<"hash", SigHash[post[r].sig]>> \notin standing[r]

\* The handler's reading of the clock is not ahead of it, and the post was not ahead of that.
TimelyInv ==
    /\ \A r \in Request :
        /\ now[r] <= clock
        /\ stage[r] \in {"nonce"} \cup BehindNonce => ~FromFuture(post[r], now[r])
    /\ NothingFromFuture

\* Every remembered nonce is one that a request had accepted, unless a call has failed.
Accounted ==
    \A u \in used_nonces :
        \/ faults > 0
        \/ \E a \in accepted : post[a.by].author = u.author /\ post[a.by].nonce = u.nonce
CauseInv == Accounted /\ RefusedForCause
=============================================================================

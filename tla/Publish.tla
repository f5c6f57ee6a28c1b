------------------------------- MODULE Publish -------------------------------
(****************************************************************************)
(* POST /v1/publish: the governance middleware and PublishHandler.Handle,   *)
(* one action per database call, for any number of requests in flight.      *)
(* The rate limiter in front of the chain is the module RateLimiter: a      *)
(* request it turns away never arrives here.                                *)
(****************************************************************************)
EXTENDS Governance

CONSTANTS
    Request,        \* publish requests; each arrives at most once
    Post,           \* the documents the clients submit
    SyncExternal,   \* SYNC_EXTERNAL_POSTS # "false"
    Skew            \* five minutes

ASSUME PublishAssumption ==
    /\ Post \subseteq Document
    /\ SyncExternal \in BOOLEAN
    /\ Skew \in Nat

VARIABLES
    stage,     \* the next call of each request's handler
    from,      \* the X-MeuEu-Author header each request carries
    post,      \* and its body (both settled initially, met when it arrives)
    now,       \* the handler's reading of the clock
    answer,    \* what the client is told
    \* History variables: they appear in no guard.
    standing,  \* the bans concerning a request that have been in force since it arrived
    blind,     \* the content checks of a request that failed open
    accepted   \* what MarkUsed accepted: by which request, with which stamp, when

requestVars == <<stage, from, post, now, answer, standing, blind, accepted>>

Stages == {"idle", "banlist", "words", "hash", "whitelist", "validate", "nonce",
           "signature", "content_ban", "lookup", "create", "done"}
Acknowledged == {"published", "already_exists"}
Answers == Acknowledged \cup {"none", "refused", "replay", "error", "lost"}

PublishTypeOK ==
    /\ stage \in [Request -> Stages]
    /\ from \in [Request -> Key \cup {NoKey}]
    /\ post \in [Request -> Post]
    /\ now \in [Request -> 0..MaxClock]
    /\ answer \in [Request -> Answers]
    /\ blind \in [Request -> SUBSET {"words", "hash", "content_ban"}]
    /\ accepted \subseteq [by: Request, stamp: 0..MaxClock, when: 0..MaxClock]

PublishInit ==
    /\ stage = [r \in Request |-> "idle"]
    /\ from \in [Request -> Key \cup {NoKey}]
    /\ post \in [Request -> Post]
    /\ \A r \in Request : from[r] \in {post[r].author, NoKey}
    /\ now = [r \in Request |-> 0]
    /\ answer = [r \in Request |-> "none"]
    /\ standing = [r \in Request |-> {}]
    /\ blind = [r \in Request |-> {}]
    /\ accepted = {}

Goto(r, s) == stage' = [stage EXCEPT ![r] = s] /\ UNCHANGED answer
Reply(r, a) == stage' = [stage EXCEPT ![r] = "done"] /\ answer' = [answer EXCEPT ![r] = a]


\* The request is received: the bans in force now have been in force since it arrived.
Arrive(r) ==
    /\ stage[r] = "idle"
    /\ Goto(r, "banlist")
    /\ standing' = [standing EXCEPT ![r] = Bans \cap Concerning(from[r], post[r])]
    /\ UNCHANGED <<from, post, now, blind, accepted, clock, faults, dbVars>>

\* Mutant: the ban check fails open.
BanlistFailsOpen(r) ==
    /\ stage[r] = "banlist"
    /\ \/ from[r] = NoKey /\ Reply(r, "refused") /\ UNCHANGED faults
       \/ from[r] \in banned_users /\ Reply(r, "refused") /\ UNCHANGED faults
       \/ from[r] \in Key \ banned_users /\ Goto(r, "words") /\ UNCHANGED faults
       \/ from[r] # NoKey /\ Fault /\ Goto(r, "words")
    /\ UNCHANGED <<from, post, now, standing, blind, accepted, clock, dbVars>>

\* BanlistMiddleware: fails closed.
Banlist(r) ==
    /\ stage[r] = "banlist"
    /\ \/ from[r] = NoKey /\ Reply(r, "refused") /\ UNCHANGED faults
       \/ from[r] \in banned_users /\ Reply(r, "refused") /\ UNCHANGED faults
       \/ from[r] \in Key \ banned_users /\ Goto(r, "words") /\ UNCHANGED faults
       \/ from[r] # NoKey /\ Fault /\ Reply(r, "error")
    /\ UNCHANGED <<from, post, now, standing, blind, accepted, clock, dbVars>>

\* A content check that reads one ban table and fails open: the request goes on to `next`
\* when the read says it is clean, and also when the read fails.
FailOpenCheck(r, check, hit, next) ==
    /\ stage[r] = check
    /\ \/ hit /\ Reply(r, "refused") /\ UNCHANGED <<faults, blind>>
       \/ ~hit /\ Goto(r, next) /\ UNCHANGED <<faults, blind>>
       \/ Fault /\ Goto(r, next) /\ blind' = [blind EXCEPT ![r] = @ \cup {check}]
    /\ UNCHANGED <<from, post, now, standing, accepted, clock, dbVars>>

\* ContentFilterMiddleware: the banned words, then the hash of the signature.
FilterWords(r) == FailOpenCheck(r, "words", ContainsBannedWords(post[r]), "hash")
FilterHash(r) == FailOpenCheck(r, "hash", IsBannedHash(post[r]), "whitelist")

\* WhitelistMiddleware: fails closed, and is a no-op in the other server modes.
Whitelist(r) ==
    /\ stage[r] = "whitelist"
    /\ \/ ~WhitelistMode /\ Goto(r, "validate") /\ UNCHANGED faults
       \/ WhitelistMode /\ IsWhitelisted(post[r]) /\ Goto(r, "validate") /\ UNCHANGED faults
       \/ WhitelistMode /\ ~IsWhitelisted(post[r]) /\ Reply(r, "refused") /\ UNCHANGED faults
       \/ WhitelistMode /\ Fault /\ Reply(r, "error")
    /\ UNCHANGED <<from, post, now, standing, blind, accepted, clock, dbVars>>

\* Required fields, the network, and the two rules about the claimed time.
\* Mutant: only the network_id is required.
NetworkPresent(d) == d.network # Blank
\* Mutant: the difference is taken the wrong way round.
FromPast(d, t) == t > d.claimed + Skew
FieldsPresent(d) == d.network # Blank /\ d.nonce # Blank
FromFuture(d, t) == d.claimed > t + Skew
Historic(d, t) == d.claimed + Skew < t
Admissible(d, t) ==
    /\ FieldsPresent(d)
    /\ d.network = HomeNetwork
    /\ ~FromFuture(d, t)
    /\ Historic(d, t) => SyncExternal

\* PublishHandler.Handle up to the nonce check; `now` is kept for the answer's verified_at.
Validate(r) ==
    /\ stage[r] = "validate"
    /\ now' = [now EXCEPT ![r] = clock]
    /\ IF Admissible(post[r], clock) THEN Goto(r, "nonce") ELSE Reply(r, "refused")
    /\ UNCHANGED <<from, post, standing, blind, accepted, clock, faults, dbVars>>

\* isReplayDetected: MarkUsed stamps the nonce with a clock read before the INSERT runs.
\* A failed call counts as a replay; its INSERT may have been committed all the same.
MarkNonce(r) ==
    /\ stage[r] = "nonce"
    /\ LET d == post[r] IN
       \/ \E t \in now[r]..clock :
             /\ MarkUsed(d.nonce, d.author, t)
             /\ accepted' = accepted \cup {[by |-> r, stamp |-> t, when |-> clock]}
             /\ Goto(r, "signature")
             /\ UNCHANGED faults
       \/ /\ ~NonceFree(d.nonce, d.author)
          /\ Reply(r, "replay")
          /\ UNCHANGED <<used_nonces, accepted, faults>>
       \/ /\ Fault
          /\ Reply(r, "replay")
          /\ \/ UNCHANGED used_nonces
             \/ \E t \in now[r]..clock : MarkUsed(d.nonce, d.author, t)
          /\ UNCHANGED accepted
    /\ UNCHANGED <<from, post, now, standing, blind, clock, nodes,
                   banned_users, banned_words, banned_hashes, whitelist>>

\* Only now is the signature looked at: the nonce is spent whatever it says.
CheckSignature(r) ==
    /\ stage[r] = "signature"
    /\ IF VerifySignature(post[r]) THEN Goto(r, "content_ban") ELSE Reply(r, "refused")
    /\ UNCHANGED <<from, post, now, standing, blind, accepted, clock, faults, dbVars>>

\* Mutant: the handler leaves the banned hashes to the middleware.
SkipContentBan(r) ==
    /\ stage[r] = "content_ban"
    /\ Goto(r, "lookup")
    /\ UNCHANGED <<from, post, now, standing, blind, accepted, clock, faults, dbVars>>

\* The handler's own look at the banned hashes.
CheckContentBan(r) ==
    FailOpenCheck(r, "content_ban", IsBannedHash(post[r]), "lookup")

\* Mutant: a failed lookup is taken for "there".
LookupAssumed(r) ==
    /\ stage[r] = "lookup"
    /\ \/ NodeID(post[r]) \in IDs /\ Reply(r, "already_exists") /\ UNCHANGED faults
       \/ NodeID(post[r]) \notin IDs /\ Goto(r, "create") /\ UNCHANGED faults
       \/ Fault /\ Reply(r, "already_exists")
    /\ UNCHANGED <<from, post, now, standing, blind, accepted, clock, dbVars>>

\* The idempotency check: a failed lookup is taken for "not there".
Lookup(r) ==
    /\ stage[r] = "lookup"
    /\ \/ NodeID(post[r]) \in IDs /\ Reply(r, "already_exists") /\ UNCHANGED faults
       \/ NodeID(post[r]) \notin IDs /\ Goto(r, "create") /\ UNCHANGED faults
       \/ Fault /\ Goto(r, "create")
    /\ UNCHANGED <<from, post, now, standing, blind, accepted, clock, dbVars>>

\* Mutant: the error of the INSERT is dropped.
CreateUnchecked(r) ==
    /\ stage[r] = "create"
    /\ Reply(r, "published")
    /\ \/ InsertNode(post[r], NodeID(post[r])) /\ UNCHANGED faults
       \/ NodeID(post[r]) \in IDs /\ UNCHANGED <<nodes, faults>>
       \/ Fault /\ UNCHANGED nodes
    /\ UNCHANGED <<from, post, now, standing, blind, accepted, clock, used_nonces,
                   banned_users, banned_words, banned_hashes, whitelist>>

\* NodeRepository.Create. A lost connection may hide an INSERT that was committed.
Create(r) ==
    /\ stage[r] = "create"
    /\ LET d == post[r] IN
       \/ InsertNode(d, NodeID(d)) /\ Reply(r, "published") /\ UNCHANGED faults
       \/ NodeID(d) \in IDs /\ Reply(r, "already_exists") /\ UNCHANGED <<nodes, faults>>
       \/ /\ NodeID(d) \notin IDs /\ ~ParentStored(d, NodeID(d))
          /\ Reply(r, "error") /\ UNCHANGED <<nodes, faults>>
       \/ /\ Fault /\ Reply(r, "error")
          /\ UNCHANGED nodes \/ InsertNode(d, NodeID(d))
    /\ UNCHANGED <<from, post, now, standing, blind, accepted, clock, used_nonces,
                   banned_users, banned_words, banned_hashes, whitelist>>

PublishStep(r) ==
    \/ Arrive(r) \/ Banlist(r) \/ FilterWords(r) \/ FilterHash(r) \/ Whitelist(r)
    \/ Validate(r) \/ MarkNonce(r) \/ CheckSignature(r) \/ CheckContentBan(r)
    \/ Lookup(r) \/ Create(r)
=============================================================================

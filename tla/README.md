# A verification of crom-meueu

crom-meueu ("Meueu", the Crom Social Protocol) is a federation of small servers in
Go over PostgreSQL. Clients sign documents ("nodes": posts, replies, profiles)
and publish them to a server; the server checks and stores them; moderators ban
users, words and contents; servers gossip about each other and pull each other's
posts. This directory holds TLA+ models of that program, TLC configurations that
check them on small instances, and proofs that TLAPS checks for every instance.

Paths below are relative to the repository root (`src/`).

## 1. Inventory

| part | code | state | operations | what is hard |
|---|---|---|---|---|
| documents | `internal/core/domain/node.go`, `internal/core/security/signature.go` | none | canonical message, verify, content-addressed ID | two digests of one signature, fields that are signed and fields that are not |
| tables | `internal/storage/postgres/*_repository.go`, `db/migrations` | `nodes`, `used_nonces`, `banned_users`, `banned_words`, `banned_hashes`, `whitelist`, `peers` | one SQL statement each; `CreateBatch` is a transaction; `AddBannedHash` is two statements | keys and foreign keys; an error that hides a committed statement |
| governance | `internal/api/middleware/{banlist,content_filter,whitelist,chain}.go` | none (reads the tables) | three checks in front of every write | checks that fail open, checks that fail closed, bans that change meanwhile |
| publish | `internal/api/handlers/publish.go` | local variables of a handler | eleven steps from the request to the answer | test-and-set of the nonce before anything else is known; retries; duplicates; crashes |
| import | `internal/api/handlers/sync.go` | local variables of a handler | filter a batch, insert it in one transaction | a second way into `nodes`; order within a batch |
| moderation | `internal/api/handlers/admin.go`, `admin_repository.go` | the ban tables, `nodes` | eleven admin calls | a ban and its purge are two statements; replies keep their parents alive |
| rate limiter | `internal/api/middleware/rate_limiter.go` | two concurrent maps of token buckets | `allow`, the sweeper | clock read, map and lock are three steps; the sweeper deletes buckets in use |
| nonce cleanup | `cmd/api/main.go`, `nonce_repository.go` | | every hour | the clock is read before the DELETE |
| process lifecycle | `cmd/api/main.go` | | start, seeds, listen, SIGINT | only SIGINT is graceful; a database that is late is never looked for again |
| peer discovery, content sync | `internal/core/services/peer_discovery.go`, `peer_repository.go`, `handlers/peer.go` | `peers`, `syncTracker` | gossip rounds, reputation, pulling posts, the quarantine of a peer | stale snapshots, punishment, several servers; rounds longer than the ticker's period; a window of one hour |
| queries, sync | `handlers/{query,sync}.go`, `NodeRepository.Query`, `ListRecent` | none | filters, limit, offset, a window of time | pages cut by offset from a table that changes, in an order that is no key; a page that breaks off; what a row has lost when it is read back |
| server identity | `internal/core/identity/identity.go` | a key file | load or create | a crash while the file is written; two processes that both find none |
| clients | `pkg/sdk`, `frontend`, `cmd/crom-cli`, `scripts` | browser storage | sign, publish, back up, restore | half a dozen places that must sign what the server verifies; a restore in chunks of which some fail |
| admin panel | `admin/index.php` | a PHP session | calls the admin API | |

Handlers, the sweeper, the cleanup and the gossip worker are goroutines; they
share the database and the limiter's maps and nothing else. There are no
transactions around a handler: each statement commits on its own, and whatever
another handler does falls between two of them. That is where the properties aim.

What makes each part correct:

* documents, tables, publish, import: what is stored was signed by its author for
  this network and is under the ID its signature determines; a nonce is not
  accepted twice within its TTL; what was acknowledged is stored; a request that
  was refused has no effect; a batch goes in completely or not at all.
* governance and moderation: a ban that stands holds, except where the code says
  it fails open; banned content goes.
* rate limiter: no key gets more than its rate in a window.
* peer discovery: who has lost reputation has failed this server, never gets it
  back, and is left alone when nothing is left of it; a dead peer is forgotten.
* content sync: what comes from a peer is as genuine as what comes from a client,
  bans hold for it, and no peer pays for what is the server's own affair.
* queries: who reads to the end sees everything that was there all the time, once,
  but for what offset and order cannot give.
* rounds: a peer's post is offered to the puller before it leaves the window; the
  quarantine spares peers that are pulled in the course of rounds.
* lifecycle: a started handler comes to an end; a crash loses nothing that was
  acknowledged; a server shows one key, for ever, and serves again.
* restore: the page counts no node that is not there.

## 2. Modules

```
Documents        signed documents, ideal cryptography
   |
Database         the tables and their statements, clock, faults, nonce cleanup
   |      \
Governance Moderation       the middleware's predicates   |   the admin calls
   |      \      \
Publish  Import   \         POST /v1/publish   |   POST /v1/import
    \       |      /
     Server                 everything together, crashes; properties, invariants
     /     \        \
MCServer  ServerProofs      TLC instances   |   proofs
     \               \
      \  ContentSync  Federation     posts pulled from peers   |   next to Server
       \                /        \
        MCFederation           FederationProofs      over ServerProofs

Restore, MCRestore          a backup that is restored, over Server
   RestoreProofs            over ServerProofs
Clients, MCClients          what the clients send   |   to a Server
Listing -> Reads            the two queries that list nodes  |  what a Server answers
   |         \
   |        Paging, MCPaging, PagingProofs    a reader who pages, over Database, Moderation
 Rounds, MCRounds, RoundsProofs   when a server pulls a peer's posts, and what it is offered
Ledger                      the abstract specification Server implements
RateLimiter, MCRateLimiter, RateLimiterProofs    the token buckets
Peers -> Gossip             the peer tables  |  the gossip workers of several servers
          MCGossip, GossipProofs
Lifecycle -> LifecycleProofs    processes and their key file
```

Each module that is proved about ends in a section "Why" with the inductive invariant,
named part by named part; its proofs module has one lemma per action and part. TLC has
checked each part on the module's run before it was proved.

The state machines are Server, alone or with what surrounds it (Federation adds
peers, Restore a page with a backup), Paging (its tables and a reader), Gossip
(several servers' peer tables), Rounds (one worker's timing), RateLimiter (one
process's buckets) and Lifecycle (the processes themselves). Those that share no
variable share none in the code: the limiter's maps are touched only by the limiter,
`peers` only by the gossip worker and the handler that lists it, the key file only by
`main`. A pull of posts appears three times, each time with what the others leave
out: in Gossip as one step with its verdict on the peer, in ContentSync item by item,
in Rounds with its moment and its window. Likewise a crash: Lifecycle says what it
does to a process, Server what it does to the handlers.

**Documents.** A document has an author, nonce, network, claimed time, body,
parent and signature. `body` is the set of bannable words that occur in it (kind,
payload and tags); nothing else about the content matters to any check. A
signature is an opaque value; `SignedFields` says what it is a valid v2 signature
of, which is what ideal ed25519 over an injective TLV encoding gives
(`VerifySignature`). `parent` and the tags are not signed. `SigHash` and `UUID`
stand for the two digests and are assumed injective.

**Database.** One variable per table. A statement is one atomic step, with the
primary key and the foreign key checked as PostgreSQL does (`InsertNode`,
`Deletable`). `network_id` and `nonce` have no column in `nodes`, so a `Row` does
not have them: a document read back from a server (`ReadBack` in Reads) does not
verify again. `Fault` is any call that returns an error; where a
statement may have been committed all the same, the action says so.

**Publish.** `stage[r]` is the next call of the handler of request `r`: `Arrive`,
`Banlist`, `FilterWords`, `FilterHash`, `Whitelist`, `Validate`, `MarkNonce`,
`CheckSignature`, `CheckContentBan`, `Lookup`, `Create`, one action for each call
that reads the clock or the database, in the order of
`Container.StandardSecurity` and `PublishHandler.Handle`. Three more variables
are history and occur in no guard: the bans that have stood since the request
arrived (`standing`), the checks that failed open (`blind`), and what `MarkUsed`
accepted (`accepted`). The X-MeuEu-Author header is that of the author or is
missing; a malformed one is answered like a missing one.

**Clients** is what the repository's own clients put into a publish request: the page,
the direct messages, the command line client over the Go SDK, the publish script and the seeder. They
differ in what they add to the signed draft (network, nonce, header) and sign the
same text, of version 1; `DirectMessage`, `ScriptPost` and `SeedPost` add nothing. Every instance takes its `OldScheme` document from here.

**Import.** The same middleware, then one step per document of the batch, then
the transaction. The word filter sees the array, the hash filter does not look
into one, and the whitelist middleware cannot decode one, so that in WHITELIST
mode every import is refused.

**Moderation.** The admin calls. `RecordBan` and `Purge` are the two statements of
`AddBannedHash`; the second one's error is dropped.

**Server** composes them: any number of publish and import requests, moderators,
the cleanup, the clock, and `Crash`, which forgets every handler and keeps the
tables.

**Ledger** is what a client may think a server does: every request has one atomic
effect, settled with its answer; the ledger holds genuine posts only, one per ID,
each under a parent that is there. After an internal error or a crash the client
does not know. `Server!ImplementsLedger` is the refinement.

**RateLimiter.** `allow` is `ReadClock`, `LoadOrStore`, `Take` (the critical
section); the sweeper is `StartSweep` and one `Sweep` per key, in any order.
Buckets are heap objects named for the call that made them, so that a request can
hold one that is no longer in the map. `IPOf` and `KeyOf` are what `extractIP` and
the body yield.

**Peers** is the table `peers` of each server and the statements of
`PeerRepository`. A server is named by its URL. `Upsert` is the INSERT with its ON
CONFLICT clause: a known key moves to the new URL and keeps its reputation; a URL
another key holds makes the statement fail, which the worker ignores. `age` stands
for `now() - last_seen`, in units of which `Day` are the 24 hours of `ListActive`.
`ListActive` is the set of the lists the query may return, since rows seen at the
same time come in any order.

**Gossip.** `phase[s]` says where the worker of server `s` is in `Start`, `gossip`
and `syncContent`; `todo[s]` is what is left of the slice it ranges over, read once
and stale from then on; `answer[s]` is the response it is working through. `Ask`,
`TurnDown`, `Absorb` (one entry of the list at a time) and `Reward` are
`fetchPeersFrom`, cut at its calls; `PullPosts` is `fetchContentFrom`, reduced to
its verdict. `Execute` is a statement that succeeds or whose error is dropped.

What a host answers depends on what it is. A *server* runs this code: it listens
only when its seeds have been pinged (`main.go` starts the worker first), and signs
its list over the JSON of `[]Peer`. The receiver decodes that into maps and encodes
the maps, which sorts the fields; so two encodings are told apart, "declared" and
"sorted", and only an empty list is the same in both (`Verifies`). A *foreign* host
is another implementation: it may send any list of `Listed`, signed over the sorted
encoding, and misbehave in any way of `Manners`: no connection, a status other than
200, no JSON, a timestamp too old, no key, a wrong signature. `failed` is history:
whom a server has turned down.

Time: rounds are started by a ticker every two minutes, and peers go out of date
after 24 hours. `Age` lets a stretch of that long pass, and `due` sees to it that
every server that runs begins a round in each stretch (it would begin many).

**ContentSync** is `fetchContentFrom` as the database sees it: `Pull`, then for each
item `CheckItem` (network, signature, ban) and `StoreItem` (the INSERT), then
`EndPull`, the verdict. An item is a document with the ID the peer gives it: the
code computes the ID that belongs to the signature and then does not use it.
`parcel`, `pullStanding` and `pullBlind` are history.

**Listing** has the two queries that list nodes, on any rows with a `claimed` time:
`ListRecent` (the oldest of a window) and `Query` (the newest first, from an offset).
`claimed_at` is no key, so each is the set of the sequences a sort may leave, chosen
anew whenever the query runs. **Reads** is what a server answers by them from its
table: `ReadBack`, a row without the two fields that have no column, `SyncAnswers`,
and `QueryAnswers` with the filters and the limit, which is replaced by the default
of 20 where it is above 100. The instances take from it what a backup or a peer of
this kind offers (`RootFromTable`, `FromTable`).

**Paging** lets a reader go through the answers to one query while posts are stored
and deleted. `ReadPage` is one request; the loop over the rows ends without a word
when the connection is lost, so a page may be cut anywhere. The reader is no client of
the repository (they show one page) but the most careful there can be: the next offset
is the number of rows received, and only an empty page is the end. What is stored has
been signed (`PagingAssumption`; `GenuineByAnyWay` of Federation is the reason), so that an
ID has one claimed time even when its node is deleted and stored again. `lasting`, `arrived`,
`gone` and `broken` are history.

**Rounds** is the timing that Gossip leaves out. The ticker's channel holds one tick
(`ticked`); a round takes any time up to `MaxRound`, so that the next may begin at once
or ticks be dropped. `AllowSync` is the quarantine counter, whose minute begins with
the first fetch; `Answer` asks for the window that `StartSync` fixed. `Store` is a post
that appears at the peer with a claimed time now or some time ago, which is what
imports and slow clocks bring. `Excused` are the posts that may be missed: stored less than
a gap before they leave the window, or with a full page of others just before them.
`offered` and `skipped` are history.

**Lifecycle** is `main` as far as the key and the port: `Start`, `Stat`, `Create` and
`Write` or `Load`, `Seed`, `Listen`. os.WriteFile is two steps, since a crash in
between leaves a file of the wrong size (`Torn`). Normally there is one process; the
module has any number, since an operator may start another over the same file, for
instance by hand next to the container. `served` and `makers` are history.

**Restore** is the page that restores a backup: `RestoreInit` cuts the file into chunks,
`Serve` is Server with the rule that a chunk is sent when its turn has come, and
`NextChunk` goes on, whatever the answer was.

**Federation** runs ContentSync next to the handlers, moderators, crashes and faults
of Server, on the same tables. An action of one falls between any two of the other.

## 3. What the runs check

Each run asks its questions of one state machine. Passing runs:

| run | instance | checks |
|---|---|---|
| replay | 2 requests over 3 documents of 2 authors with one nonce, TTL 1, clock 0..3, 1 fault or crash, deletions | `NonceSpacing`, `RefusedForCause`, `AckDurable` |
| bans | 1 request of 3 sorts, WHITELIST mode, all bans and their lifting, clock 0..2, skew 1, SYNC_EXTERNAL_POSTS=false, 2 faults | `TypeOK`, `ClosedBarrier`, `OpenBarrier`, `NothingFromFuture` |
| promised | a backup of one of 3 kinds restored in 2 chunks, 1 request of 3 documents, user bans and deletions, 1 fault or crash, fairness | `ImplementsLedger`, `EveryRequestAnswered`, `BatchAllOrNothing`, `RestoreCountsTrue`, `OnlyGenuine`, `ClosedBarrier` |
| paging | 4 posts, 2 of one time, 1 of another author, stored and deleted in any order and again, pages of 2, 1 connection lost in a page | `NothingOverlooked`, `NothingRepeated`, `TypeOK` |
| rounds | period 2, rounds up to 3, quarantine after 3 fetches, window 12, pages of 1 post, 2 posts that are on time or 1 late, clock 0..16, 1 failing request or restart | `EveryPostOffered`, `NeverQuarantined`, `TypeOK` |
| lifecycle | 2 processes, 2 keys, 2 crashes, failing calls or interrupts, fairness | `OneIdentity`, `ServesInTheEnd`, `TypeOK` |
| limits | 3 requests of one address and one key, clock 0..3 | `LimitedUnlessOrphaned`, `BucketBudget`, `PassedPaidBoth`, `TypeOK` |
| trust | 1 server, 1 seed that may forge its list or send bad posts and goes on listing another host, which may be switched off, 1 fault or crash, fairness | `TypeOK`, `BlameIsEarned`, `ReputationNeverRises`, `DisconnectedNotAsked`, `DeadForgotten` |
| syncing | 3 parcels (out of order, altered, foreign, renamed), 1 request, hash bans, 1 fault or crash | `FedTypeOK`, `GenuineByAnyWay`, `OnlyPunishedForForgery`, `SyncBarrier` |

Runs that end in a counterexample, where the code does not do what it says of
itself:

| run | property | what happens |
|---|---|---|
| honest | `HonestStayConnected` | a list of a server of this kind never verifies at another one, unless it is empty, and costs its sender all its reputation (`peer_discovery.go:155`) |
| unpublished | `ClientsServed` | the page signs the version 1 text, the server verifies version 2: nothing any client of the repository sends is published (`signature.go:78`, `publish.html:204`) |
| untransferred | `SyncTransfers` | a stored post has lost its network, and posts of another network are skipped: servers of this kind transfer nothing (`peer_discovery.go:299`) |

Further places where the code and its words part, met while modelling. The models
follow the code; no run is spent on these:

* The nonce check comes before the idempotency check: the same message again is
  answered 400 "replay" for 24 hours, not 200 (`publish.go:109`), though "Re-submitting
  the EXACT SAME signed message results in the SAME ID. (Idempotency Key)"
  (`publish.go:136`, `:160`). With two requests for one document, an invariant
  `answer[r] = "replay" => NodeID(post[r]) \notin IDs` of Server fails.
* The purge of a banned hash fails on the foreign key of a reply and its error is
  dropped (`admin_repository.go:208-210`): "Cascading delete of existing corrupted
  content" leaves a banned document that somebody replied to stored and served. With a
  thread of two and the power "hash", `h \in banned_hashes \ purging => StoredWith(h) = {}`
  fails without any fault.
* A backup asks for `{author, limit: 1000}` under the comment "Fetch everything the user
  has published" (`exporter.js:32-33`). The server reads `filters` and ignores `author`,
  and replaces a limit above 100 by 20 (`query.go:33`): the file holds the newest 20
  posts of anybody. They have lost their network, so the import drops every one of them,
  and the page says "Backup restored successfully! Synced 0 historical nodes."
  A chunk that fails is passed over without a word to the user (`exporter.js:116`).
* Two processes that both find no key file both make one (`identity.go:53-60`); if the one
  that wrote first gets the port, the server shows a key that is nowhere on disk and is
  another server after the next restart. `OneIdentity` excepts just this.
* A crash between the creation of the key file and the end of its writing leaves a file
  with which no process starts again (`identity.go:35`); `ServesInTheEnd` excepts it.
* A server whose database is not there in the first five seconds goes on without tables
  for as long as it lives (`main.go:50`).
* "Only sync from peers with reputation > 50" (`peer_discovery.go:213`, README.md:209): a
  peer with exactly 50 is asked (`:223`).
* The page is refused at the signature, when its nonce is spent. The messages, the
  scripts and the command line client are refused before that, for want of the
  header X-MeuEu-Author: with `Using = {"message"}`, `{"script"}` or `{"cli"}` the
  run `unpublished` ends there.
* The ID computed from the signature of a pulled post is not assigned
  (`peer_discovery.go:321`, `:333-336`): it is stored under the ID the peer sends, and
  if that is another one, a second time. In Federation, with the parcel
  `<<Renamed(Root, Reply1)>>`, two rows carry one signature.
* Everybody who is met by URL alone shares the key "discovered-from-gossip", hence
  one row (`peer_discovery.go:389`): of several seeds that answer the last one
  stays, and it inherits what the row has lost. This is why trust has one seed.
* The reward of 100 for a trusted peer ("Max out!", `peer_discovery.go:200`) is
  written by a statement that leaves reputations alone (`peer_repository.go:30`).
  `ReputationNeverRises` is the same fact, proved.
* Seeds are pinged once, before the server itself listens (`main.go:95`, `:144`):
  two servers with each other as only seeds that start together never meet.
* The "majority" of invalid posts (`peer_discovery.go:353`) is counted against posts
  newly stored: what the server has already does not count for the peer.
* `/v1/import` does not look at SYNC_EXTERNAL_POSTS or claimed_at (`sync.go:107`),
  though README.md:221 says that historic imports are rejected.
* A bucket that is swept between LoadOrStore and Lock gives its key a second budget
  in one window (`rate_limiter.go:49`, `:72`). `LimitedUnlessOrphaned` says that
  this is the only way.

**Bounds.** The hazards are races between two handlers, or between a handler and
one other actor: two requests (three at the limiter, where the third finds what two
left), or one next to moderators, an import or the gossip worker, suffice to show
them. `MaxClock` exceeds `TTL` + 1 where nonces expire and is `Skew` + 1 where the
clock is compared with documents of times 0 and 2, so that each time comparison is
seen on both sides of its boundary. `MaxFaults` 2 lets the two independent hash
checks fail in one request; elsewhere one failing call or crash is enough for what the
run asks, and the proofs have no such bound. `Powers` restricts a run to the admin
calls its question is about. The backups of `promised` are in order across the chunks,
out of order within one, and with one node twice, and contain what a server hands out and what
belongs elsewhere.

In Paging a page has 2 rows and the query selects 3 of 4 posts, so that answers take two
pages and an empty one; `Wish` 3 is above the longest page, so that the default
replaces it. Two posts share their time. Each exception in `NothingOverlooked` and
`NothingRepeated` is needed: without it TLC finds a counterexample. Times of Rounds are in
the proportions of the code, rounded so that they are small: a round of ten peers with
two requests of ten seconds each outlasts the two minutes (`MaxRound` > `Period`), the
quarantine's minute is less than the period, and the window is long against both. Two
assumptions say what has to fit, and TLC and the proofs use the same: `FetchAssumption`,
a minute and a round into the periods of all fetches but one, and `GapAssumption`, the
longest time from the storing of a post to the end of an answered pull into the window.
In the instance both fit exactly, and with one fetch less `NeverQuarantined` fails. The
code allows 5 fetches where 60 + 200 seconds fit into the periods of 3, so it has one to
spare; and its gap, 400 seconds and 320 for each failure, stays below the hour with nine
failures. The window is one unit longer than the gap, the clock runs past both, and one of
two posts fills a page. `Excused` is exact: a post that is stored a gap before it leaves
the window may be missed (with `>` for `>=` TLC finds it).

In Gossip, hazards are between what one server has read and what it then writes, so
one server and two others suffice, one of which names the other; where servers of
this kind have to meet each other there are two. `Reputation` is the real 100 with
the real penalties, so that the thresholds (50 for posts, 0 for disconnection) are
crossed as in the code, and `GossipLimit` and `ServeLimit` are the real 10 and 50. A reputation has no lower
bound in the code; in the instances it has one, because nobody below 1 is asked
again, except a seed when the server restarts, which counts as a fault. `Day` is 1: a peer seen in this stretch of time or the last one is active.
`MaxFaults` counts failing calls and crashes together. `Leaving` names the hosts
that may be switched off; a host comes back in no run.

Every bound is a constant named as one. `RequestSymmetry` is used where no property
tells requests apart by name and no liveness is checked.

**Deadlock** is checked in all runs of Server (cleanup is always possible) and
switched off in `limits`, where requests are one-shot and the clock is bounded, and in
`rounds`, where everything waits for a clock that is bounded. In Gossip, Federation, Paging
and Lifecycle it is checked: the rounds, the clock, the pulls, the moderators and the
restarts go on.

**Fairness.** `HandlersRun`: weak fairness of each handler that has started. The
Go scheduler runs every goroutine, and every database call returns, with an
error at the latest when the request's context ends. Nothing is assumed of
clients, moderators, the cleanup or the clock, nor that calls succeed.
`FairSpec` of Gossip: weak fairness of each worker's next step (its ticker fires
every two minutes, and each request ends by a timeout of 10 seconds) and of `Age`
(time passes). Nothing is assumed of the order of answers, nor that a host leaves.
`FairRestoreSpec`: `HandlersRun` again, and nothing of the page, which may be closed.
`FairSpec` of Lifecycle: weak fairness of each process's next step. Its container is
started again unless it was stopped (`restart: unless-stopped`, docker-compose.yml),
connecting to the database and pinging the seeds have timeouts, and file calls return.
Nothing is assumed of crashes, interrupts or the operator.
`FairFedSpec`: weak fairness of the worker's step, for the same reason. It is the
specification of a counterexample: not even a worker that runs for ever, with no
failure, gets the post.

## 4. What is proved

Every safety property of every passing run is a theorem, as are the action properties
and the refinement, for every value of the constants: any sets of keys, documents, nonces,
requests and batches, any TTL, any servers, seeds, lists, manners and limits, any lengths of
rounds and pages, any number of processes, failures and crashes. Each theorem is proved from
an inductive invariant; what follows says which and why it is needed.

### The server (`ServerProofs`)

* `TypeCorrect`: by itself TypeOK is not inductive, since MarkUsed stores the nonce of a
  document, which may be missing. `FieldsChecked` adds that a request at the nonce check
  has passed `Validate`.
* `ClosedBarrierHolds`: `BarrierInv` adds that bans that stood throughout are in force now
  (`standing[r] \in SUBSET Bans`), and that a request which is behind a check that fails
  closed is not concerned by one. A request that passes `Banlist` is not in `banned_users` at
  that moment, so the pair is not in `Bans`, hence not in `standing`; and `standing` only
  shrinks.
* `OpenBarrierHolds`: `OpenInv` is the same for the word check and the two looks at the
  banned hashes, one request at a time: whoever has passed a look that did not fail is not
  concerned by a ban that stood throughout.
* `NonceSpacingHolds`: `NonceInv` adds that the nonce of an acceptance is still remembered or
  already expired, and that a request is accepted once. A new acceptance finds its nonce
  free, so no earlier one is remembered, so all earlier ones have expired; the cleanup removes
  only what is older than TTL, because its reading of the clock is never ahead of the clock.
* `OnlyGenuineHolds`: `CheckedInv` adds that a request behind the check of its network and
  its signature carries what its author signed, for this network, and that what the
  validation loop of an import has kept does. The parent above each stored reply comes from
  the table itself: `TableInv` (one row to an ID, no reply without its parent) survives
  insertions, transactions and deletions.
* `AckDurableHolds` is inductive with the types: an acknowledgement is given in the step that
  stores the node or finds it, and rows go by moderators only, who are remembered in `removed`.
* `NothingFromFutureHolds`: `TimelyInv` adds that a handler's reading of the clock is not
  ahead of it and that the document was compared with that reading. It assumes
  `Bulk = {}`: POST /v1/import makes no such comparison (section 3), so with imports it is
  false, and the run `bans` has none.
* `RefusedForCauseHolds`: `Accounted` adds that every remembered nonce is one that a request
  had accepted, or a call has failed: a MarkUsed that failed may have been committed. The
  argument needs NonceInv, since a request must not meet its own nonce.
* `ServerImplementsLedger`: every step of the server is a step of `Ledger` or a stutter
  under the mapping of `Server!Promise`. A crash settles any number of requests, and an import
  stores a whole batch, at once; a batch can hold a document and the reply to it in
  any order that the foreign keys allow, so that `SoundPosts` is shown for the whole set.
* `BatchAllOrNothingHolds`: the action property, for batches of any length. The transaction
  adds every row of `validNodes` or leaves the table.

### A server among peers and clients

* `FederationProofs`. `FedTypeCorrect`, `SyncBarrierHolds` and `OnlyPunishedForForgeryHolds`
  from `PullInv`: what the worker holds comes from the parcel, its counts and its verdict are
  about the parcel, and a document it is about to store has verified and was not banned, but
  for a look that failed. `GenuineByAnyWayHolds`: whichever way a row came, it carries what
  its author signed. `PromisesSurviveSync`: the server's invariants (`ServerInv`) are kept by
  the worker's steps too, so that NonceSpacing, ClosedBarrier, OpenBarrier, AckDurable and
  RefusedForCause hold with peers that send anything. The refinement of the ledger and the
  part of OnlyGenuine about IDs do not carry over, and are false: peers name the IDs of what
  they send (`peer_discovery.go:333`).
* `RestoreProofs`. `RestoreCountsTrueHolds`, from `CountInv`: the server keeps no more nodes of
  a chunk than the chunk has places for them, a chunk that was answered for is stored or was
  removed since, and the page adds each chunk's places once. `PageIsAClient` makes the
  server's own theorems available.
* `PagingProofs`. `PagingTypeCorrect`, `NothingOverlookedHolds` and `NothingRepeatedHolds`, from
  `OffsetInv`. The offset counts rows and knows no nodes; what ties them together is that a
  node which is the only one of its time has as many rows before it in every answer as were
  claimed later (`InPlace`, from `PlaceInOrder` about sorts). So a lasting node is not behind the
  offset unless it was read (`Ahead`), which a deletion above it may undo and nothing else; and a
  node that was read is behind the offset (`Behind`), which an arrival above it may undo and
  nothing else. For a node that was deleted and stored again the proof needs that its
  time is the same: without the second part of `PagingAssumption` the property is false.

### The peers

* `GossipProofs`, the tables. `GossipTypeCorrect`: TypeOK says that `peers` is a table: no two
  rows share a key or a URL, so that what is found by URL and punished by key is the same
  row. It is not inductive alone: `AnswerInHand` adds that an answer is only ever that
  of the first peer still to visit, without which the head of `todo` that is punished or
  rewarded might not exist. `ReputationNeverRisesHolds`: each statement (`Upsert`, `Punish`,
  `Older` and what is built from them) maps a table to a table in which every key is still
  there and has no more than before (`Table`, `Falls`, the lemmas `UpsertFalls` to
  `ExecuteFalls`), and each action runs at most one statement on each table. So the reward
  of a good answer, the 100 points of a trusted host and the claims of third parties are
  without effect for ever.
* `GossipProofs`, trust. `BlameIsEarnedHolds` and `DisconnectedNotAskedHolds` are proved for
  configurations with `KeysOfTheirOwn`, which TLC evaluates in every run of MCGossip: no key
  is listed under two URLs, a server has one seed besides itself, and nobody who is new is
  listed with less than a newcomer gets. The code does not see to any of these, and both
  properties fail without it: a key that is listed elsewhere moves its row to another host, all
  seeds are one row, and a reputation that is listed is believed. `TrustInv` says that then a
  row stays at its address (`AtHome`), that whoever is still to be visited in a round is in the
  table, once, with some reputation left (`InFavour`: the round works from a list that was read
  before, but nobody is punished before his turn, since a punishment meets only the host
  at the head of the list), and that who has less than he began with has failed here (`Earned`).
* `RoundsProofs`. `RoundsTypeCorrect` and, under `FetchAssumption`, `NeverQuarantinedHolds`:
  `TimeInv` relates ticker, clock and the beginning of the round, and `FetchInv` says that each
  fetch that is counted, and each still to come of a tick that has fired, has taken a period of
  its own since the first one's round began. Under `GapAssumption`, `EveryPostOfferedHolds`:
  `OfferInv` says that a post that was not offered yet either can wait for the latest moment at
  which an answer comes if all failures that are left happen (`Latest`), or was crowded out of an
  answer by a full page of others, and then again. The attempt to prove this corrected the
  property: a post that is stored exactly one gap before it leaves the window may be missed,
  and a failure lengthens the gap by a period and a round only.

### One process

* `RateLimiterProofs`. `LimiterTypeCorrect` and `PassedPaidBothHolds` from `CallInv`: a request
  holds a bucket only while it is about to lock it, and asks for its public key only when it
  has paid for its address. `BucketBudgetHolds` from `BudgetInv`: what a bucket has given
  out in its present window and what is left in it are at most its rate, and its earlier
  windows have passed. `LimitedUnlessOrphanedHolds` from `WindowInv`: while no bucket of a key was
  swept from under a request, the key has one bucket at a time, and when it has none, all
  its windows have passed on the clock of every request that may store the next; this holds
  although requests carry clock readings that are old.
* `LifecycleProofs`. `OneIdentityHolds`, and with the same invariant `LifecycleTypeCorrect`.
  OneIdentity says nothing of processes that have not listened yet; `IdentityInv` adds that
  there is a key file exactly if somebody has made one (so nobody makes a second, except who
  looked before the first was there), that while the only maker writes nobody has a key
  yet, because the file is torn and a torn file is not loaded, and that whoever is past
  loading holds what is in the file.

### Assumptions

The theorems rest on the named assumptions of the modules, and TLC evaluates them in the
runs: `HomeAssumption`, `ParentAssumption`, `SignatureAssumption`, `DigestAssumption`,
`TimeAssumption`, `GovernanceAssumption`, `PublishAssumption`, `ImportAssumption` and
`PowersAssumption` in every run of Server, with `RestoreAssumption` in `promised`;
`ParcelAssumption` in the runs of Federation; `LimitAssumption` and `PagingAssumption` in
`paging`; `RateAssumption` and `BucketAssumption` in `limits`;
`HostAssumption`, `ActiveAssumption`, `GossipAssumption` and `ForeignAssumption` in
every run of Gossip, with `KeysOfTheirOwn`; `RoundsAssumption`, `FetchAssumption` and
`GapAssumption` in `rounds`; `KeyAssumption` and `FaultAssumption` in `lifecycle`. They
say of what kind the constants are, but for ideal cryptography (Signature, Digest), the
reader's posts being signed (Paging), and what has to fit in time (Fetch, Gap).

### Only model-checked

`EveryRequestAnswered`, `DeadForgotten` and `ServesInTheEnd` are liveness under fairness,
which the proof system does not handle, and stay with TLC, as do the three counterexamples.

## 5. What is not modelled

* Byte formats: TLV layout, hex, JSON, JSONB normalisation, UUID bits.
* Request bodies that are too large or no JSON: answered with an error before
  anything happens.
* A header that names another key than the body does: the models let clients send
  their own key.
* Development mode, without a database: reads are empty, and every write ends in an
  error. In Lifecycle such a process starts and serves like any other.
* The migrations, and the connection pool beyond calls that fail. A migration that
  fails is logged, and the process goes on.
* Trailing slashes of URLs, the UUIDs of rows of `peers`, the time zones of
  `last_seen`, the keys servers sign with beyond whether they are trusted.
* Between Gossip and ContentSync: Gossip takes the numbers of good and bad posts in
  an answer from `Posts` and does not derive them from documents; that servers of
  this kind yield neither is what `untransferred` shows.
* Between Gossip and Rounds: Rounds takes one peer that is in every round; who is
  visited is Gossip's question.
* What clients do beside publishing and restoring: logging in, encrypting and showing
  what a query returned. The Go SDK takes any status but 201 for a failure, a
  second sending's 200 included (`client.go:75`); its callers do not send again.
* The router, CORS and the admin token check keep no state. The admin panel only
  calls the admin API, which is modelled. Its lists and counts are reads of one
  table; the three counts of /admin/stats are three statements, of three moments.

## 6. Plan

Done: documents, tables, governance, publish, import, moderation, the rate limiter,
the abstract ledger, peer discovery with its timing, content sync, the queries and a
reader who pages, what clients publish, the restore of a backup, and the processes
with their key file. What is left of the code is in section 5.

Theorems to come: that Restore and Paging, each next to Federation instead of Server, keep
what is proved of them; and that a peer's posts are pulled by Gossip's rounds as Rounds
assumes.

Abstract specifications to come: of a server as its peers see it (a growing set of
genuine posts and bans), which Federation would implement.

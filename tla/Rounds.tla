------------------------------- MODULE Rounds -------------------------------
(****************************************************************************)
(* When a server pulls the posts of one peer: the ticker, the rounds it     *)
(* starts, the quarantine counter of the peer (allowSync) and the window of *)
(* time a pull asks for (services/peer_discovery.go).                       *)
(*                                                                          *)
(* A round visits up to ten peers twice, and each visit may take as long as *)
(* the timeout of a request: a round may outlast the ticker's period.  The  *)
(* visits to the other peers are time that passes.  The peer is in every    *)
(* round (Gossip says who is) and answers with the first posts of the       *)
(* window (Listing); what becomes of these is in ContentSync.               *)
(****************************************************************************)
EXTENDS Listing

CONSTANTS
    Period,      \* of the ticker: two minutes
    MaxRound,    \* the longest round: ten peers, two requests of ten seconds each
    Minute,      \* how long the quarantine counter counts
    MaxFetches,  \* fetches of one peer in that time (5)
    Hour,        \* how far back a pull looks
    PullLimit,   \* posts in an answer (50)
    Post,        \* what is published at the peer
    Backdating,  \* how long before it is stored a post may claim to be written
    MaxClock,    \* bound of the model: the clock stops here
    MaxFaults    \* bound of the model: requests that fail and restarts

ASSUME RoundsAssumption ==
    /\ Period \in Nat \ {0} /\ MaxRound \in Nat
    /\ Minute \in Nat /\ MaxFetches \in Nat /\ Hour \in Nat /\ PullLimit \in Nat
    /\ Backdating \subseteq Nat /\ MaxClock \in Nat /\ MaxFaults \in Nat

VARIABLES
    clock,
    nextTick,  \* when the ticker fires next
    ticked,    \* its channel, which holds one tick
    worker,    \* what the worker does: "waiting", "gossip", "turning" to the peer, "asking", "others"
    began,     \* when the round began
    since,     \* the beginning of the window of the round
    record,    \* the peer's syncRecord
    stored,    \* the posts in the peer's table
    offered,   \* history: the posts the peer has answered with
    skipped,   \* history: whether the peer has been quarantined
    faults

vars == <<clock, nextTick, ticked, worker, began, since, record, stored, offered, skipped, faults>>

Row == [post: Post, claimed: Int, at: 0..MaxClock]

TypeOK ==
    /\ clock \in 0..MaxClock /\ nextTick \in 0..MaxClock + Period /\ began \in 0..clock
    /\ ticked \in BOOLEAN /\ skipped \in BOOLEAN
    /\ worker \in {"waiting", "gossip", "turning", "asking", "others"}
    /\ since \in Int
    /\ record \in [count: 0..MaxFetches, lastFetch: 0..MaxClock]
    /\ offered \subseteq stored /\ stored \subseteq Row
    /\ faults \in 0..MaxFaults

Init ==
    /\ clock = 0 /\ nextTick = Period /\ ticked = FALSE
    /\ worker = "waiting" /\ began = 0 /\ since = 0
    /\ record = [count |-> 0, lastFetch |-> 0]
    /\ stored = {} /\ offered = {} /\ skipped = FALSE /\ faults = 0

\* The worker's loop takes the tick.
StartRound ==
    /\ worker = "waiting" /\ ticked
    /\ worker' = "gossip" /\ ticked' = FALSE /\ began' = clock
    /\ UNCHANGED <<clock, nextTick, since, record, stored, offered, skipped, faults>>

\* syncContent, after gossip: one window for all the peers it will visit.
StartSync ==
    /\ worker = "gossip"
    /\ worker' = "turning" /\ since' = clock - Hour
    /\ UNCHANGED <<clock, nextTick, ticked, began, record, stored, offered, skipped, faults>>

\* Mutant: the counter is never set back.
Counted == IF record.count = 0 THEN [count |-> 0, lastFetch |-> clock] ELSE record

\* The peer's record, created or set back where it is time to.
Current == IF record.count = 0 \/ clock - record.lastFetch > Minute
           THEN [count |-> 0, lastFetch |-> clock]
           ELSE record

\* Mutant: fetches are counted, and that is all.
AllowAlways ==
    /\ worker = "turning" /\ worker' = "asking"
    /\ record' = [record EXCEPT !.count = @ + 1]
    /\ UNCHANGED <<clock, nextTick, ticked, began, since, stored, offered, skipped, faults>>

AllowSync ==
    /\ worker = "turning"
    /\ IF Current.count >= MaxFetches
       THEN worker' = "others" /\ record' = Current /\ skipped' = TRUE
       ELSE /\ worker' = "asking" /\ record' = [Current EXCEPT !.count = @ + 1]
            /\ UNCHANGED skipped
    /\ UNCHANGED <<clock, nextTick, ticked, began, since, stored, offered, faults>>

\* fetchContentFrom, as far as the answer; a request may fail.
Answer ==
    /\ worker = "asking" /\ worker' = "others"
    /\ \/ \E page \in ListRecent(stored, since, PullLimit) :
              offered' = offered \cup {page[i] : i \in DOMAIN page}
          /\ UNCHANGED faults
       \/ faults < MaxFaults /\ faults' = faults + 1 /\ UNCHANGED offered
    /\ UNCHANGED <<clock, nextTick, ticked, began, since, record, stored, skipped>>

EndRound ==
    /\ worker = "others" /\ worker' = "waiting"
    /\ UNCHANGED <<clock, nextTick, ticked, began, since, record, stored, offered, skipped, faults>>

\* The process starts again, with a new ticker and no records.
Restart ==
    /\ faults < MaxFaults /\ faults' = faults + 1
    /\ nextTick' = clock + Period /\ ticked' = FALSE /\ worker' = "waiting"
    /\ record' = [count |-> 0, lastFetch |-> 0]
    /\ UNCHANGED <<clock, began, since, stored, offered, skipped>>

Store(p, claimed) ==
    /\ \A q \in stored : q.post # p
    /\ stored' = stored \cup {[post |-> p, claimed |-> claimed, at |-> clock]}
    /\ UNCHANGED <<clock, nextTick, ticked, worker, began, since, record, offered, skipped, faults>>

\* A worker that waits takes its tick at once, and timeouts bound the round. A tick that finds
\* the channel full is dropped.
Tick ==
    /\ clock < MaxClock
    /\ IF worker = "waiting" THEN ~ticked ELSE clock < began + MaxRound
    /\ clock' = clock + 1
    /\ IF clock' = nextTick
       THEN ticked' = TRUE /\ nextTick' = nextTick + Period
       ELSE UNCHANGED <<ticked, nextTick>>
    /\ UNCHANGED <<worker, began, since, record, stored, offered, skipped, faults>>

Next ==
    \/ StartRound \/ StartSync \/ AllowSync \/ Answer \/ EndRound
    \/ Restart \/ Tick
    \/ \E p \in Post, b \in Backdating : Store(p, clock - b)

Spec == Init /\ [][Next]_vars

\* peer_discovery.go:235: the quarantine is there against cycles of fetches, and rounds that
\* outlast the ticker and then follow each other at once do not set it off: a peer is never
\* skipped by a server that runs this code.
NeverQuarantined == ~skipped

\* From the beginning of a round to that of the next; and to the end of a pull that is answered.
ToNext == IF Period > MaxRound THEN Period ELSE MaxRound
Gap == ToNext + MaxRound + MaxFaults * (Period + MaxRound)

\* What has to fit: a minute and a round into all fetches but one, a gap into the window.
ASSUME FetchAssumption == Minute + MaxRound <= (MaxFetches - 1) * Period
ASSUME GapAssumption == Gap < Hour

\* Other posts that an answer with this window puts before p.
AheadOf(p, from) == {q \in stored \ {p} : from < q.claimed /\ q.claimed <= p.claimed}

\* Posts that were stored when they were about to leave the window (an import, or a clock that
\* is behind), and those that follow a full page of others within one gap.
Excused(p) == \/ p.at >= p.claimed + Hour - Gap
              \/ Cardinality(AheadOf(p, p.claimed - Gap)) >= PullLimit

\* Every post of a peer is offered to the puller before it leaves the window of an hour:
\* however long the rounds take, whichever request fails and whenever the puller restarts. The
\* only ones missed are those that are excused.
EveryPostOffered ==
    \A p \in stored : p.claimed <= clock - Hour => p \in offered \/ Excused(p)

(****************************************************************************)
(* Why: the inductive invariant                                             *)
(****************************************************************************)

\* The ticker is ahead of the clock by a period at most, and of a round's beginning by one or,
\* if it has fired since, by more; a round asks for the hour before some moment of it.
TimeInv ==
    /\ clock < nextTick /\ nextTick <= clock + Period
    /\ worker # "waiting" =>
           /\ clock <= began + MaxRound
           /\ IF ticked THEN nextTick > began + Period ELSE nextTick <= began + Period
    /\ worker \in {"turning", "asking"} => began <= since + Hour /\ since + Hour <= clock

\* Each fetch that is counted, and each that is still to come in this round or of the tick in
\* the channel, but for the first has taken a tick since the first one's round began.
ToCome == (IF ticked THEN 1 ELSE 0) + (IF worker \in {"gossip", "turning"} THEN 1 ELSE 0)
FetchInv ==
    record.count > 0 =>
        nextTick > record.lastFetch - MaxRound + (record.count - 1 + ToCome) * Period

\* When the present round began, or else the next one will; and when at the latest an answer
\* comes, if all the calls fail that may.
NextRound ==
    IF worker = "waiting" THEN IF ticked THEN clock ELSE nextTick
    ELSE IF worker = "others"
         THEN IF ticked \/ nextTick < began + MaxRound THEN began + MaxRound ELSE nextTick
         ELSE began
Latest == NextRound + MaxRound + (MaxFaults - faults) * (Period + MaxRound)

\* A post that has not been offered waits for its first answer, or was crowded out of the last
\* one that it could have been in; either way the next is not more than a gap away.
Waits(p) ==
    \/ Latest <= p.at + Gap
    \/ \E from \in Int : /\ from < p.claimed /\ Latest <= from + Hour + Gap
                         /\ Cardinality(AheadOf(p, from)) >= PullLimit
OfferInv == \A p \in stored : p \in offered \/ Excused(p) \/ Waits(p)
=============================================================================

----------------------------- MODULE RateLimiter -----------------------------
(****************************************************************************)
(* internal/api/middleware/rate_limiter.go: token buckets per IP and per    *)
(* public key in two concurrent maps, filled by the requests and swept by a *)
(* background goroutine.  A request reads the clock, fetches or stores its  *)
(* bucket, and then locks that bucket: three steps, between which anything  *)
(* may run.  Buckets are heap objects: a request may hold one that the      *)
(* sweep has since taken out of the map.                                    *)
(****************************************************************************)
EXTENDS Integers, FiniteSets

CONSTANTS
    Request,      \* write requests (POST or PUT); each arrives at most once
    IP, PubKey,   \* the keys of ipBuckets and of pubKeyBuckets
    IPOf, KeyOf,  \* what extractIP and the header or body of each request yield
    NoPubKey,     \* neither the header nor the body names an author
    IPRate, PubKeyRate,
    Window,       \* one minute
    StaleAfter,   \* ten minutes
    SweepEvery,   \* five minutes
    NoBucket,
    MaxStall,     \* bound of the model: no call of allow takes longer
    MaxClock      \* bound of the model: the clock stops here

ASSUME RateAssumption ==
    /\ IP \cap PubKey = {} /\ NoPubKey \notin PubKey
    /\ IPOf \in [Request -> IP] /\ KeyOf \in [Request -> PubKey \cup {NoPubKey}]
    /\ IPRate \in Nat \ {0} /\ PubKeyRate \in Nat \ {0}
    /\ Window \in Nat \ {0} /\ StaleAfter \in Nat /\ Window <= StaleAfter
    /\ SweepEvery \in Nat /\ MaxStall \in Nat /\ MaxClock \in Nat

LimitKey == IP \cup PubKey
Rate(k) == IF k \in IP THEN IPRate ELSE PubKeyRate

\* A bucket is named for the call of allow that allocated it.
Bucket == Request \X LimitKey
ASSUME BucketAssumption == NoBucket \notin Bucket

VARIABLES
    clock,
    phase,      \* where each request is in Middleware
    key,        \* the key of the call of allow it is in
    now,        \* that call's reading of the clock
    held,       \* the bucket LoadOrStore returned to it
    buckets,    \* the maps: the bucket of each key
    tokens, lastReset,  \* the buckets on the heap
    sweepNow, unswept, wakeAt,  \* the sweep: its clock reading, keys to visit, next start
    \* History variables: they appear in no guard.
    admitted,   \* [by, key, epoch, bucket] of each call of allow that returned true
    orphaned    \* keys whose bucket was swept while a request was inside allow for them

requestVars == <<phase, key, now, held>>
heapVars == <<tokens, lastReset>>
sweepVars == <<sweepNow, unswept, wakeAt>>
vars == <<clock, requestVars, buckets, heapVars, sweepVars, admitted, orphaned>>

Phases == {"idle", "clock", "load", "take", "passed", "limited"}

TypeOK ==
    /\ clock \in 0..MaxClock
    /\ phase \in [Request -> Phases]
    /\ key \in [Request -> LimitKey]
    /\ now \in [Request -> 0..MaxClock]
    /\ held \in [Request -> Bucket \cup {NoBucket}]
    /\ buckets \in [LimitKey -> Bucket \cup {NoBucket}]
    /\ tokens \in [Bucket -> Nat]
    /\ lastReset \in [Bucket -> 0..MaxClock]
    /\ sweepNow \in 0..MaxClock /\ unswept \subseteq LimitKey /\ wakeAt \in Nat
    /\ admitted \subseteq [by: Request, key: LimitKey, epoch: 0..MaxClock, bucket: Bucket]
    /\ orphaned \subseteq LimitKey

Init ==
    /\ clock = 0
    /\ phase = [r \in Request |-> "idle"]
    /\ key = IPOf
    /\ now = [r \in Request |-> 0]
    /\ held = [r \in Request |-> NoBucket]
    /\ buckets = [k \in LimitKey |-> NoBucket]
    /\ tokens = [b \in Bucket |-> 0]
    /\ lastReset = [b \in Bucket |-> 0]
    /\ sweepNow = 0 /\ unswept = {} /\ wakeAt = SweepEvery
    /\ admitted = {} /\ orphaned = {}

\* Middleware calls allow with the IP.
Arrive(r) ==
    /\ phase[r] = "idle"
    /\ phase' = [phase EXCEPT ![r] = "clock"]
    /\ UNCHANGED <<clock, key, now, held, buckets, heapVars, sweepVars, admitted, orphaned>>

\* now := time.Now()
ReadClock(r) ==
    /\ phase[r] = "clock"
    /\ now' = [now EXCEPT ![r] = clock]
    /\ phase' = [phase EXCEPT ![r] = "load"]
    /\ UNCHANGED <<clock, key, held, buckets, heapVars, sweepVars, admitted, orphaned>>

\* buckets.LoadOrStore(key, a full bucket)
LoadOrStore(r) ==
    /\ phase[r] = "load"
    /\ LET k == key[r]
           fresh == <<r, k>>
       IN IF buckets[k] = NoBucket
          THEN /\ buckets' = [buckets EXCEPT ![k] = fresh]
               /\ tokens' = [tokens EXCEPT ![fresh] = Rate(k)]
               /\ lastReset' = [lastReset EXCEPT ![fresh] = now[r]]
               /\ held' = [held EXCEPT ![r] = fresh]
          ELSE held' = [held EXCEPT ![r] = buckets[k]] /\ UNCHANGED <<buckets, heapVars>>
    /\ phase' = [phase EXCEPT ![r] = "take"]
    /\ UNCHANGED <<clock, key, now, sweepVars, admitted, orphaned>>

\* Mutant: the public key is not looked at.
AdmitByIP(r) == phase' = [phase EXCEPT ![r] = "passed"] /\ UNCHANGED key

\* After a token was taken: from the IP on to the public key, if the request has one.
Admit(r) ==
    IF key[r] \in IP /\ KeyOf[r] # NoPubKey
    THEN key' = [key EXCEPT ![r] = KeyOf[r]] /\ phase' = [phase EXCEPT ![r] = "clock"]
    ELSE phase' = [phase EXCEPT ![r] = "passed"] /\ UNCHANGED key

\* Mutant: an empty bucket gives one more token.
TakeOneMore(r) ==
    /\ phase[r] = "take"
    /\ LET b == held[r]
           expired == now[r] - lastReset[b] >= Window
           left == IF expired THEN Rate(key[r]) ELSE tokens[b]
           epoch == IF expired THEN now[r] ELSE lastReset[b]
       IN /\ lastReset' = [lastReset EXCEPT ![b] = epoch]
          /\ IF left < 0
             THEN /\ phase' = [phase EXCEPT ![r] = "limited"]
                  /\ UNCHANGED <<tokens, key, admitted>>
             ELSE /\ tokens' = [tokens EXCEPT ![b] = left - 1]
                  /\ admitted' = admitted \cup {[by |-> r, key |-> key[r], epoch |-> epoch, bucket |-> b]}
                  /\ Admit(r)
    /\ held' = [held EXCEPT ![r] = NoBucket]
    /\ UNCHANGED <<clock, now, buckets, sweepVars, orphaned>>

\* Mutant: a refilled bucket keeps its old time of reset.
TakeWithoutStamp(r) ==
    /\ phase[r] = "take"
    /\ LET b == held[r]
           expired == now[r] - lastReset[b] >= Window
           left == IF expired THEN Rate(key[r]) ELSE tokens[b]
       IN IF left <= 0
          THEN /\ phase' = [phase EXCEPT ![r] = "limited"]
               /\ UNCHANGED <<tokens, key, admitted>>
          ELSE /\ tokens' = [tokens EXCEPT ![b] = left - 1]
               /\ admitted' = admitted \cup {[by |-> r, key |-> key[r], epoch |-> lastReset[b], bucket |-> b]}
               /\ Admit(r)
    /\ held' = [held EXCEPT ![r] = NoBucket]
    /\ UNCHANGED <<clock, now, buckets, lastReset, sweepVars, orphaned>>

\* The critical section of allow: reset the bucket if its window has passed, take a token.
Take(r) ==
    /\ phase[r] = "take"
    /\ LET b == held[r]
           expired == now[r] - lastReset[b] >= Window
           left == IF expired THEN Rate(key[r]) ELSE tokens[b]
           epoch == IF expired THEN now[r] ELSE lastReset[b]
       IN /\ lastReset' = [lastReset EXCEPT ![b] = epoch]
          /\ IF left <= 0
             THEN /\ phase' = [phase EXCEPT ![r] = "limited"]
                  /\ UNCHANGED <<tokens, key, admitted>>
             ELSE /\ tokens' = [tokens EXCEPT ![b] = left - 1]
                  /\ admitted' = admitted \cup {[by |-> r, key |-> key[r], epoch |-> epoch, bucket |-> b]}
                  /\ Admit(r)
    /\ held' = [held EXCEPT ![r] = NoBucket]
    /\ UNCHANGED <<clock, now, buckets, sweepVars, orphaned>>

\* The sweeper wakes up, reads the clock once, and ranges over the keys in any order.
StartSweep ==
    /\ unswept = {} /\ clock >= wakeAt
    /\ sweepNow' = clock
    /\ unswept' = LimitKey
    /\ UNCHANGED <<clock, requestVars, buckets, heapVars, wakeAt, admitted, orphaned>>

\* Under the bucket's lock, but not under that of a request that has yet to lock it.
Sweep(k) ==
    /\ k \in unswept
    /\ unswept' = unswept \ {k}
    /\ wakeAt' = IF unswept = {k} THEN clock + SweepEvery ELSE wakeAt
    /\ IF buckets[k] # NoBucket /\ sweepNow - lastReset[buckets[k]] > StaleAfter
       THEN /\ buckets' = [buckets EXCEPT ![k] = NoBucket]
            /\ orphaned' = IF \E r \in Request : key[r] = k /\ phase[r] \in {"load", "take"}
                           THEN orphaned \cup {k} ELSE orphaned
       ELSE UNCHANGED <<buckets, orphaned>>
    /\ UNCHANGED <<clock, requestVars, heapVars, sweepNow, admitted>>

Tick == /\ clock < MaxClock /\ clock' = clock + 1
        /\ \A r \in Request : phase[r] \in {"load", "take"} => clock - now[r] < MaxStall
        /\ UNCHANGED <<requestVars, buckets, heapVars, sweepVars, admitted, orphaned>>

Next ==
    \/ \E r \in Request : Arrive(r) \/ ReadClock(r) \/ LoadOrStore(r) \/ Take(r)
    \/ StartSweep \/ (\E k \in LimitKey : Sweep(k))
    \/ Tick

Spec == Init /\ [][Next]_vars

\* The windows of a key in which something was admitted, and what was admitted in one.
WindowsOf(k) == {a.epoch : a \in {x \in admitted : x.key = k}}
Admissions(k, e) == {a \in admitted : a.key = k /\ a.epoch = e}
TakenFrom(b, e) == {a \in admitted : a.bucket = b /\ a.epoch = e}
Paid(r, k) == \E a \in admitted : a.by = r /\ a.key = k

\* Windows of one key do not overlap, and none admits more than the rate.
Limited(k) ==
    /\ \A e \in WindowsOf(k) : Cardinality(Admissions(k, e)) <= Rate(k)
    /\ \A e, f \in WindowsOf(k) : e < f => f >= e + Window

\* The limiter keeps its promise for every key, across any number of buckets, resets and
\* sweeps, as long as no bucket was swept from under a request on its way to lock it.
LimitedUnlessOrphaned == \A k \in LimitKey \ orphaned : Limited(k)

\* Even then a bucket keeps its own count: what several requests take concurrently from one
\* bucket in one window never exceeds the rate.
BucketBudget ==
    \A b \in {a.bucket : a \in admitted} : \A e \in {a.epoch : a \in admitted} :
        Cardinality(TakenFrom(b, e)) <= Rate(b[2])

\* A request passes only with a token of its IP and, if it has a public key, one of that.
PassedPaidBoth ==
    \A r \in Request : phase[r] = "passed" =>
        Paid(r, IPOf[r]) /\ (KeyOf[r] # NoPubKey => Paid(r, KeyOf[r]))

(****************************************************************************)
(* Why: the inductive invariants                                            *)
(****************************************************************************)

\* A request holds a bucket only while it is about to lock it, one of the key it asks for; it asks
\* for its public key only when it has paid for its address, and passes when nothing is left to pay.
CallInv ==
    \A r \in Request :
        /\ now[r] <= clock
        /\ IF phase[r] = "take" THEN held[r] \in Bucket /\ held[r][2] = key[r] ELSE held[r] = NoBucket
        /\ key[r] = IPOf[r] \/ (key[r] = KeyOf[r] /\ KeyOf[r] # NoPubKey /\ Paid(r, IPOf[r]))
        /\ phase[r] = "passed" => Paid(r, key[r]) /\ (key[r] \in IP => KeyOf[r] = NoPubKey)

\* A request allocates at most one bucket per key: what it is to allocate next is in use nowhere.
Stored(r, k) ==
    \/ key[r] = k /\ phase[r] \in {"take", "passed", "limited"}
    \/ key[r] \in PubKey /\ k \in IP
InUse(b) ==
    \/ \E r \in Request : held[r] = b
    \/ \E k \in LimitKey : buckets[k] = b
    \/ \E a \in admitted : a.bucket = b

\* A bucket serves one key; what it gave out in windows before its last belongs to windows that
\* have passed, and in its last it has given out at most what is missing in it.
BucketInv ==
    /\ \A k \in LimitKey : buckets[k] # NoBucket => buckets[k][2] = k
    /\ \A b \in Bucket : InUse(b) => Stored(b[1], b[2])
    /\ \A a \in admitted :
        /\ a.bucket[2] = a.key
        /\ a.epoch = lastReset[a.bucket] \/ a.epoch + Window <= lastReset[a.bucket]
BudgetInv ==
    /\ IsFiniteSet(admitted)
    /\ \A b \in Bucket : /\ Cardinality(TakenFrom(b, lastReset[b])) + tokens[b] <= Rate(b[2])
                         /\ \A e \in 0..MaxClock : Cardinality(TakenFrom(b, e)) <= Rate(b[2])

\* While no bucket was swept from under a request, a key has one bucket at a time: all its windows
\* but the last one of that bucket have passed when the bucket was last filled, and when there is
\* no bucket, on the clock of any request that will store the next one.
OneBucket(k) ==
    /\ \A r \in Request : phase[r] = "take" /\ key[r] = k => held[r] = buckets[k]
    /\ \A a \in admitted : a.key = k =>
        IF buckets[k] # NoBucket
        THEN \/ a.bucket = buckets[k] /\ a.epoch = lastReset[buckets[k]]
             \/ a.epoch + Window <= lastReset[buckets[k]]
        ELSE /\ a.epoch + Window <= clock
             /\ \A r \in Request : phase[r] = "load" /\ key[r] = k => a.epoch + Window <= now[r]
    /\ \A a, c \in admitted : a.key = k /\ c.key = k =>
        IF a.epoch = c.epoch THEN a.bucket = c.bucket
        ELSE a.epoch + Window <= c.epoch \/ c.epoch + Window <= a.epoch
WindowInv == sweepNow <= clock /\ \A k \in LimitKey \ orphaned : OneBucket(k)
=============================================================================

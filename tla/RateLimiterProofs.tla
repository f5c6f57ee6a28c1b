-------------------------- MODULE RateLimiterProofs --------------------------
(****************************************************************************)
(* The rate limiter, for any rates, windows, addresses, keys and number of  *)
(* requests between whose steps the clock and the sweep move at will.       *)
(****************************************************************************)
EXTENDS RateLimiter, FiniteSetTheorems, TLAPS

\* The bucket a call of allow would allocate, and its parts.
LEMMA BucketParts ==
    /\ \A r \in Request, k \in LimitKey : /\ <<r, k>> \in Bucket
                                          /\ <<r, k>>[1] = r /\ <<r, k>>[2] = k
    /\ \A b \in Bucket : b[1] \in Request /\ b[2] \in LimitKey /\ b = <<b[1], b[2]>>
BY DEF Bucket

LEMMA RateTypes == \A k \in LimitKey : Rate(k) \in Nat /\ Rate(k) >= 1
BY RateAssumption DEF Rate

(****************************************************************************)
(* TypeOK, PassedPaidBoth                                                   *)
(****************************************************************************)

TypeInv == TypeOK /\ CallInv

\* The critical section with its local variables named: what a call of allow does to its bucket.
Takes(r, b, epoch, left) ==
    /\ b = held[r] /\ b[2] = key[r]
    /\ lastReset' = [lastReset EXCEPT ![b] = epoch]
    /\ \/ epoch = lastReset[b] /\ left = tokens[b]
       \/ lastReset[b] + Window <= epoch /\ epoch = now[r] /\ left = Rate(key[r])
    /\ \/ /\ left = 0 /\ phase' = [phase EXCEPT ![r] = "limited"]
          /\ UNCHANGED <<tokens, key, admitted>>
       \/ /\ left > 0 /\ tokens' = [tokens EXCEPT ![b] = left - 1]
          /\ admitted' = admitted \cup
                 {[by |-> r, key |-> key[r], epoch |-> epoch, bucket |-> b]}
          /\ Admit(r)

LEMMA TakeEffects ==
    ASSUME TypeInv, NEW r \in Request, Take(r)
    PROVE  \E b \in Bucket, epoch \in 0..MaxClock, left \in Nat : Takes(r, b, epoch, left)
<1> USE DEF TypeInv, TypeOK
<1>1. phase[r] = "take"
  BY DEF Take
<1>2. held[r] \in Bucket /\ held[r][2] = key[r]
  BY <1>1 DEF CallInv
<1>3. lastReset[held[r]] \in 0..MaxClock /\ tokens[held[r]] \in Nat /\ now[r] \in 0..MaxClock
  BY <1>2
<1>4. Rate(key[r]) \in Nat /\ Window \in Nat /\ MaxClock \in Nat
  BY RateTypes, RateAssumption
<1> DEFINE expired == now[r] - lastReset[held[r]] >= Window
           left == IF expired THEN Rate(key[r]) ELSE tokens[held[r]]
           epoch == IF expired THEN now[r] ELSE lastReset[held[r]]
<1>5. left \in Nat /\ epoch \in 0..MaxClock
  BY <1>3, <1>4
<1>6. \/ epoch = lastReset[held[r]] /\ left = tokens[held[r]]
      \/ lastReset[held[r]] + Window <= epoch /\ epoch = now[r] /\ left = Rate(key[r])
  BY <1>3, <1>4
<1>7. /\ lastReset' = [lastReset EXCEPT ![held[r]] = epoch]
      /\ \/ /\ left <= 0 /\ phase' = [phase EXCEPT ![r] = "limited"]
            /\ UNCHANGED <<tokens, key, admitted>>
         \/ /\ ~(left <= 0) /\ tokens' = [tokens EXCEPT ![held[r]] = left - 1]
            /\ admitted' = admitted \cup
                   {[by |-> r, key |-> key[r], epoch |-> epoch, bucket |-> held[r]]}
            /\ Admit(r)
  BY DEF Take
<1> HIDE DEF left, epoch, expired
<1>8. (left <= 0 => left = 0) /\ (~(left <= 0) => left > 0)
  BY <1>5
<1> QED BY <1>2, <1>5, <1>6, <1>7, <1>8 DEF Takes

\* Nobody is admitted by anything but the critical section.
LEMMA AdmittedGrows == ASSUME TypeInv, [Next]_vars PROVE admitted \subseteq admitted'
<1>1. ASSUME NEW r \in Request, Take(r)
      PROVE  admitted \subseteq admitted'
  BY <1>1 DEF Take
<1> QED BY <1>1 DEF Next, Arrive, ReadClock, LoadOrStore, StartSweep, Sweep, Tick, vars

LEMMA TypeInvInit == Init => TypeInv
BY RateAssumption DEF Init, TypeInv, TypeOK, CallInv, Phases, LimitKey, Bucket

\* A call of allow, or the middleware around it, that concerns another request is no concern of q's.
LEMMA OthersCall ==
    ASSUME TypeInv, NEW r \in Request,
           Arrive(r) \/ ReadClock(r) \/ LoadOrStore(r) \/ Take(r)
    PROVE  \A q \in Request \ {r} : /\ phase'[q] = phase[q] /\ key'[q] = key[q]
                                    /\ now'[q] = now[q] /\ held'[q] = held[q]
<1> USE DEF TypeInv, TypeOK
<1>1. CASE Arrive(r)
  BY <1>1 DEF Arrive
<1>2. CASE ReadClock(r)
  BY <1>2 DEF ReadClock
<1>3. CASE LoadOrStore(r)
  BY <1>3 DEF LoadOrStore
<1>4. CASE Take(r)
  BY <1>4 DEF Take, Admit
<1> QED BY <1>1, <1>2, <1>3, <1>4

LEMMA TypeStep ==
    ASSUME TypeInv, [Next]_vars
    PROVE  TypeOK'
<1> USE DEF TypeInv, TypeOK
<1>1. ASSUME NEW r \in Request, Arrive(r) \/ ReadClock(r)
      PROVE  TypeOK'
  BY <1>1 DEF Arrive, ReadClock, Phases, heapVars, sweepVars
<1>2. ASSUME NEW r \in Request, LoadOrStore(r)
      PROVE  TypeOK'
  <2>1. key[r] \in LimitKey /\ <<r, key[r]>> \in Bucket /\ Rate(key[r]) \in Nat
    BY BucketParts, RateTypes
  <2>2. phase' \in [Request -> Phases]
    BY <1>2 DEF LoadOrStore, Phases
  <2>3. CASE buckets[key[r]] = NoBucket
    <3>1. /\ buckets' = [buckets EXCEPT ![key[r]] = <<r, key[r]>>]
          /\ tokens' = [tokens EXCEPT ![<<r, key[r]>>] = Rate(key[r])]
          /\ lastReset' = [lastReset EXCEPT ![<<r, key[r]>>] = now[r]]
          /\ held' = [held EXCEPT ![r] = <<r, key[r]>>]
      BY <1>2, <2>3 DEF LoadOrStore
    <3>2. /\ held' \in [Request -> Bucket \cup {NoBucket}]
          /\ buckets' \in [LimitKey -> Bucket \cup {NoBucket}]
      BY <2>1, <3>1
    <3>3. tokens' \in [Bucket -> Nat] /\ lastReset' \in [Bucket -> 0..MaxClock]
      BY <2>1, <3>1
    <3>4. UNCHANGED <<clock, key, now, sweepNow, unswept, wakeAt, admitted, orphaned>>
      BY <1>2 DEF LoadOrStore, sweepVars
    <3>. QED
      BY <2>2, <3>2, <3>3, <3>4
  <2>4. CASE buckets[key[r]] # NoBucket
    BY <1>2, <2>1, <2>2, <2>4 DEF LoadOrStore, sweepVars, heapVars
  <2> QED BY <2>3, <2>4
<1>3. ASSUME NEW r \in Request, Take(r)
      PROVE  TypeOK'
  <2>1. PICK b \in Bucket, epoch \in 0..MaxClock, left \in Nat : Takes(r, b, epoch, left)
    BY <1>3, TakeEffects
  <2>2. lastReset' \in [Bucket -> 0..MaxClock]
    BY <2>1 DEF Takes
  <2>3. tokens' \in [Bucket -> Nat]
    <3>1. left > 0 => left - 1 \in Nat
      OBVIOUS
    <3> QED BY <2>1, <3>1 DEF Takes
  <2>4. admitted' \subseteq [by: Request, key: LimitKey, epoch: 0..MaxClock, bucket: Bucket]
    <3>1. [by |-> r, key |-> key[r], epoch |-> epoch, bucket |-> b]
              \in [by: Request, key: LimitKey, epoch: 0..MaxClock, bucket: Bucket]
      OBVIOUS
    <3> QED BY <2>1, <3>1 DEF Takes
  <2>5. phase' \in [Request -> Phases] /\ key' \in [Request -> LimitKey]
    <3>1. KeyOf[r] # NoPubKey => KeyOf[r] \in LimitKey
      BY RateAssumption DEF LimitKey
    <3> QED BY <2>1, <3>1 DEF Takes, Admit, Phases
  <2>6. held' \in [Request -> Bucket \cup {NoBucket}]
    BY <1>3 DEF Take
  <2>7. UNCHANGED <<clock, now, buckets, sweepVars, orphaned>>
    BY <1>3 DEF Take
  <2> QED BY <2>2, <2>3, <2>4, <2>5, <2>6, <2>7 DEF sweepVars
<1>4. CASE StartSweep
  BY <1>4 DEF StartSweep, requestVars, heapVars
<1>5. ASSUME NEW k \in LimitKey, Sweep(k)
      PROVE  TypeOK'
  <2>1. wakeAt' \in Nat
    BY <1>5, RateAssumption DEF Sweep
  <2> QED BY <1>5, <2>1 DEF Sweep, requestVars, heapVars
<1>6. CASE Tick
  BY <1>6, RateAssumption DEF Tick, requestVars, heapVars, sweepVars
<1>7. CASE UNCHANGED vars
  BY <1>7 DEF vars, requestVars, heapVars, sweepVars
<1> QED BY <1>1, <1>2, <1>3, <1>4, <1>5, <1>6, <1>7 DEF Next

\* A step of a request in the middleware keeps what it is and what it has paid for.
LEMMA CallStep ==
    ASSUME TypeInv, BucketInv, [Next]_vars
    PROVE  CallInv'
<1> USE DEF TypeInv, TypeOK
<1> DEFINE Call(q) ==
        /\ now[q] <= clock
        /\ IF phase[q] = "take" THEN held[q] \in Bucket /\ held[q][2] = key[q] ELSE held[q] = NoBucket
        /\ key[q] = IPOf[q] \/ (key[q] = KeyOf[q] /\ KeyOf[q] # NoPubKey /\ Paid(q, IPOf[q]))
        /\ phase[q] = "passed" => Paid(q, key[q]) /\ (key[q] \in IP => KeyOf[q] = NoPubKey)
<1>1. \A q \in Request : Call(q)
  BY DEF CallInv
<1>2. \A q \in Request : \A k : Paid(q, k) => Paid(q, k)'
  BY AdmittedGrows DEF Paid
<1>3. ASSUME NEW r \in Request, Arrive(r) \/ ReadClock(r) \/ LoadOrStore(r) \/ Take(r)
      PROVE  \A q \in Request : Call(q)'
  <2>1. UNCHANGED clock
    BY <1>3 DEF Arrive, ReadClock, LoadOrStore, Take
  <2>2. \A q \in Request \ {r} : Call(q)'
    BY <1>1, <1>2, <1>3, <2>1, OthersCall
  <2>3. Call(r)'
    <3>1. CASE Arrive(r)
      BY <1>1, <1>2, <3>1 DEF Arrive
    <3>2. CASE ReadClock(r)
      BY <1>1, <1>2, <3>2 DEF ReadClock
    <3>3. CASE LoadOrStore(r)
      <4>1. <<r, key[r]>> \in Bucket /\ <<r, key[r]>>[2] = key[r]
        BY BucketParts
      <4>2. buckets[key[r]] # NoBucket => buckets[key[r]] \in Bucket /\ buckets[key[r]][2] = key[r]
        BY DEF BucketInv
      <4>3. phase'[r] = "take" /\ held'[r] \in Bucket /\ held'[r][2] = key[r] /\ UNCHANGED <<key, now, clock>>
        BY <3>3, <4>1, <4>2 DEF LoadOrStore
      <4> QED BY <1>1, <1>2, <4>3
    <3>4. CASE Take(r)
      <4>1. held'[r] = NoBucket /\ UNCHANGED <<now, clock>>
        BY <3>4 DEF Take
      <4>2. \/ phase'[r] = "limited" /\ UNCHANGED key
            \/ (\E a \in admitted' : a.by = r /\ a.key = key[r]) /\ Admit(r)
        <5>1. ASSUME NEW b, NEW epoch,
                     admitted' = admitted \cup
                         {[by |-> r, key |-> key[r], epoch |-> epoch, bucket |-> b]}
              PROVE  \E a \in admitted' : a.by = r /\ a.key = key[r]
          <6>1. [by |-> r, key |-> key[r], epoch |-> epoch, bucket |-> b] \in admitted'
            BY <5>1
          <6> QED BY <6>1
        <5>2. \/ phase' = [phase EXCEPT ![r] = "limited"] /\ UNCHANGED key
              \/ /\ \E b \in Bucket, epoch \in 0..MaxClock : admitted' = admitted \cup
                           {[by |-> r, key |-> key[r], epoch |-> epoch, bucket |-> b]}
                 /\ Admit(r)
          BY <3>4, TakeEffects DEF Takes
        <5> QED BY <5>1, <5>2
      <4>3. CASE phase'[r] = "limited" /\ UNCHANGED key
        BY <1>1, <1>2, <4>1, <4>3
      <4>4. CASE (\E a \in admitted' : a.by = r /\ a.key = key[r]) /\ Admit(r)
        <5>1. CASE key[r] \in IP /\ KeyOf[r] # NoPubKey
          <6>1. key'[r] = KeyOf[r] /\ phase'[r] = "clock"
            BY <4>4, <5>1 DEF Admit
          <6>2. key[r] = IPOf[r]
            BY <1>1, <5>1, RateAssumption
          <6> QED BY <1>1, <4>1, <4>4, <5>1, <6>1, <6>2 DEF Paid
        <5>2. CASE ~(key[r] \in IP /\ KeyOf[r] # NoPubKey)
          <6>1. phase'[r] = "passed" /\ UNCHANGED key
            BY <4>4, <5>2 DEF Admit
          <6> QED BY <1>1, <1>2, <4>1, <4>4, <5>2, <6>1 DEF Paid
        <5> QED BY <5>1, <5>2
      <4> QED BY <4>2, <4>3, <4>4
    <3> QED BY <1>3, <3>1, <3>2, <3>3, <3>4
  <2> QED BY <2>2, <2>3
<1>4. ASSUME UNCHANGED requestVars, clock' \in {clock, clock + 1}
      PROVE  \A q \in Request : Call(q)'
  <2>1. \A q \in Request : now[q] <= clock'
    BY <1>1, <1>4, RateAssumption
  <2> QED BY <1>1, <1>2, <1>4, <2>1 DEF requestVars
<1>5. \A q \in Request : Call(q)'
  <2> HIDE DEF Call
  <2> QED BY <1>3, <1>4 DEF Next, StartSweep, Sweep, Tick, vars
<1> QED BY <1>5 DEF CallInv

(****************************************************************************)
(* BucketBudget                                                             *)
(****************************************************************************)

\* Whoever is about to store a bucket stores a new one.
LEMMA FreshBucket ==
    ASSUME TypeInv, BucketInv, NEW r \in Request, phase[r] = "load"
    PROVE  /\ <<r, key[r]>> \in Bucket /\ <<r, key[r]>>[2] = key[r]
           /\ ~InUse(<<r, key[r]>>)
           /\ \A a \in admitted : a.bucket # <<r, key[r]>>
           /\ \A k \in LimitKey : buckets[k] # <<r, key[r]>>
<1>1. key[r] \in LimitKey
  BY DEF TypeInv, TypeOK
<1>2. <<r, key[r]>> \in Bucket /\ <<r, key[r]>>[1] = r /\ <<r, key[r]>>[2] = key[r]
  BY <1>1, BucketParts
<1>3. ~Stored(r, key[r])
  BY RateAssumption DEF Stored
<1>4. ~InUse(<<r, key[r]>>)
  BY <1>2, <1>3 DEF BucketInv
<1> QED BY <1>2, <1>4 DEF InUse

\* A request that has stored a bucket for a key does not come back for that key.
LEMMA StoredStays ==
    ASSUME TypeInv, [Next]_vars, NEW q \in Request, NEW k \in LimitKey, Stored(q, k)
    PROVE  Stored(q, k)'
<1> USE DEF TypeInv, TypeOK, Stored
<1>1. CASE UNCHANGED requestVars
  BY <1>1 DEF requestVars
<1>2. ASSUME NEW r \in Request, Arrive(r) \/ ReadClock(r) \/ LoadOrStore(r) \/ Take(r), q # r
      PROVE  Stored(q, k)'
  BY <1>2, OthersCall
<1>3. CASE Arrive(q) \/ ReadClock(q) \/ LoadOrStore(q)
  BY <1>3 DEF Arrive, ReadClock, LoadOrStore
<1>4. CASE Take(q)
  <2>1. \/ phase' = [phase EXCEPT ![q] = "limited"] /\ UNCHANGED key
        \/ Admit(q)
    BY <1>4 DEF Take
  <2>2. KeyOf[q] # NoPubKey => KeyOf[q] \in PubKey
    BY RateAssumption
  <2> QED BY <2>1, <2>2, RateAssumption DEF Admit
<1> QED BY <1>1, <1>2, <1>3, <1>4 DEF Next, StartSweep, Sweep, Tick, vars

\* A bucket comes into use by being stored, by the request it is named for.
LEMMA UseGrows ==
    ASSUME TypeInv, BucketInv, [Next]_vars, NEW b \in Bucket, InUse(b)'
    PROVE  InUse(b) \/ Stored(b[1], b[2])'
<1> USE DEF TypeInv, TypeOK, InUse
<1>1. CASE UNCHANGED <<held, buckets, admitted>>
  BY <1>1
<1>2. ASSUME NEW r \in Request, LoadOrStore(r)
      PROVE  InUse(b) \/ Stored(b[1], b[2])'
  <2>1. <<r, key[r]>>[1] = r /\ <<r, key[r]>>[2] = key[r]
    OBVIOUS
  <2>2. Stored(r, key[r])'
    BY <1>2 DEF LoadOrStore, Stored
  <2>3. b = <<r, key[r]>> \/ InUse(b)
    BY <1>2 DEF LoadOrStore
  <2>4. UNCHANGED key
    BY <1>2 DEF LoadOrStore
  <2>5. b = <<r, key[r]>> => Stored(b[1], b[2])'
    BY <2>1, <2>2, <2>4 DEF Stored
  <2> QED BY <2>3, <2>5
<1>3. ASSUME NEW r \in Request, Take(r)
      PROVE  InUse(b)
  <2>1. \A q \in Request : held'[q] = b => held[q] = b
    BY <1>3, BucketAssumption DEF Take
  <2>2. UNCHANGED buckets
    BY <1>3 DEF Take
  <2>3. \A a \in admitted' \ admitted : a.bucket = held[r]
    BY <1>3 DEF Take
  <2> QED BY <2>1, <2>2, <2>3
<1>4. ASSUME NEW k \in LimitKey, Sweep(k)
      PROVE  InUse(b)
  <2>1. \A j \in LimitKey : buckets'[j] = b => buckets[j] = b
    BY <1>4, BucketAssumption DEF Sweep
  <2> QED BY <1>4, <2>1 DEF Sweep, requestVars
<1> QED BY <1>1, <1>2, <1>3, <1>4 DEF Next, Arrive, ReadClock, StartSweep, Tick, vars, requestVars

LEMMA BucketStep ==
    ASSUME TypeInv, BucketInv, [Next]_vars
    PROVE  BucketInv'
<1> USE DEF TypeInv, TypeOK
<1>1. \A k \in LimitKey : buckets'[k] # NoBucket => buckets'[k][2] = k
  <2>1. CASE UNCHANGED buckets
    BY <2>1 DEF BucketInv
  <2>2. ASSUME NEW r \in Request, LoadOrStore(r)
        PROVE  \A k \in LimitKey : buckets'[k] # NoBucket => buckets'[k][2] = k
    BY <2>2 DEF LoadOrStore, BucketInv
  <2>3. ASSUME NEW j \in LimitKey, Sweep(j)
        PROVE  \A k \in LimitKey : buckets'[k] # NoBucket => buckets'[k][2] = k
    BY <2>3 DEF Sweep, BucketInv
  <2> QED BY <2>1, <2>2, <2>3 DEF Next, Arrive, ReadClock, Take, StartSweep, Tick, vars
<1>2. ASSUME NEW b \in Bucket, InUse(b)'
      PROVE  Stored(b[1], b[2])'
  <2>1. b[1] \in Request /\ b[2] \in LimitKey
    BY BucketParts
  <2>2. InUse(b) => Stored(b[1], b[2])
    BY DEF BucketInv
  <2> QED BY <1>2, <2>1, <2>2, UseGrows, StoredStays
<1>3. ASSUME NEW a \in admitted'
      PROVE  /\ a.bucket[2] = a.key
             /\ a.epoch = lastReset'[a.bucket] \/ a.epoch + Window <= lastReset'[a.bucket]
  <2>1. a \in admitted =>
            /\ a.bucket \in Bucket /\ a.epoch \in 0..MaxClock /\ a.bucket[2] = a.key
            /\ a.epoch = lastReset[a.bucket] \/ a.epoch + Window <= lastReset[a.bucket]
    BY DEF BucketInv
  <2>2. CASE UNCHANGED <<admitted, lastReset>>
    BY <2>1, <2>2
  <2>3. ASSUME NEW r \in Request, Take(r)
        PROVE  /\ a.bucket[2] = a.key
               /\ a.epoch = lastReset'[a.bucket] \/ a.epoch + Window <= lastReset'[a.bucket]
    <3>1. PICK b \in Bucket, epoch \in 0..MaxClock, left \in Nat : Takes(r, b, epoch, left)
      BY <2>3, TakeEffects
    <3>2. CASE a \notin admitted
      BY <3>1, <3>2 DEF Takes
    <3>3. CASE a \in admitted /\ a.bucket # b
      BY <2>1, <3>1, <3>3 DEF Takes
    <3>4. CASE a \in admitted /\ a.bucket = b
      <4>1. lastReset'[b] = epoch /\ lastReset[b] \in Nat /\ epoch \in Nat /\ a.epoch \in Nat
        BY <2>1, <3>1, <3>4, RateAssumption DEF Takes
      <4>2. Window \in Nat
        BY RateAssumption
      <4> QED BY <2>1, <3>1, <3>4, <4>1, <4>2 DEF Takes
    <3> QED BY <3>2, <3>3, <3>4
  <2>4. ASSUME NEW r \in Request, LoadOrStore(r)
        PROVE  /\ a.bucket[2] = a.key
               /\ a.epoch = lastReset'[a.bucket] \/ a.epoch + Window <= lastReset'[a.bucket]
    <3>1. a \in admitted
      BY <2>4 DEF LoadOrStore
    <3>2. lastReset'[a.bucket] = lastReset[a.bucket]
      <4>1. phase[r] = "load"
        BY <2>4 DEF LoadOrStore
      <4>2. a.bucket # <<r, key[r]>>
        BY <3>1, <4>1, FreshBucket
      <4> QED BY <2>1, <2>4, <3>1, <4>2 DEF LoadOrStore, heapVars
    <3> QED BY <2>1, <3>1, <3>2
  <2> QED BY <2>2, <2>3, <2>4 DEF Next, Arrive, ReadClock, StartSweep, Sweep, Tick, vars, heapVars
<1> QED BY <1>1, <1>2, <1>3 DEF BucketInv

\* One admission more makes a count at most one larger.
LEMMA OneMore ==
    ASSUME NEW S, IsFiniteSet(S), NEW x, NEW T, T \subseteq S \cup {x}
    PROVE  IsFiniteSet(T) /\ Cardinality(T) \in Nat /\ Cardinality(S) \in Nat
           /\ Cardinality(T) <= Cardinality(S) + 1
<1>1. /\ IsFiniteSet(S \cup {x}) /\ Cardinality(S) \in Nat
      /\ Cardinality(S \cup {x}) \in {Cardinality(S), Cardinality(S) + 1}
  BY FS_AddElement, FS_CardinalityType
<1>2. IsFiniteSet(T) /\ Cardinality(T) <= Cardinality(S \cup {x}) /\ Cardinality(T) \in Nat
  BY <1>1, FS_Subset, FS_CardinalityType
<1> QED BY <1>1, <1>2

LEMMA CountTypes ==
    ASSUME BudgetInv, NEW b, NEW e
    PROVE  IsFiniteSet(TakenFrom(b, e)) /\ Cardinality(TakenFrom(b, e)) \in Nat
<1>1. TakenFrom(b, e) \subseteq admitted /\ IsFiniteSet(admitted)
  BY DEF TakenFrom, BudgetInv
<1> QED BY <1>1, FS_Subset, FS_CardinalityType

\* What is taken from a bucket and what is left in it do not exceed the rate: a token taken moves
\* from the one to the other, and a bucket is filled only for a window in which nothing was taken.
LEMMA TakeKeepsBudget ==
    ASSUME TypeInv, BucketInv, BudgetInv, NEW r \in Request, Take(r)
    PROVE  BudgetInv'
<1> USE DEF TypeInv, TypeOK
<1>1. PICK b \in Bucket, epoch \in 0..MaxClock, left \in Nat : Takes(r, b, epoch, left)
  BY TakeEffects
<1>2. /\ Rate(b[2]) \in Nat /\ Rate(b[2]) >= 1 /\ Window \in Nat \ {0} /\ MaxClock \in Nat
      /\ epoch \in Nat /\ lastReset[b] \in Nat /\ tokens[b] \in Nat
  BY RateTypes, RateAssumption, BucketParts
<1>3. /\ Cardinality(TakenFrom(b, lastReset[b])) + tokens[b] <= Rate(b[2])
      /\ \A c \in Bucket : \A e \in 0..MaxClock : Cardinality(TakenFrom(c, e)) <= Rate(c[2])
      /\ \A c \in Bucket : Cardinality(TakenFrom(c, lastReset[c])) + tokens[c] <= Rate(c[2])
  BY DEF BudgetInv
<1>4. lastReset'[b] = epoch /\ \A c \in Bucket \ {b} : lastReset'[c] = lastReset[c]
  BY <1>1 DEF Takes
<1>5. CASE left = 0 /\ UNCHANGED <<tokens, admitted>>
  <2>1. epoch = lastReset[b]
    BY <1>1, <1>2, <1>5 DEF Takes
  <2>2. UNCHANGED lastReset
    BY <1>1, <2>1 DEF Takes
  <2> QED BY <1>5, <2>2 DEF BudgetInv, TakenFrom
<1>6. CASE /\ left > 0 /\ tokens' = [tokens EXCEPT ![b] = left - 1]
           /\ admitted' = admitted \cup
                  {[by |-> r, key |-> key[r], epoch |-> epoch, bucket |-> b]}
  <2> DEFINE new == [by |-> r, key |-> key[r], epoch |-> epoch, bucket |-> b]
  <2>1. new.bucket = b /\ new.epoch = epoch /\ admitted' = admitted \cup {new}
    BY <1>6
  <2> HIDE DEF new
  <2>2. IsFiniteSet(admitted')
    BY <2>1, FS_AddElement DEF BudgetInv
  <2>3. ASSUME NEW c \in Bucket, NEW e, c # b \/ e # epoch
        PROVE  TakenFrom(c, e)' = TakenFrom(c, e)
    BY <2>1, <2>3 DEF TakenFrom
  <2>4. /\ IsFiniteSet(TakenFrom(b, epoch)) /\ Cardinality(TakenFrom(b, epoch)) \in Nat
        /\ TakenFrom(b, epoch)' \subseteq TakenFrom(b, epoch) \cup {new}
    <3>1. IsFiniteSet(TakenFrom(b, epoch)) /\ Cardinality(TakenFrom(b, epoch)) \in Nat
      BY CountTypes
    <3> QED BY <2>1, <3>1 DEF TakenFrom
  <2>5. /\ Cardinality(TakenFrom(b, epoch)') \in Nat
        /\ Cardinality(TakenFrom(b, epoch)') <= Cardinality(TakenFrom(b, epoch)) + 1
    BY <2>4, OneMore
  <2>6. Cardinality(TakenFrom(b, epoch)) + left <= Rate(b[2])
    <3>1. CASE epoch = lastReset[b] /\ left = tokens[b]
      BY <1>3, <3>1
    <3>2. CASE lastReset[b] + Window <= epoch /\ left = Rate(key[r])
      <4>1. \A a \in admitted : a.bucket = b => a.epoch # epoch
        <5> SUFFICES ASSUME NEW a \in admitted, a.bucket = b
                     PROVE  a.epoch # epoch
          OBVIOUS
        <5>1. a.epoch \in Nat
          BY RateAssumption
        <5>2. a.epoch = lastReset[b] \/ a.epoch + Window <= lastReset[b]
          BY DEF BucketInv
        <5> QED BY <1>2, <3>2, <5>1, <5>2
      <4>2. TakenFrom(b, epoch) = {}
        BY <4>1 DEF TakenFrom
      <4>3. Cardinality(TakenFrom(b, epoch)) = 0
        BY <4>2, FS_EmptySet
      <4> QED BY <1>1, <1>2, <3>2, <4>3 DEF Takes
    <3> QED BY <1>1, <3>1, <3>2 DEF Takes
  <2>7. tokens'[b] = left - 1 /\ \A c \in Bucket \ {b} : tokens'[c] = tokens[c]
    BY <1>6
  <2>8. Cardinality(TakenFrom(b, epoch)') + tokens'[b] <= Rate(b[2])
    BY <1>2, <1>6, <2>4, <2>5, <2>6, <2>7
  <2>9. Cardinality(TakenFrom(b, epoch)') <= Rate(b[2])
    BY <1>2, <1>6, <2>5, <2>7, <2>8
  <2>10. \A c \in Bucket : Cardinality(TakenFrom(c, lastReset[c])') + tokens'[c] <= Rate(c[2])
    <3>1. ASSUME NEW c \in Bucket \ {b}
          PROVE  Cardinality(TakenFrom(c, lastReset[c])') + tokens'[c] <= Rate(c[2])
      <4>1. TakenFrom(c, lastReset[c])' = TakenFrom(c, lastReset[c])
        BY <1>4, <2>1 DEF TakenFrom
      <4> QED BY <1>3, <2>7, <4>1
    <3>2. TakenFrom(b, lastReset[b])' = TakenFrom(b, epoch)'
      BY <1>4 DEF TakenFrom
    <3> QED BY <2>8, <3>1, <3>2
  <2>11. \A c \in Bucket : \A e \in 0..MaxClock : Cardinality(TakenFrom(c, e)') <= Rate(c[2])
    BY <1>3, <2>3, <2>9
  <2> QED BY <2>2, <2>10, <2>11 DEF BudgetInv, Rate
<1> QED BY <1>1, <1>5, <1>6 DEF Takes

LEMMA BudgetStep ==
    ASSUME TypeInv, BucketInv, BudgetInv, [Next]_vars
    PROVE  BudgetInv'
<1>1. CASE UNCHANGED <<tokens, lastReset, admitted>>
  BY <1>1 DEF BudgetInv, TakenFrom, Rate
<1>2. ASSUME NEW r \in Request, LoadOrStore(r)
      PROVE  BudgetInv'
  <2> DEFINE fresh == <<r, key[r]>>
  <2>1. /\ fresh \in Bucket /\ fresh[2] = key[r] /\ \A a \in admitted : a.bucket # fresh
    BY <1>2, FreshBucket DEF LoadOrStore
  <2>2. UNCHANGED admitted
    BY <1>2 DEF LoadOrStore
  <2>3. CASE UNCHANGED heapVars
    BY <1>1, <2>2, <2>3 DEF heapVars
  <2>4. CASE /\ tokens' = [tokens EXCEPT ![fresh] = Rate(key[r])]
             /\ lastReset' = [lastReset EXCEPT ![fresh] = now[r]]
    <3> HIDE DEF fresh
    <3>1. \A e : TakenFrom(fresh, e) = {}
      BY <2>1 DEF TakenFrom
    <3>2. /\ tokens'[fresh] = Rate(fresh[2]) /\ Rate(fresh[2]) \in Nat
          /\ \A c \in Bucket \ {fresh} : tokens'[c] = tokens[c] /\ lastReset'[c] = lastReset[c]
      BY <2>1, <2>4, RateTypes, BucketParts DEF TypeInv, TypeOK
    <3>3. Cardinality(TakenFrom(fresh, lastReset'[fresh])) + tokens'[fresh] <= Rate(fresh[2])
      BY <3>1, <3>2, FS_EmptySet
    <3>4. \A c \in Bucket : Cardinality(TakenFrom(c, lastReset'[c])) + tokens'[c] <= Rate(c[2])
      BY <3>2, <3>3 DEF BudgetInv
    <3> QED BY <2>2, <3>4 DEF BudgetInv, TakenFrom, Rate
  <2> QED BY <1>2, <2>3, <2>4 DEF LoadOrStore
<1>3. ASSUME NEW r \in Request, Take(r)
      PROVE  BudgetInv'
  BY <1>3, TakeKeepsBudget
<1> QED BY <1>1, <1>2, <1>3 DEF Next, Arrive, ReadClock, StartSweep, Sweep, Tick, vars, heapVars

(****************************************************************************)
(* LimitedUnlessOrphaned                                                    *)
(****************************************************************************)

\* The arithmetic of the windows.
LEMMA TimeTypes ==
    ASSUME TypeInv
    PROVE  /\ clock \in Nat /\ sweepNow \in Nat /\ Window \in Nat \ {0} /\ StaleAfter \in Nat
           /\ Window <= StaleAfter
           /\ \A r \in Request : now[r] \in Nat
           /\ \A b \in Bucket : lastReset[b] \in Nat
           /\ \A a \in admitted : a.epoch \in Nat /\ a.bucket \in Bucket /\ a.key \in LimitKey
BY RateAssumption DEF TypeInv, TypeOK

\* A request that stores the bucket of a key finds all the windows of the key passed.
LEMMA StoreKeepsOneBucket ==
    ASSUME TypeInv, BucketInv, NEW r \in Request, LoadOrStore(r), NEW k \in LimitKey, OneBucket(k)
    PROVE  OneBucket(k)'
<1> USE DEF TypeInv, TypeOK
<1> DEFINE fresh == <<r, key[r]>>
<1>1. /\ phase[r] = "load"
      /\ phase' = [phase EXCEPT ![r] = "take"]
      /\ UNCHANGED <<clock, key, now, admitted>>
  BY DEF LoadOrStore
<1>2. /\ fresh \in Bucket /\ fresh[2] = key[r]
      /\ \A a \in admitted : a.bucket # fresh
      /\ \A j \in LimitKey : buckets[j] # fresh
  BY <1>1, FreshBucket
<1>3. buckets[k] # NoBucket => buckets[k] \in Bucket /\ buckets[k][2] = k
  BY DEF BucketInv
<1> HIDE DEF fresh
<1>4. CASE buckets[key[r]] # NoBucket
  <2>1. held' = [held EXCEPT ![r] = buckets[key[r]]] /\ UNCHANGED <<buckets, lastReset>>
    BY <1>4 DEF LoadOrStore, heapVars
  <2> QED BY <1>1, <2>1 DEF OneBucket
<1>5. CASE buckets[key[r]] = NoBucket
  <2>1. /\ buckets' = [buckets EXCEPT ![key[r]] = fresh]
        /\ lastReset' = [lastReset EXCEPT ![fresh] = now[r]]
        /\ held' = [held EXCEPT ![r] = fresh]
    BY <1>5 DEF LoadOrStore, fresh
  <2>2. CASE key[r] # k
    <3>1. UNCHANGED <<buckets[k], lastReset[buckets[k]]>>
      BY <1>2, <2>1, <2>2
    <3>2. \A q \in Request : phase'[q] = "take" /\ key[q] = k => phase[q] = "take" /\ held'[q] = held[q]
      BY <1>1, <2>1, <2>2
    <3>3. \A q \in Request : phase'[q] = "load" => phase[q] = "load"
      BY <1>1
    <3> QED BY <1>1, <3>1, <3>2, <3>3 DEF OneBucket
  <2>3. CASE key[r] = k
    <3>1. \A q \in Request : phase[q] = "take" => key[q] # k
      BY <1>5, <2>3, BucketAssumption DEF OneBucket, CallInv
    <3>2. buckets'[k] = fresh /\ lastReset'[fresh] = now[r] /\ fresh # NoBucket
      BY <1>2, <2>1, <2>3, BucketAssumption
    <3>3. \A q \in Request : phase'[q] = "take" /\ key[q] = k => held'[q] = fresh
      BY <1>1, <2>1, <3>1
    <3>4. \A a \in admitted : a.key = k => a.epoch + Window <= now[r]
      BY <1>1, <1>5, <2>3 DEF OneBucket
    <3> QED BY <1>1, <3>2, <3>3, <3>4 DEF OneBucket
  <2> QED BY <2>2, <2>3
<1> QED BY <1>4, <1>5

\* A token is taken for the last window of the key's bucket, or for a new one after it.
LEMMA TakeKeepsOneBucket ==
    ASSUME TypeInv, BucketInv, NEW r \in Request, Take(r), NEW k \in LimitKey, OneBucket(k)
    PROVE  OneBucket(k)'
<1> USE DEF TypeInv, TypeOK
<1>1. PICK b \in Bucket, epoch \in 0..MaxClock, left \in Nat : Takes(r, b, epoch, left)
  BY TakeEffects
<1>2. UNCHANGED <<clock, now, buckets>> /\ phase[r] = "take"
  BY DEF Take
<1>3. buckets[k] # NoBucket => buckets[k] \in Bucket /\ buckets[k][2] = k
  BY DEF BucketInv
\* nobody gets to load or take by this step
<1>4. \A q \in Request : phase'[q] \in {"load", "take"} =>
          q # r /\ phase'[q] = phase[q] /\ key'[q] = key[q] /\ held'[q] = held[q]
  <2>1. phase'[r] \notin {"load", "take"}
    BY <1>1 DEF Takes, Admit
  <2> QED BY <2>1, OthersCall
<1> DEFINE new == [by |-> r, key |-> key[r], epoch |-> epoch, bucket |-> b]
<1>5. /\ new.key = key[r] /\ new.epoch = epoch /\ new.bucket = b
      /\ admitted' \subseteq admitted \cup {new}
      /\ lastReset' = [lastReset EXCEPT ![b] = epoch]
      /\ b = held[r] /\ b[2] = key[r]
      /\ epoch = lastReset[b] \/ lastReset[b] + Window <= epoch
  BY <1>1 DEF Takes
<1> HIDE DEF new
<1>6. CASE key[r] # k
  <2>1. buckets[k] # b \/ buckets[k] = NoBucket
    BY <1>3, <1>5, <1>6
  <2>2. lastReset'[buckets[k]] = lastReset[buckets[k]]
    BY <1>5, <2>1, BucketAssumption
  <2>3. \A a \in admitted' : a.key = k => a \in admitted
    BY <1>5, <1>6
  <2> QED BY <1>2, <1>4, <2>2, <2>3 DEF OneBucket
<1>7. CASE key[r] = k
  <2>1. buckets[k] = b /\ b # NoBucket
    BY <1>2, <1>5, <1>7, BucketAssumption DEF OneBucket
  <2>2. /\ lastReset'[b] = epoch /\ epoch \in Nat /\ lastReset[b] \in Nat /\ Window \in Nat \ {0}
    BY <1>5, TimeTypes, RateAssumption
  <2>3. ASSUME NEW a \in admitted, a.key = k
        PROVE  \/ a.bucket = b /\ a.epoch = epoch
               \/ a.epoch + Window <= epoch
    <3>1. a.epoch \in Nat
      BY TimeTypes
    <3>2. (a.bucket = b /\ a.epoch = lastReset[b]) \/ a.epoch + Window <= lastReset[b]
      BY <2>1, <2>3 DEF OneBucket
    <3> QED BY <1>5, <2>2, <3>1, <3>2
  <2>4. \A a \in admitted' : a.key = k => (a.bucket = b /\ a.epoch = epoch) \/ a.epoch + Window <= epoch
    BY <1>5, <2>3
  <2>5. ASSUME NEW a \in admitted', NEW c \in admitted', a.key = k, c.key = k
        PROVE  IF a.epoch = c.epoch THEN a.bucket = c.bucket
               ELSE a.epoch + Window <= c.epoch \/ c.epoch + Window <= a.epoch
    <3>1. CASE a \in admitted /\ c \in admitted
      BY <2>5, <3>1 DEF OneBucket
    <3>2. CASE a = new /\ c = new
      BY <3>2
    <3>3. CASE a \in admitted /\ c = new
      BY <1>5, <2>2, <2>3, <2>5, <3>3, TimeTypes
    <3>4. CASE a = new /\ c \in admitted
      BY <1>5, <2>2, <2>3, <2>5, <3>4, TimeTypes
    <3> QED BY <1>5, <3>1, <3>2, <3>3, <3>4
  <2>6. \A q \in Request : phase'[q] = "take" /\ key'[q] = k => held'[q] = buckets[k]
    BY <1>4 DEF OneBucket
  <2> QED BY <1>2, <2>1, <2>2, <2>4, <2>5, <2>6 DEF OneBucket
<1> QED BY <1>6, <1>7

\* A bucket that is swept from under nobody leaves its key without one for longer than a window.
LEMMA SweepKeepsOneBucket ==
    ASSUME TypeInv, BucketInv, sweepNow <= clock, NEW j \in LimitKey, Sweep(j),
           NEW k \in LimitKey \ orphaned', OneBucket(k)
    PROVE  OneBucket(k)'
<1> USE DEF TypeInv, TypeOK
<1>1. UNCHANGED <<phase, key, now, held, clock, lastReset, admitted>>
  BY DEF Sweep, requestVars, heapVars
<1>2. CASE buckets'[k] = buckets[k]
  BY <1>1, <1>2 DEF OneBucket
<1>3. CASE buckets'[k] # buckets[k]
  <2>1. /\ buckets[k] # NoBucket /\ buckets'[k] = NoBucket
        /\ sweepNow - lastReset[buckets[k]] > StaleAfter
        /\ ~ \E r \in Request : key[r] = k /\ phase[r] \in {"load", "take"}
    BY <1>3 DEF Sweep
  <2>2. lastReset[buckets[k]] + Window <= clock
    BY <2>1, TimeTypes
  <2>3. ASSUME NEW a \in admitted, a.key = k
        PROVE  a.epoch + Window <= clock
    <3>1. a.epoch = lastReset[buckets[k]] \/ a.epoch + Window <= lastReset[buckets[k]]
      BY <2>1, <2>3 DEF OneBucket
    <3> QED BY <2>1, <2>2, <3>1, TimeTypes
  <2> QED BY <1>1, <2>1, <2>3 DEF OneBucket
<1> QED BY <1>2, <1>3

LEMMA WindowStep ==
    ASSUME TypeInv, BucketInv, WindowInv, [Next]_vars
    PROVE  WindowInv'
<1> USE DEF TypeInv, TypeOK
<1>1. sweepNow' <= clock'
  <2>1. sweepNow <= clock
    BY DEF WindowInv
  <2>2. (UNCHANGED sweepNow \/ sweepNow' = clock) /\ clock' \in {clock, clock + 1}
    BY DEF Next, Arrive, ReadClock, LoadOrStore, Take, StartSweep, Sweep, Tick, vars, sweepVars
  <2> QED BY <2>1, <2>2, TimeTypes
<1>2. orphaned \subseteq orphaned'
  BY DEF Next, Arrive, ReadClock, LoadOrStore, Take, StartSweep, Sweep, Tick, vars
<1>3. ASSUME NEW k \in LimitKey \ orphaned'
      PROVE  OneBucket(k)'
  <2>1. OneBucket(k) /\ sweepNow <= clock
    BY <1>2 DEF WindowInv
  <2>2. ASSUME NEW r \in Request, Arrive(r)
        PROVE  OneBucket(k)'
    BY <2>1, <2>2 DEF Arrive, OneBucket, heapVars
  <2>3. ASSUME NEW r \in Request, ReadClock(r)
        PROVE  OneBucket(k)'
    BY <2>1, <2>3 DEF ReadClock, OneBucket, heapVars
  <2>4. ASSUME NEW r \in Request, LoadOrStore(r)
        PROVE  OneBucket(k)'
    BY <2>1, <2>4, StoreKeepsOneBucket
  <2>5. ASSUME NEW r \in Request, Take(r)
        PROVE  OneBucket(k)'
    BY <2>1, <2>5, TakeKeepsOneBucket
  <2>6. ASSUME NEW j \in LimitKey, Sweep(j)
        PROVE  OneBucket(k)'
    BY <2>1, <2>6, SweepKeepsOneBucket
  <2>7. CASE UNCHANGED <<requestVars, buckets, heapVars, admitted>> /\ clock' \in {clock, clock + 1}
    <3>1. \A a \in admitted : a.epoch + Window <= clock => a.epoch + Window <= clock'
      BY <2>7, TimeTypes
    <3> QED BY <2>1, <2>7, <3>1 DEF OneBucket, requestVars, heapVars
  <2> QED BY <2>2, <2>3, <2>4, <2>5, <2>6, <2>7 DEF Next, StartSweep, Tick, vars
<1> QED BY <1>1, <1>3 DEF WindowInv

(****************************************************************************)
(* The theorems                                                             *)
(****************************************************************************)

LimiterInv == TypeInv /\ BucketInv /\ BudgetInv /\ WindowInv

LEMMA LimiterInvInit == Init => LimiterInv
<1> SUFFICES ASSUME Init
             PROVE  LimiterInv
  OBVIOUS
<1>1. BucketInv
  BY BucketAssumption DEF Init, BucketInv, InUse
<1>2. BudgetInv
  <2>1. \A b, e : TakenFrom(b, e) = {}
    BY DEF Init, TakenFrom
  <2>2. \A b \in Bucket : Rate(b[2]) \in Nat /\ tokens[b] = 0
    BY RateTypes, BucketParts DEF Init
  <2>3. \A b \in Bucket : Rate(b[2]) >= 0
    BY <2>2
  <2>4. \A b, e : Cardinality(TakenFrom(b, e)) = 0
    BY <2>1, FS_EmptySet
  <2>5. IsFiniteSet(admitted)
    BY FS_EmptySet DEF Init
  <2> QED BY <2>2, <2>3, <2>4, <2>5 DEF BudgetInv
<1>3. WindowInv
  BY DEF Init, WindowInv, OneBucket
<1> QED BY <1>1, <1>2, <1>3, TypeInvInit DEF LimiterInv

LEMMA LimiterInvStep == LimiterInv /\ [Next]_vars => LimiterInv'
<1> SUFFICES ASSUME LimiterInv, [Next]_vars
             PROVE  LimiterInv'
  OBVIOUS
<1> USE DEF LimiterInv
<1>1. TypeInv'
  BY TypeStep, CallStep DEF TypeInv
<1> QED BY <1>1, BucketStep, BudgetStep, WindowStep

LEMMA LimiterInvHolds == Spec => []LimiterInv
BY LimiterInvInit, LimiterInvStep, PTL DEF Spec

\* Every variable of the limiter stays in its type: a request that locks a bucket holds one.
THEOREM LimiterTypeCorrect == Spec => []TypeOK
<1>1. LimiterInv => TypeOK
  BY DEF LimiterInv, TypeInv
<1> QED BY <1>1, LimiterInvHolds, PTL

\* Nobody passes without a token of his address and, if he names a public key, one of that.
THEOREM PassedPaidBothHolds == Spec => []PassedPaidBoth
<1>1. LimiterInv => PassedPaidBoth
  <2> SUFFICES ASSUME LimiterInv, NEW r \in Request, phase[r] = "passed"
               PROVE  Paid(r, IPOf[r]) /\ (KeyOf[r] # NoPubKey => Paid(r, KeyOf[r]))
    BY DEF PassedPaidBoth
  <2>1. /\ key[r] = IPOf[r] \/ (key[r] = KeyOf[r] /\ KeyOf[r] # NoPubKey /\ Paid(r, IPOf[r]))
        /\ Paid(r, key[r])
        /\ key[r] \in IP => KeyOf[r] = NoPubKey
    BY DEF LimiterInv, TypeInv, CallInv
  <2>2. IPOf[r] \in IP
    BY RateAssumption
  <2> QED BY <2>1, <2>2
<1> QED BY <1>1, LimiterInvHolds, PTL

\* No bucket gives out more in a window than its rate: the reset, the check and the decrement
\* are one critical section, and a bucket is named by nobody but the request that stored it.
THEOREM BucketBudgetHolds == Spec => []BucketBudget
<1>1. LimiterInv => BucketBudget
  BY DEF LimiterInv, BudgetInv, BucketBudget, TypeInv, TypeOK
<1> QED BY <1>1, LimiterInvHolds, PTL

\* A key whose bucket was never swept from under a request gets no more than its rate in a window,
\* and its windows do not overlap: however long requests linger between the clock, the map and
\* the lock, and however the sweep's clock lags behind.
THEOREM LimitedUnlessOrphanedHolds == Spec => []LimitedUnlessOrphaned
<1>1. LimiterInv => LimitedUnlessOrphaned
  <2> SUFFICES ASSUME LimiterInv, NEW k \in LimitKey \ orphaned
               PROVE  Limited(k)
    BY DEF LimitedUnlessOrphaned
  <2>1. OneBucket(k)
    BY DEF LimiterInv, WindowInv
  <2>2. ASSUME NEW a \in admitted, a.key = k
        PROVE  Cardinality(Admissions(k, a.epoch)) <= Rate(k)
    <3>1. a.bucket \in Bucket /\ a.bucket[2] = k /\ a.epoch \in 0..MaxClock
      BY <2>2 DEF LimiterInv, TypeInv, TypeOK, BucketInv
    <3>2. Admissions(k, a.epoch) \subseteq TakenFrom(a.bucket, a.epoch)
      BY <2>1, <2>2 DEF OneBucket, Admissions, TakenFrom
    <3>3. /\ IsFiniteSet(TakenFrom(a.bucket, a.epoch))
          /\ Cardinality(TakenFrom(a.bucket, a.epoch)) \in Nat
      BY CountTypes DEF LimiterInv
    <3>4. /\ Cardinality(Admissions(k, a.epoch)) <= Cardinality(TakenFrom(a.bucket, a.epoch))
          /\ Cardinality(Admissions(k, a.epoch)) \in Nat
      BY <3>2, <3>3, FS_Subset, FS_CardinalityType
    <3>5. Cardinality(TakenFrom(a.bucket, a.epoch)) <= Rate(k) /\ Rate(k) \in Nat
      BY <3>1, RateTypes DEF LimiterInv, BudgetInv
    <3> QED BY <3>3, <3>4, <3>5
  <2>3. ASSUME NEW a \in admitted, NEW c \in admitted, a.key = k, c.key = k, a.epoch < c.epoch
        PROVE  c.epoch >= a.epoch + Window
    <3>1. a.epoch + Window <= c.epoch \/ c.epoch + Window <= a.epoch
      BY <2>1, <2>3, TimeTypes DEF OneBucket, LimiterInv
    <3> QED BY <2>3, <3>1, TimeTypes DEF LimiterInv
  <2> QED BY <2>2, <2>3 DEF Limited, WindowsOf
<1> QED BY <1>1, LimiterInvHolds, PTL
=============================================================================

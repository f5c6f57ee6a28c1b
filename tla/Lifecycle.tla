----------------------------- MODULE Lifecycle -----------------------------
(****************************************************************************)
(* The life of a server's processes: main of cmd/api/main.go with the key   *)
(* file of internal/core/identity/identity.go.  A process starts in a       *)
(* container that is restarted unless it was stopped, connects to the       *)
(* database or goes on without, loads the server's key or makes one, pings  *)
(* its seeds and listens.  Normally one process uses a key file and a port; *)
(* nothing keeps an operator from starting another.                         *)
(****************************************************************************)
EXTENDS Integers

CONSTANTS
    Process,   \* the processes that use one key file and port
    Key,       \* key pairs
    NoKey,     \* no key file; a process without a key
    Torn,      \* a key file of the wrong size
    MaxFaults  \* bound of the model: crashes, failing calls, interrupts

ASSUME KeyAssumption == NoKey \notin Key \cup {Torn} /\ Torn \notin Key
ASSUME FaultAssumption == MaxFaults \in Nat

VARIABLES
    stage,     \* what each process does next
    key,       \* the key in its memory
    stopped,   \* the processes that were told to stop
    keyFile,   \* what is in the key file
    faults,
    served,    \* history: the keys the server has shown to others
    makers     \* history: the processes that have made a key file

vars == <<stage, key, stopped, keyFile, faults, served, makers>>

Stages == {"down", "stat", "create", "write", "load", "seed",
           "listen", "serving"}

TypeOK ==
    /\ stage \in [Process -> Stages]
    /\ key \in [Process -> Key \cup {NoKey}]
    /\ stopped \subseteq Process /\ makers \subseteq Process
    /\ keyFile \in Key \cup {NoKey, Torn}
    /\ faults \in 0..MaxFaults
    /\ served \subseteq Key

Init ==
    /\ stage = [p \in Process |-> "down"]
    /\ key = [p \in Process |-> NoKey]
    /\ stopped = {} /\ makers = {} /\ served = {}
    /\ keyFile = NoKey
    /\ faults = 0

Fault == faults < MaxFaults /\ faults' = faults + 1

Goto(p, s) == stage' = [stage EXCEPT ![p] = s]

\* The process ends, by log.Fatal or otherwise; what it had in memory is gone.
Exit(p) == Goto(p, "down") /\ key' = [key EXCEPT ![p] = NoKey]
History == <<served, makers>>

\* main up to the key. If the database does not answer in five seconds, or the migrations
\* fail, that is logged and the process goes on without: it listens all the same.
Start(p) ==
    /\ stage[p] = "down" /\ p \notin stopped
    /\ Goto(p, "stat")
    /\ UNCHANGED <<key, stopped, keyFile, faults, History>>

\* Mutant: the server makes a key whenever it starts.
StatNothing(p) ==
    /\ stage[p] = "stat"
    /\ Goto(p, "create")
    /\ UNCHANGED <<key, stopped, keyFile, faults, History>>

\* InitServerIdentity: is there a file? It may be out of reach.
Stat(p) ==
    /\ stage[p] = "stat"
    /\ \/ /\ Goto(p, IF keyFile = NoKey THEN "create" ELSE "load")
          /\ UNCHANGED <<key, faults>>
       \/ Fault /\ Exit(p)
    /\ UNCHANGED <<stopped, keyFile, History>>

\* os.WriteFile, to the creation of the file or the loss of what was in it: a new key has been
\* drawn. The file may not be writable.
Create(p) ==
    /\ stage[p] = "create"
    /\ \/ /\ \E k \in Key \ ({key[q] : q \in Process} \cup {keyFile} \cup served) :
                key' = [key EXCEPT ![p] = k]
          /\ Goto(p, "write") /\ keyFile' = Torn /\ makers' = makers \cup {p}
          /\ UNCHANGED faults
       \/ Fault /\ Exit(p) /\ UNCHANGED <<keyFile, makers>>
    /\ UNCHANGED <<stopped, served>>

\* os.WriteFile, to its end. The disk may be full.
Write(p) ==
    /\ stage[p] = "write"
    /\ \/ Goto(p, "seed") /\ keyFile' = key[p] /\ UNCHANGED <<key, faults>>
       \/ Fault /\ Exit(p) /\ UNCHANGED keyFile
    /\ UNCHANGED <<stopped, History>>

\* Mutant: the size is compared with that of a public key.
LoadNothing(p) ==
    /\ stage[p] = "load"
    /\ Exit(p)
    /\ UNCHANGED <<stopped, keyFile, faults, History>>

\* Mutant: the size is not looked at.
LoadAnySize(p) ==
    /\ stage[p] = "load"
    /\ Goto(p, "seed") /\ key' = [key EXCEPT ![p] = keyFile]
    /\ UNCHANGED <<stopped, keyFile, faults, History>>

\* LoadServerKeypair: a file of the wrong size ends the process, and so does a failing call.
Load(p) ==
    /\ stage[p] = "load"
    /\ \/ /\ keyFile \in Key /\ Goto(p, "seed")
          /\ key' = [key EXCEPT ![p] = keyFile] /\ UNCHANGED faults
       \/ keyFile \notin Key /\ Exit(p) /\ UNCHANGED faults
       \/ Fault /\ Exit(p)
    /\ UNCHANGED <<stopped, keyFile, History>>

\* The discovery service pings the seeds before the server listens. Without a database there
\* is no such service.
Seed(p) ==
    /\ stage[p] = "seed" /\ Goto(p, "listen")
    /\ UNCHANGED <<key, stopped, keyFile, faults, History>>

\* ListenAndServe; the port may be taken. A process that was told to stop may do so first.
Listen(p) ==
    /\ stage[p] = "listen"
    /\ \/ /\ \A q \in Process : stage[q] # "serving"
          /\ Goto(p, "serving") /\ served' = served \cup {key[p]} /\ UNCHANGED key
       \/ /\ p \in stopped \/ \E q \in Process : stage[q] = "serving"
          /\ Exit(p) /\ UNCHANGED served
    /\ UNCHANGED <<stopped, keyFile, faults, makers>>

\* SIGINT is noted at any time and looked at when the process serves.
Interrupt(p) ==
    /\ stage[p] # "down" /\ p \notin stopped /\ Fault
    /\ stopped' = stopped \cup {p}
    /\ UNCHANGED <<stage, key, keyFile, History>>

\* Shutdown waits five seconds for the handlers that run.
Shutdown(p) ==
    /\ stage[p] = "serving" /\ p \in stopped
    /\ Exit(p)
    /\ UNCHANGED <<stopped, keyFile, faults, History>>

\* Any other end.
Crash(p) ==
    /\ stage[p] # "down" /\ Fault /\ Exit(p)
    /\ UNCHANGED <<stopped, keyFile, History>>

\* The operator starts again what was stopped.
Resume(p) ==
    /\ stage[p] = "down" /\ p \in stopped
    /\ stopped' = stopped \ {p}
    /\ UNCHANGED <<stage, key, keyFile, faults, History>>

Run(p) == \/ Start(p) \/ Stat(p) \/ Create(p) \/ Write(p)
          \/ Load(p) \/ Seed(p) \/ Listen(p) \/ Shutdown(p)

Next == \/ \E p \in Process : Run(p) \/ Interrupt(p) \/ Crash(p) \/ Resume(p)

Spec == Init /\ [][Next]_vars

\* The container is restarted (docker-compose.yml:5), and every step of main returns:
\* connecting and pinging have timeouts.
FairSpec == Spec /\ \A p \in Process : WF_vars(Run(p))

OneMaker == \A p, q \in makers : p = q

\* Others know a server by its public key (/meta, the signed lists of peers, TRUSTED_PUBKEYS).
\* It never shows two: whatever crashes and restarts, at any step, every key it has shown is
\* the one in the file, unless two processes found no file at the same time and each made one.
OneIdentity == OneMaker => served \subseteq {keyFile}

\* Whatever crashes, with or without a database, the server comes to serve again and stays, or
\* all its processes have been stopped, or one of them ended while it made the key file: then
\* none starts any more (identity.go:35).
ServesInTheEnd ==
    \/ <>[](\E p \in Process : stage[p] = "serving")
    \/ <>[](stopped = Process)
    \/ <>[](keyFile = Torn)

\* Why OneIdentity: while there is one maker, it writes into a file nobody has read, and whoever
\* is past that holds what is in the file.
Keyed == {"seed", "listen", "serving"}
IdentityInv ==
    /\ TypeOK
    /\ keyFile = NoKey <=> makers = {}
    /\ \A p \in Process :
           /\ stage[p] = "create" => p \notin makers
           /\ stage[p] = "write" => p \in makers
           /\ stage[p] \in Keyed \cup {"write"} => key[p] \in Key
    /\ OneMaker =>
           /\ \A p \in Process : stage[p] = "write" => keyFile = Torn
           /\ \A p \in Process : stage[p] \in Keyed => key[p] = keyFile
           /\ served \subseteq {keyFile}
=============================================================================

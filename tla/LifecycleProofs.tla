--------------------------- MODULE LifecycleProofs ---------------------------
(****************************************************************************)
(* For any number of processes, crashes and failing calls: a server that    *)
(* one process at most has made a key for shows the one in its file.        *)
(****************************************************************************)
EXTENDS Lifecycle, TLAPS

LEMMA InitIdentity == Init => IdentityInv
<1>. SUFFICES ASSUME Init PROVE IdentityInv
  OBVIOUS
<1>1. TypeOK
  BY FaultAssumption DEF Init, TypeOK, Stages
<1>. QED
  BY <1>1 DEF Init, IdentityInv, OneMaker, Keyed

\* A step of a process keeps every variable in its type: what is shown is a key, because
\* nobody listens without one.
LEMMA TypeStep ==
    ASSUME IdentityInv, NEW p \in Process, Run(p) \/ Interrupt(p) \/ Crash(p) \/ Resume(p)
    PROVE  TypeOK'
<1>0. TypeOK /\ (stage[p] = "listen" => key[p] \in Key)
  BY DEF IdentityInv, Keyed
<1>. USE <1>0, FaultAssumption DEF TypeOK, Stages, Goto, Exit, Fault, History
<1>1. CASE Start(p) \/ Stat(p)
  BY <1>1 DEF Start, Stat
<1>2. CASE Create(p)
  BY <1>2 DEF Create
<1>3. CASE Write(p) \/ Load(p)
  BY <1>3 DEF Write, Load
<1>4. CASE Listen(p)
  BY <1>4 DEF Listen
<1>5. CASE Seed(p) \/ Shutdown(p) \/ Interrupt(p) \/ Crash(p) \/ Resume(p)
  BY <1>5 DEF Seed, Shutdown, Interrupt, Crash, Resume
<1>. QED
  BY <1>1, <1>2, <1>3, <1>4, <1>5 DEF Run

\* The steps that touch neither the file nor what was shown, and give no process a key.
LEMMA QuietStep ==
    ASSUME IdentityInv, TypeOK', NEW p \in Process,
           UNCHANGED <<keyFile, served, makers>>,
           \A q \in Process : q # p => stage'[q] = stage[q] /\ key'[q] = key[q],
           \/ stage'[p] \in {"down", "stat", "load"}
           \/ stage'[p] = "create" /\ makers = {}
           \/ stage'[p] = stage[p] /\ key'[p] = key[p]
           \/ stage[p] \in Keyed /\ stage'[p] \in Keyed /\ key'[p] = key[p]
    PROVE  IdentityInv'
BY KeyAssumption DEF IdentityInv, OneMaker, Keyed

\* The file is created: if there is a second maker, nothing is promised any more; the first
\* finds that nobody has a key yet.
LEMMA CreateStep ==
    ASSUME IdentityInv, TypeOK', NEW p \in Process, Create(p)
    PROVE  IdentityInv'
<1>1. CASE Fault /\ Exit(p) /\ UNCHANGED <<keyFile, makers>>
  <2>1. /\ stage'[p] = "down"
        /\ \A q \in Process : q # p => stage'[q] = stage[q] /\ key'[q] = key[q]
    BY <1>1 DEF IdentityInv, TypeOK, Exit, Goto
  <2>. QED
    BY <1>1, <2>1, QuietStep DEF Create
<1>2. CASE /\ \E k \in Key : key' = [key EXCEPT ![p] = k]
           /\ Goto(p, "write") /\ keyFile' = Torn /\ makers' = makers \cup {p}
  <2>1. /\ stage'[p] = "write" /\ key'[p] \in Key /\ served' = served
        /\ \A q \in Process : q # p => stage'[q] = stage[q] /\ key'[q] = key[q]
    BY <1>2 DEF IdentityInv, TypeOK, Create, Goto
  <2>2. OneMaker' => makers = {}
    BY <1>2 DEF IdentityInv, OneMaker, Create
  <2>3. makers = {} => /\ served = {}
                       /\ \A q \in Process : stage[q] \notin Keyed \cup {"write"}
    BY KeyAssumption DEF IdentityInv, TypeOK, OneMaker, Keyed
  <2>. QED
    BY <1>2, <2>1, <2>2, <2>3, KeyAssumption DEF IdentityInv, Keyed
<1>. QED
  BY <1>1, <1>2 DEF Create

\* Its content is written: the only maker is the only one who is past that.
LEMMA WriteStep ==
    ASSUME IdentityInv, TypeOK', NEW p \in Process, Write(p)
    PROVE  IdentityInv'
<1>1. CASE Fault /\ Exit(p) /\ UNCHANGED keyFile
  <2>1. /\ stage'[p] = "down"
        /\ \A q \in Process : q # p => stage'[q] = stage[q] /\ key'[q] = key[q]
    BY <1>1 DEF IdentityInv, TypeOK, Exit, Goto
  <2>. QED
    BY <1>1, <2>1, QuietStep DEF Write, History
<1>2. CASE Goto(p, "seed") /\ keyFile' = key[p] /\ UNCHANGED <<key, faults>>
  <2>1. /\ stage'[p] = "seed" /\ keyFile' = key'[p] /\ keyFile' \in Key
        /\ UNCHANGED <<served, makers>> /\ p \in makers
        /\ \A q \in Process : q # p => stage'[q] = stage[q] /\ key'[q] = key[q]
    BY <1>2 DEF IdentityInv, TypeOK, Write, Goto, History, Keyed
  <2>2. OneMaker => /\ served = {}
                    /\ \A q \in Process \ {p} : stage[q] \notin Keyed \cup {"write"}
    BY KeyAssumption DEF IdentityInv, TypeOK, OneMaker, Keyed, Write
  <2>. QED
    BY <2>1, <2>2, KeyAssumption DEF IdentityInv, OneMaker, Keyed
<1>. QED
  BY <1>1, <1>2 DEF Write

\* A file of the right size is read.
LEMMA LoadStep ==
    ASSUME IdentityInv, TypeOK', NEW p \in Process, Load(p)
    PROVE  IdentityInv'
<1>0. /\ UNCHANGED <<keyFile, served, makers>>
      /\ \A q \in Process : q # p => stage'[q] = stage[q] /\ key'[q] = key[q]
  BY DEF IdentityInv, TypeOK, Load, Goto, Exit, History
<1>1. CASE stage'[p] = "down"
  BY <1>0, <1>1, QuietStep
<1>2. CASE stage'[p] = "seed" /\ key'[p] = keyFile /\ keyFile \in Key
  BY <1>0, <1>2, KeyAssumption DEF IdentityInv, OneMaker, Keyed
<1>. QED
  BY <1>1, <1>2 DEF Load, Goto, Exit, IdentityInv, TypeOK

\* What is shown is what the process holds.
LEMMA ListenStep ==
    ASSUME IdentityInv, TypeOK', NEW p \in Process, Listen(p)
    PROVE  IdentityInv'
<1>0. /\ UNCHANGED <<keyFile, makers>> /\ stage[p] = "listen"
      /\ \A q \in Process : q # p => stage'[q] = stage[q] /\ key'[q] = key[q]
  BY DEF IdentityInv, TypeOK, Listen, Goto, Exit
<1>1. CASE stage'[p] = "down" /\ served' = served
  BY <1>0, <1>1, QuietStep
<1>2. CASE stage'[p] = "serving" /\ served' = served \cup {key[p]} /\ key' = key
  BY <1>0, <1>2 DEF IdentityInv, OneMaker, Keyed
<1>. QED
  BY <1>1, <1>2 DEF Listen, Goto, Exit, IdentityInv, TypeOK

LEMMA IdentityStep == ASSUME IdentityInv, [Next]_vars PROVE IdentityInv'
<1>1. CASE UNCHANGED vars
  BY <1>1 DEF vars, IdentityInv, TypeOK, OneMaker, Keyed
<1>2. ASSUME NEW p \in Process, Run(p) \/ Interrupt(p) \/ Crash(p) \/ Resume(p)
      PROVE  IdentityInv'
  <2>1. TypeOK'
    BY <1>2, TypeStep
  <2>2. CASE Create(p)
    BY <2>1, <2>2, CreateStep
  <2>3. CASE Write(p)
    BY <2>1, <2>3, WriteStep
  <2>4. CASE Load(p)
    BY <2>1, <2>4, LoadStep
  <2>5. CASE Listen(p)
    BY <2>1, <2>5, ListenStep
  <2>6. CASE Start(p) \/ Stat(p) \/ Seed(p) \/ Shutdown(p)
             \/ Interrupt(p) \/ Crash(p) \/ Resume(p)
    <3>1. /\ UNCHANGED <<keyFile, served, makers>>
          /\ \A q \in Process : q # p => stage'[q] = stage[q] /\ key'[q] = key[q]
      BY <2>6 DEF IdentityInv, TypeOK, Start, Stat, Seed, Shutdown, Interrupt, Crash, Resume,
                  Goto, Exit, History
    <3>2. \/ stage'[p] \in {"down", "stat", "load"}
          \/ stage'[p] = "create" /\ makers = {}
          \/ stage'[p] = stage[p] /\ key'[p] = key[p]
          \/ stage[p] \in Keyed /\ stage'[p] \in Keyed /\ key'[p] = key[p]
      BY <2>6 DEF IdentityInv, TypeOK, Start, Stat, Seed, Shutdown, Interrupt, Crash, Resume,
                  Goto, Exit, Keyed
    <3>. QED
      BY <2>1, <3>1, <3>2, QuietStep
  <2>. QED
    BY <1>2, <2>2, <2>3, <2>4, <2>5, <2>6 DEF Run
<1>. QED
  BY <1>1, <1>2 DEF Next

\* Whatever crashes, fails and restarts, and however many processes use the key file: every key
\* the server has shown is the one in the file, if at most one of them has made one.
THEOREM OneIdentityHolds == Spec => []OneIdentity
<1>1. IdentityInv => OneIdentity
  BY DEF IdentityInv, OneIdentity
<1>. QED
  BY <1>1, InitIdentity, IdentityStep, PTL DEF Spec

\* The variables of the processes stay in their types.
THEOREM LifecycleTypeCorrect == Spec => []TypeOK
<1>1. IdentityInv => TypeOK
  BY DEF IdentityInv
<1>. QED
  BY <1>1, InitIdentity, IdentityStep, PTL DEF Spec
=============================================================================

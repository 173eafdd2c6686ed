--------------------------- MODULE RandDrbg_proofs ---------------------------
(***************************************************************************)
(* Proofs about RandDrbg: whatever the threads, the intervals and the      *)
(* number of forks, nothing is generated from the seed of another process, *)
(* errors are repaired, and seeds spread to every thread.                  *)
(***************************************************************************)
EXTENDS RandDrbg, TLAPS

(***************************************************************************)
(* The inductive invariant, a DRBG and a call at a time.                   *)
(***************************************************************************)
\* A DRBG that takes itself to be at home in the process, and is ready, has been
\* seeded there.
AtHome(d) ==
  /\ d.fork_id <= pid
  /\ d.state = "READY" /\ d.fork_id = pid => d.seed.proc = pid

\* The master has been set up; it is ready or in error.
MasterOK(m) ==
  /\ m \in Drbg /\ m.state \in {"READY", "ERROR"}
  /\ m.state = "READY" => m.seed.n > 0
  /\ MasterInterval > 0 => m.gen <= MasterInterval + 1
  /\ AtHome(m)

\* A DRBG of a thread.
LocalOK(d) ==
  /\ d \in Drbg
  /\ SlaveInterval > 0 => d.gen <= SlaveInterval + 1
  /\ AtHome(d)

\* A call c about the DRBG d: entropy on its way is of this process, or else a
\* failure has been met; the DRBG that generates is ready and at home.
CallOK(c, d) ==
  /\ c \in Call
  /\ c.pc = "idle" => c = Idle
  /\ c.pc # "idle" => c.kind \in Kinds /\ ~c.bad
  /\ c.got.n > 0 => c.got.proc = pid
  /\ c.pc # "seed" => c.got.n = 0
  /\ c.pc = "seed" => c.met \/ c.got.n > 0
  /\ c.pc \in {"entropy", "seed"} => c.then # "none" /\ (c.then = "reseed" => d.fork_id = pid)
  /\ c.pc = "output" =>
       /\ d.state = "READY" /\ d.fork_id = pid
       /\ SlaveInterval > 0 => d.gen <= SlaveInterval

Safe ==
  /\ pid \in Procs /\ MasterOK(master)
  /\ drbg \in [Locals -> Drbg] /\ \A i \in Locals : LocalOK(drbg[i])
  /\ call \in [Threads -> Call] /\ \A t \in Threads : CallOK(call[t], Mine(t))

-----------------------------------------------------------------------------
(***************************************************************************)
(* The master.                                                             *)
(***************************************************************************)
\* The counter of a DRBG and the number of its seed.
InStep(d) == d.prop = d.seed.n + 1

\* The counter does not come round.
NoWrap == MaxSeeds < CounterMax

\* What a step of the master m may lead to: a failure is always noticed, seeds
\* only get newer, and the counter follows them.
Outcome(m, o) ==
  /\ MasterOK(o.drbg)
  /\ o.met \in BOOLEAN /\ (o.drbg.state # "READY" => o.met)
  /\ m.seed.n <= o.drbg.seed.n
  /\ NoWrap /\ InStep(m) => InStep(o.drbg)

\* reseed_prop_counter stays an unsigned int.
LEMMA NextCounterTyped ==
  ASSUME NEW c \in 0..CounterMax
  PROVE  NextCounter(c) \in 0..CounterMax
BY DrbgAssumption DEF NextCounter

\* Seeding a master, in whatever state: it is ready with a newer seed, of this
\* process, or it is in error.
LEMMA MasterSeededOutcome ==
  ASSUME pid \in Procs, NEW m \in Drbg, m.fork_id <= pid,
         MasterInterval > 0 => m.gen <= MasterInterval + 1,
         NEW o \in MasterSeeded(m)
  PROVE  /\ Outcome(m, o)
         /\ o.drbg.fork_id = m.fork_id
         /\ o.drbg.state = "READY" => o.drbg.seed.proc = pid /\ m.seed.n < o.drbg.seed.n
         /\ o.drbg.state = "READY" => o.drbg.gen = 1
<1>1. CASE o = [drbg |-> Seeding(m), met |-> TRUE]
  BY <1>1 DEF Outcome, MasterOK, AtHome, InStep, Seeding, Drbg
<1>2. ASSUME NEW n \in {m.seed.n + 1} \cap (1..MaxSeeds),
             o = [drbg |-> Seeded(m, NextCounter(m.prop), [proc |-> pid, n |-> n]), met |-> FALSE]
      PROVE  /\ Outcome(m, o)
             /\ o.drbg.fork_id = m.fork_id
             /\ o.drbg.state = "READY" => o.drbg.seed.proc = pid /\ m.seed.n < o.drbg.seed.n
             /\ o.drbg.state = "READY" => o.drbg.gen = 1
  <2> DEFINE d == Seeded(m, NextCounter(m.prop), [proc |-> pid, n |-> n])
  <2>1. NextCounter(m.prop) \in 0..CounterMax
    BY NextCounterTyped DEF Drbg
  <2>2. /\ d.state = "READY" /\ d.gen = 1 /\ d.fork_id = m.fork_id
        /\ d.seed = [proc |-> pid, n |-> n] /\ d.prop = NextCounter(m.prop)
    BY DEF Seeded, Drbg
  <2>3. n \in 1..MaxSeeds /\ n = m.seed.n + 1 /\ m.seed.n \in Nat
    BY DEF Drbg
  <2>4. d \in Drbg
    <3>1. [proc |-> pid, n |-> n] \in [proc : Procs, n : 0..MaxSeeds]
      BY <2>3, DrbgAssumption
    <3> QED BY <2>1, <3>1 DEF Seeded, Drbg
  <2>5. NoWrap /\ InStep(m) => InStep(d)
    <3>1. m.prop = n /\ MaxSeeds < CounterMax => NextCounter(m.prop) = n + 1
      BY <2>3, DrbgAssumption DEF NextCounter
    <3> QED BY <2>2, <2>3, <3>1 DEF InStep, NoWrap
  <2>6. MasterOK(d)
    BY <2>2, <2>3, <2>4, DrbgAssumption DEF MasterOK, AtHome
  <2>7. o.drbg = d /\ o.met = FALSE
    BY <1>2
  <2>8. d.seed.proc = pid /\ d.seed.n = n
    BY <2>2
  <2> HIDE DEF d
  <2>9. m.seed.n <= o.drbg.seed.n /\ m.seed.n < o.drbg.seed.n
    BY <2>3, <2>7, <2>8
  <2>10. Outcome(m, o)
    BY <2>2, <2>5, <2>6, <2>7, <2>9 DEF Outcome
  <2> QED BY <2>2, <2>7, <2>8, <2>9, <2>10
<1> QED BY <1>1, <1>2 DEF MasterSeeded

\* rand_drbg_restart before something is generated.
LEMMA RestartedOutcome ==
  ASSUME pid \in Procs, NEW m, MasterOK(m), NEW o \in Restarted(m)
  PROVE  Outcome(m, o)
<1>1. CASE m.state = "READY"
  <2>1. o = [drbg |-> m, met |-> FALSE]
    BY <1>1 DEF Restarted
  <2> QED BY <1>1, <2>1 DEF Outcome, MasterOK, Drbg
<1>2. CASE m.state # "READY"
  BY <1>2, MasterSeededOutcome DEF Restarted, MasterOK, AtHome
<1> QED BY <1>1, <1>2

\* The checks of the master: afterwards it is at home, within its interval and,
\* if prediction resistance was asked for, newly seeded.
LEMMA MasterReseedOutcome ==
  ASSUME pid \in Procs, NEW m, MasterOK(m), m.state = "READY",
         NEW pr \in BOOLEAN, NEW late \in BOOLEAN, NEW o \in MasterReseed(m, pr, late)
  PROVE  /\ Outcome(m, o) /\ o.drbg.fork_id = pid
         /\ o.drbg.state = "READY" => (MasterInterval > 0 => o.drbg.gen <= MasterInterval)
         /\ o.drbg.state = "READY" => (pr => m.seed.n < o.drbg.seed.n)
<1> DEFINE d == [m EXCEPT !.fork_id = pid]
<1>1. d \in Drbg /\ d.fork_id = pid /\ d.seed = m.seed /\ d.prop = m.prop /\ d.gen = m.gen /\ d.state = m.state
  BY DEF MasterOK, Drbg
<1>2. d.fork_id <= pid /\ (MasterInterval > 0 => d.gen <= MasterInterval + 1)
  BY <1>1 DEF MasterOK, Procs
<1>3. CASE m.fork_id # pid \/ (MasterInterval > 0 /\ m.gen > MasterInterval) \/ late \/ pr
  <2>1. o \in MasterSeeded(d)
    BY <1>3 DEF MasterReseed
  <2> HIDE DEF d
  <2>2. /\ Outcome(d, o) /\ o.drbg.fork_id = pid
        /\ o.drbg.state = "READY" => d.seed.n < o.drbg.seed.n /\ o.drbg.gen = 1
    BY <1>1, <1>2, <2>1, MasterSeededOutcome
  <2>3. Outcome(m, o)
    BY <1>1, <2>2 DEF Outcome, InStep
  <2> QED BY <1>1, <2>2, <2>3, DrbgAssumption
<1>4. CASE ~(m.fork_id # pid \/ (MasterInterval > 0 /\ m.gen > MasterInterval) \/ late \/ pr)
  <2>1. o = [drbg |-> d, met |-> FALSE]
    BY <1>4 DEF MasterReseed
  <2>2. MasterOK(d) /\ (InStep(m) => InStep(d))
    BY <1>1, <1>2, <1>4 DEF MasterOK, AtHome, InStep
  <2>3. m.gen \in Nat /\ m.seed.n \in Nat
    BY DEF MasterOK, Drbg
  <2> HIDE DEF d
  <2>4. o.drbg = d /\ o.met = FALSE
    BY <2>1
  <2>5. m.seed.n <= o.drbg.seed.n
    BY <1>1, <2>3, <2>4
  <2>6. Outcome(m, o)
    BY <1>1, <2>2, <2>4, <2>5 DEF Outcome
  <2>7. MasterInterval > 0 => o.drbg.gen <= MasterInterval
    BY <1>1, <1>4, <2>3, <2>4, DrbgAssumption
  <2> QED BY <1>1, <1>4, <2>4, <2>6, <2>7
<1> QED BY <1>3, <1>4

\* The generating itself.
LEMMA MasterGeneratedOutcome ==
  ASSUME pid \in Procs, NEW m, MasterOK(m), m.state = "READY",
         MasterInterval > 0 => m.gen <= MasterInterval, NEW o \in MasterGenerated(m)
  PROVE  Outcome(m, o) /\ o.drbg.fork_id = m.fork_id /\ o.drbg.seed = m.seed
<1>1. m \in Drbg /\ m.gen \in Nat /\ m.seed.n \in Nat
  BY DEF MasterOK, Drbg
<1>2. CASE o = [drbg |-> [m EXCEPT !.gen = @ + 1], met |-> FALSE]
  <2> DEFINE d == [m EXCEPT !.gen = @ + 1]
  <2>1. /\ d \in Drbg /\ d.gen = m.gen + 1 /\ d.state = m.state /\ d.seed = m.seed
        /\ d.fork_id = m.fork_id /\ d.prop = m.prop
    BY <1>1 DEF Drbg
  <2>2. o.drbg = d /\ o.met = FALSE
    BY <1>2
  <2> HIDE DEF d
  <2>3. MasterOK(d) /\ (InStep(m) => InStep(d))
    BY <1>1, <2>1, DrbgAssumption DEF MasterOK, AtHome, InStep
  <2>4. m.seed.n <= o.drbg.seed.n
    BY <1>1, <2>1, <2>2
  <2>5. Outcome(m, o)
    BY <2>1, <2>2, <2>3, <2>4 DEF Outcome
  <2> QED BY <2>1, <2>2, <2>5
<1>3. CASE o = [drbg |-> [m EXCEPT !.state = "ERROR"], met |-> TRUE]
  BY <1>1, <1>3 DEF Outcome, MasterOK, AtHome, InStep, Drbg
<1> QED BY <1>2, <1>3 DEF MasterGenerated

\* RAND_DRBG_generate of the master: what comes with entropy is a master at home, and
\* with prediction resistance one that is newly seeded.
LEMMA MasterGenerateOutcome ==
  ASSUME pid \in Procs, MasterOK(master), NEW pr \in BOOLEAN, NEW o \in MasterGenerate(pr)
  PROVE  /\ Outcome(master, o)
         /\ o.drbg.state = "READY" => o.drbg.fork_id = pid /\ (pr => master.seed.n < o.drbg.seed.n)
<1> DEFINE ready == Restarted(master)
           after(r) == IF r.drbg.state # "READY" THEN {r}
                       ELSE UNION {MasterReseed(r.drbg, pr, late) : late \in BOOLEAN}
           end(c) == IF c.drbg.state # "READY" THEN {c} ELSE MasterGenerated(c.drbg)
<1>1. PICK r \in ready : \E c \in after(r) : o \in end(c)
  BY DEF MasterGenerate
<1>2. PICK c \in after(r) : o \in end(c)
  BY <1>1
<1>3. Outcome(master, r)
  BY RestartedOutcome
<1>4. CASE r.drbg.state # "READY"
  <2>1. c = r /\ o = r
    BY <1>2, <1>4
  <2> QED BY <1>3, <1>4, <2>1
<1>5. CASE r.drbg.state = "READY"
  <2>1. PICK late \in BOOLEAN : c \in MasterReseed(r.drbg, pr, late)
    BY <1>5
  <2>2. MasterOK(r.drbg)
    BY <1>3 DEF Outcome
  <2>3. /\ Outcome(r.drbg, c) /\ c.drbg.fork_id = pid
        /\ c.drbg.state = "READY" => (MasterInterval > 0 => c.drbg.gen <= MasterInterval)
        /\ c.drbg.state = "READY" => (pr => r.drbg.seed.n < c.drbg.seed.n)
    BY <1>5, <2>1, <2>2, MasterReseedOutcome
  <2>4. master.seed.n \in Nat /\ r.drbg.seed.n \in Nat /\ c.drbg.seed.n \in Nat
    BY <1>3, <2>3 DEF Outcome, MasterOK, Drbg
  <2>5. Outcome(master, c) /\ (c.drbg.state = "READY" => (pr => master.seed.n < c.drbg.seed.n))
    BY <1>3, <2>3, <2>4 DEF Outcome
  <2>6. CASE c.drbg.state # "READY"
    BY <1>2, <2>5, <2>6
  <2>7. CASE c.drbg.state = "READY"
    <3>1. o \in MasterGenerated(c.drbg)
      BY <1>2, <2>7
    <3>2. MasterOK(c.drbg)
      BY <2>5 DEF Outcome
    <3>3. Outcome(c.drbg, o) /\ o.drbg.fork_id = pid /\ o.drbg.seed = c.drbg.seed
      BY <2>3, <2>7, <3>1, <3>2, MasterGeneratedOutcome
    <3>4. Outcome(master, o)
      BY <2>5, <3>3 DEF Outcome
    <3> QED BY <2>5, <2>7, <3>3, <3>4
  <2> QED BY <2>6, <2>7
<1> QED BY <1>4, <1>5

\* rand_drbg_restart, for whatever the application adds.
LEMMA MasterRestartOutcome ==
  ASSUME pid \in Procs, MasterOK(master), NEW input \in Inputs, NEW o \in MasterRestart(input)
  PROVE  Outcome(master, o)
<1>1. CASE input = "long"
  <2>1. o = [drbg |-> Seeding(master), met |-> TRUE]
    BY <1>1 DEF MasterRestart
  <2> QED BY <2>1 DEF Outcome, MasterOK, AtHome, InStep, Seeding, Drbg
<1>2. CASE input \in {"poll", "enough"}
  <2>1. o \in MasterSeeded(master)
    BY <1>2 DEF MasterRestart
  <2> QED BY <2>1, MasterSeededOutcome DEF MasterOK, AtHome
<1>3. CASE input \in {"some", "none"}
  <2>1. o \in Restarted(master)
    BY <1>3 DEF MasterRestart
  <2> QED BY <2>1, RestartedOutcome
<1> QED BY <1>1, <1>2, <1>3 DEF Inputs

-----------------------------------------------------------------------------
(***************************************************************************)
(* The threads.                                                            *)
(***************************************************************************)
\* A step in which the DRBG of one thread becomes d and its call c.
LEMMA SafeGo ==
  ASSUME Safe, NEW t \in Threads, NEW kind \in Kinds, NEW c, NEW d,
         LocalOK(d), CallOK(c, d), c.pc # "idle" => c.kind = kind,
         drbg' = [drbg EXCEPT ![<<t, kind>>] = d], call' = [call EXCEPT ![t] = c],
         pid' = pid, MasterOK(master)'
  PROVE  Safe'
<1>1. <<t, kind>> \in Locals /\ d \in Drbg /\ c \in Call
  BY DEF Locals, LocalOK, CallOK
<1>2. drbg' \in [Locals -> Drbg] /\ call' \in [Threads -> Call]
  BY <1>1 DEF Safe
<1>3. ASSUME NEW i \in Locals PROVE LocalOK(drbg[i])'
  <2>1. drbg'[i] = IF i = <<t, kind>> THEN d ELSE drbg[i]
    BY DEF Safe
  <2>2. LocalOK(drbg'[i])
    BY <2>1 DEF Safe
  <2> QED BY <2>2 DEF LocalOK, AtHome
<1>4. ASSUME NEW u \in Threads PROVE CallOK(call[u], Mine(u))'
  <2>1. CASE u = t
    <3>1. call'[u] = c
      BY <2>1 DEF Safe
    <3>2. c.pc # "idle" => drbg'[<<u, c.kind>>] = d
      BY <1>1, <2>1 DEF Safe
    <3>3. CallOK(c, drbg'[<<u, c.kind>>])
      BY <3>2 DEF CallOK
    <3> QED BY <3>1, <3>3 DEF CallOK, Mine
  <2>2. CASE u # t
    <3>1. call'[u] = call[u] /\ CallOK(call[u], Mine(u))
      BY <2>2 DEF Safe
    <3>2. call[u].pc # "idle" => <<u, call[u].kind>> \in Locals
      BY <3>1 DEF CallOK, Locals
    <3>3. call[u].pc # "idle" => drbg'[<<u, call[u].kind>>] = drbg[<<u, call[u].kind>>]
      BY <2>2, <3>2 DEF Safe
    <3>4. CallOK(call[u], drbg'[<<u, call[u].kind>>])
      BY <3>1, <3>3 DEF CallOK, Mine
    <3> QED BY <3>1, <3>4 DEF CallOK, Mine
  <2> QED BY <2>1, <2>2
<1> QED BY <1>2, <1>3, <1>4 DEF Safe

\* A DRBG of a thread after part of it has changed.
LEMMA SeedingLocal ==
  ASSUME NEW d, LocalOK(d)
  PROVE  LocalOK(Seeding(d)) /\ Seeding(d).fork_id = d.fork_id
BY DEF LocalOK, AtHome, Seeding, Drbg

\* A DRBG that has just been made, and one that is not there.
LEMMA NewLocal ==
  ASSUME pid \in Procs
  PROVE  LocalOK(Seeding(NewDrbg)) /\ LocalOK(NoDrbg)
<1>1. pid \in 0..MaxForks /\ 0 \in Procs
  BY DrbgAssumption DEF Procs
<1>2. NewDrbg \in Drbg /\ NoDrbg \in Drbg
  BY <1>1, DrbgAssumption DEF NewDrbg, NoDrbg, Drbg
<1> QED BY <1>1, <1>2, DrbgAssumption DEF LocalOK, AtHome, Seeding, NewDrbg, NoDrbg, Drbg

\* Between two calls.
LEMMA IdleCall ==
  ASSUME NEW d
  PROVE  CallOK(Idle, d)
<1>1. Idle \in Call
  BY DrbgAssumption DEF Idle, Call, Procs
<1> QED BY <1>1 DEF CallOK, Idle

\* A call that succeeds, or that has met a failure, leaves nothing behind.
LEMMA ReturnedIdle ==
  ASSUME NEW c, NEW ret, ret = TRUE \/ c.met = TRUE
  PROVE  Returned(c, ret) = Idle
<1>1. (~ret /\ ~c.met) = FALSE
  OBVIOUS
<1>2. [Idle EXCEPT !.bad = FALSE] = Idle
  BY IdleCall DEF CallOK, Idle, Call
<1> QED BY <1>1, <1>2 DEF Returned

\* A request begins; the first one makes the DRBG.
LEMMA BeginSafe ==
  ASSUME Safe, NEW t \in Threads, NEW kind \in Kinds, NEW pr \in BOOLEAN, Begin(t, kind, pr)
  PROVE  Safe'
<1> DEFINE e == drbg[<<t, kind>>]
           d == IF e.state = "NULL" THEN Seeding(NewDrbg) ELSE e
           b == [Idle EXCEPT !.kind = kind, !.pr = pr, !.start = master.seed.n]
           c == IF e.state = "NULL" THEN [b EXCEPT !.pc = "entropy", !.then = "setup"]
                                    ELSE [b EXCEPT !.pc = "generate"]
<1>1. /\ drbg' = [drbg EXCEPT ![<<t, kind>>] = d] /\ call' = [call EXCEPT ![t] = c]
      /\ pid' = pid /\ master' = master
  BY DEF Begin
<1>2. LocalOK(d)
  <2>1. <<t, kind>> \in Locals
    BY DEF Locals
  <2> QED BY <2>1, NewLocal DEF Safe
<1>3. b \in Call /\ c \in Call
  <2>1. master.seed.n \in 0..MaxSeeds
    BY DEF Safe, MasterOK, Drbg
  <2> QED BY <2>1, IdleCall DEF Call, CallOK
<1>4. /\ c.pc \in {"entropy", "generate"} /\ c.kind = kind /\ c.got.n = 0 /\ ~c.bad
      /\ c.pc = "entropy" => c.then = "setup"
  BY DEF Idle
<1>5. MasterOK(master)'
  BY <1>1 DEF Safe, MasterOK, AtHome
<1> HIDE DEF c, d
<1>6. CallOK(c, d)
  BY <1>3, <1>4 DEF CallOK
<1> QED BY <1>1, <1>2, <1>4, <1>5, <1>6, SafeGo

\* The application reseeds a DRBG.
LEMMA ReseedSafe ==
  ASSUME Safe, NEW t \in Threads, NEW kind \in Kinds, NEW pr \in BOOLEAN, Reseed(t, kind, pr)
  PROVE  Safe'
<1> DEFINE d == Seeding(drbg[<<t, kind>>])
           c == [Idle EXCEPT !.kind = kind, !.pr = pr, !.pc = "entropy",
                             !.then = "only", !.start = master.seed.n]
<1>1. /\ drbg' = [drbg EXCEPT ![<<t, kind>>] = d] /\ call' = [call EXCEPT ![t] = c]
      /\ pid' = pid /\ master' = master
  BY DEF Reseed
<1>2. LocalOK(d)
  BY SeedingLocal DEF Safe, Locals
<1>3. c \in Call
  <2>1. master.seed.n \in 0..MaxSeeds
    BY DEF Safe, MasterOK, Drbg
  <2> QED BY <2>1, IdleCall DEF Call, CallOK
<1>4. c.pc = "entropy" /\ c.kind = kind /\ c.got.n = 0 /\ ~c.bad /\ c.then = "only"
  BY DEF Idle
<1>5. MasterOK(master)'
  BY <1>1 DEF Safe, MasterOK, AtHome
<1> HIDE DEF c, d
<1>6. CallOK(c, d)
  BY <1>3, <1>4 DEF CallOK
<1> QED BY <1>1, <1>2, <1>4, <1>5, <1>6, SafeGo

\* What is known of the DRBG and the call of a thread that is in one.
LEMMA InCall ==
  ASSUME Safe, NEW t \in Threads, call[t].pc # "idle"
  PROVE  /\ call[t] \in Call /\ call[t].kind \in Kinds /\ CallOK(call[t], Mine(t))
         /\ LocalOK(Mine(t)) /\ Mine(t) \in Drbg
<1>1. call[t] \in Call /\ CallOK(call[t], Mine(t))
  BY DEF Safe
<1>2. call[t].kind \in Kinds
  BY <1>1 DEF CallOK
<1>3. <<t, call[t].kind>> \in Locals
  BY <1>2 DEF Locals
<1> QED BY <1>1, <1>2, <1>3 DEF Safe, Mine

\* The checks: a DRBG is not used before it is at home and within its interval.
LEMMA CheckSafe ==
  ASSUME Safe, NEW t \in Threads, Check(t)
  PROVE  Safe'
<1> DEFINE c == call[t]
           d == Mine(t)
           f == [d EXCEPT !.fork_id = pid]
<1>1. /\ c.pc = "generate" /\ c \in Call /\ c.kind \in Kinds /\ CallOK(c, d)
      /\ LocalOK(d) /\ d \in Drbg /\ master' = master
  BY InCall DEF Check
<1>2. MasterOK(master)' /\ pid' = pid
  BY <1>1 DEF Check, Go, Safe, MasterOK, AtHome
<1>3. CASE d.state # "READY"
  <2> DEFINE e == [c EXCEPT !.pc = "entropy", !.then = "restart"]
  <2>1. /\ drbg' = [drbg EXCEPT ![<<t, c.kind>>] = Seeding(d)]
        /\ call' = [call EXCEPT ![t] = e]
    BY <1>3 DEF Check, Go
  <2>2. e \in Call /\ e.pc = "entropy" /\ e.then = "restart" /\ e.kind = c.kind /\ e.got = c.got /\ e.bad = c.bad
    BY <1>1 DEF Call
  <2>3. c.got.n = 0 /\ ~c.bad
    BY <1>1 DEF CallOK
  <2> HIDE DEF e
  <2>4. CallOK(e, Seeding(d))
    BY <1>1, <2>2, <2>3 DEF CallOK
  <2>5. LocalOK(Seeding(d))
    BY <1>1, SeedingLocal
  <2> QED BY <1>1, <1>2, <2>1, <2>2, <2>4, <2>5, SafeGo
<1>4. CASE d.state = "READY"
  <2>1. PICK late \in BOOLEAN :
          IF ReseedRequired(d, c.pr, late)
          THEN Go(t, Seeding(f), [c EXCEPT !.pc = "entropy", !.then = "reseed"])
          ELSE Go(t, f, [c EXCEPT !.pc = "output"])
    BY <1>4 DEF Check
  <2>2. /\ f \in Drbg /\ f.fork_id = pid /\ f.state = d.state /\ f.gen = d.gen /\ f.seed = d.seed
        /\ d.gen \in Nat /\ pid <= pid
    BY <1>1 DEF Drbg, Safe, Procs
  <2>3. c.got.n = 0 /\ ~c.bad
    BY <1>1 DEF CallOK
  <2> HIDE DEF f
  <2>4. CASE ReseedRequired(d, c.pr, late)
    <3> DEFINE e == [c EXCEPT !.pc = "entropy", !.then = "reseed"]
    <3>1. /\ drbg' = [drbg EXCEPT ![<<t, c.kind>>] = Seeding(f)]
          /\ call' = [call EXCEPT ![t] = e]
      BY <2>1, <2>4 DEF Go
    <3>2. e \in Call /\ e.pc = "entropy" /\ e.then = "reseed" /\ e.kind = c.kind /\ e.got = c.got /\ e.bad = c.bad
      BY <1>1 DEF Call
    <3> HIDE DEF e
    <3>3. LocalOK(Seeding(f)) /\ Seeding(f).fork_id = pid
      BY <1>1, <2>2 DEF LocalOK, AtHome, Seeding, Drbg
    <3>4. CallOK(e, Seeding(f))
      BY <1>1, <2>3, <3>2, <3>3 DEF CallOK
    <3> QED BY <1>1, <1>2, <3>1, <3>2, <3>3, <3>4, SafeGo
  <2>5. CASE ~ReseedRequired(d, c.pr, late)
    <3> DEFINE e == [c EXCEPT !.pc = "output"]
    <3>1. drbg' = [drbg EXCEPT ![<<t, c.kind>>] = f] /\ call' = [call EXCEPT ![t] = e]
      BY <2>1, <2>5 DEF Go
    <3>2. e \in Call /\ e.pc = "output" /\ e.kind = c.kind /\ e.got = c.got /\ e.bad = c.bad
      BY <1>1 DEF Call
    <3> HIDE DEF e
    <3>3. d.fork_id = pid /\ (SlaveInterval > 0 => d.gen <= SlaveInterval)
      BY <2>2, <2>5, DrbgAssumption DEF ReseedRequired
    <3>4. LocalOK(f)
      BY <1>1, <2>2, <3>3 DEF LocalOK, AtHome
    <3>5. CallOK(e, f)
      BY <1>1, <1>4, <2>2, <2>3, <3>2, <3>3 DEF CallOK
    <3> QED BY <1>1, <1>2, <3>1, <3>2, <3>4, <3>5, SafeGo
  <2> QED BY <2>4, <2>5
<1> QED BY <1>3, <1>4

\* The entropy the master gives is of this process, or a failure has been met.
LEMMA GetEntropySafe ==
  ASSUME Safe, NEW t \in Threads, GetEntropy(t)
  PROVE  Safe'
<1> DEFINE c == call[t]
           d == Mine(t)
           pr == c.pr /\ c.then \in {"reseed", "only"}
<1>1. /\ c.pc = "entropy" /\ c \in Call /\ c.kind \in Kinds /\ CallOK(c, d)
      /\ LocalOK(d) /\ d \in Drbg
  BY InCall DEF GetEntropy
<1>2. pid' = pid
  BY DEF GetEntropy, Go
<1> DEFINE e(o) == [c EXCEPT !.pc = "seed", !.next = o.drbg.prop, !.met = @ \/ o.met,
                             !.got = IF o.drbg.state = "READY" THEN o.drbg.seed ELSE @]
<1>3. PICK o \in MasterGenerate(pr) :
        /\ master' = o.drbg
        /\ drbg' = [drbg EXCEPT ![<<t, c.kind>>] = d]
        /\ call' = [call EXCEPT ![t] = e(o)]
  BY DEF GetEntropy, Go
<1>4. pr \in BOOLEAN
  OBVIOUS
<1> HIDE DEF pr
<1>5. Outcome(master, o) /\ (o.drbg.state = "READY" => o.drbg.fork_id = pid)
  BY <1>4, MasterGenerateOutcome DEF Safe
<1>6. /\ MasterOK(o.drbg) /\ o.drbg \in Drbg /\ o.met \in BOOLEAN
      /\ o.drbg.state # "READY" => o.met
  BY <1>5 DEF Outcome, MasterOK
<1>7. MasterOK(master)'
  BY <1>2, <1>3, <1>6 DEF MasterOK, AtHome
<1>8. /\ e(o) \in Call /\ e(o).pc = "seed" /\ e(o).kind = c.kind /\ e(o).bad = c.bad /\ e(o).then = c.then
      /\ e(o).got = (IF o.drbg.state = "READY" THEN o.drbg.seed ELSE c.got)
      /\ e(o).met = (c.met \/ o.met)
  BY <1>1, <1>6 DEF Call, Drbg
<1>9. /\ c.got.n = 0 /\ ~c.bad /\ c.then # "none" /\ (c.then = "reseed" => d.fork_id = pid)
      /\ o.drbg.state = "READY" => o.drbg.seed.n > 0 /\ o.drbg.seed.proc = pid
  BY <1>1, <1>5, <1>6 DEF CallOK, MasterOK, AtHome
<1> HIDE DEF e
<1>10. CallOK(e(o), d)
  BY <1>1, <1>6, <1>8, <1>9 DEF CallOK
<1> QED BY <1>1, <1>2, <1>3, <1>7, <1>8, <1>10, SafeGo

\* The end of the seeding.
LEMMA SeedSafe ==
  ASSUME Safe, NEW t \in Threads, Seed(t)
  PROVE  Safe'
<1> DEFINE c == call[t]
           d == Mine(t)
           seeded == IF c.then \in {"setup", "restart"} THEN "generate" ELSE "output"
           over == [c EXCEPT !.got = Idle.got, !.next = 0]
           met == c.met \/ c.got.n > 0
<1>1. /\ c.pc = "seed" /\ c \in Call /\ c.kind \in Kinds /\ CallOK(c, d)
      /\ LocalOK(d) /\ d \in Drbg
  BY InCall DEF Seed
<1>2. MasterOK(master)' /\ pid' = pid
  BY DEF Seed, Go, Safe, MasterOK, AtHome
<1>3. met = TRUE
  BY <1>1 DEF CallOK
<1>4. /\ over \in Call /\ over.pc = "seed" /\ over.kind = c.kind /\ over.got.n = 0 /\ over.bad = c.bad
      /\ over.then = c.then
  BY <1>1, IdleCall, DrbgAssumption DEF CallOK, Idle, Call
<1>5. CASE /\ c.got.n > 0
           /\ Go(t, ChildSeeded(d, c),
                 IF c.then = "only" THEN Returned(c, TRUE) ELSE [over EXCEPT !.pc = seeded, !.then = "none"])
  <2> DEFINE g == ChildSeeded(d, c)
  <2>1. /\ g \in Drbg /\ g.state = "READY" /\ g.fork_id = d.fork_id /\ g.gen = 1
        /\ g.seed.proc = pid
    BY <1>1, <1>5 DEF ChildSeeded, Seeded, Drbg, Call, CallOK
  <2> HIDE DEF g
  <2>2. LocalOK(g)
    BY <1>1, <2>1, DrbgAssumption DEF LocalOK, AtHome
  <2>3. CASE c.then = "only"
    <3>1. /\ drbg' = [drbg EXCEPT ![<<t, c.kind>>] = g]
          /\ call' = [call EXCEPT ![t] = Returned(c, TRUE)]
      BY <1>5, <2>3 DEF Go, g
    <3>2. Returned(c, TRUE) = Idle
      BY ReturnedIdle
    <3> QED BY <1>1, <1>2, <2>2, <3>1, <3>2, IdleCall, SafeGo DEF Idle
  <2>4. CASE c.then # "only"
    <3> DEFINE e == [over EXCEPT !.pc = seeded, !.then = "none"]
    <3>1. drbg' = [drbg EXCEPT ![<<t, c.kind>>] = g] /\ call' = [call EXCEPT ![t] = e]
      BY <1>5, <2>4 DEF Go, g
    <3>2. /\ e \in Call /\ e.pc = seeded /\ e.kind = c.kind /\ e.got.n = 0 /\ e.bad = c.bad
      BY <1>4 DEF Call
    <3>3. seeded = "output" => c.then = "reseed"
      BY <1>1, <2>4 DEF Call, CallOK
    <3>4. ~c.bad /\ (seeded = "output" => d.fork_id = pid)
      BY <1>1, <3>3 DEF CallOK
    <3> HIDE DEF e
    <3>5. CallOK(e, g)
      BY <1>1, <2>1, <3>2, <3>4, DrbgAssumption DEF CallOK
    <3> QED BY <1>1, <1>2, <2>2, <3>1, <3>2, <3>5, SafeGo
  <2> QED BY <2>3, <2>4
<1>6. CASE Go(t, d, IF c.then = "setup" THEN [over EXCEPT !.pc = "generate", !.met = met]
                    ELSE Returned([c EXCEPT !.met = met], FALSE))
  <2>1. CASE c.then = "setup"
    <3> DEFINE e == [over EXCEPT !.pc = "generate", !.met = met]
    <3>1. drbg' = [drbg EXCEPT ![<<t, c.kind>>] = d] /\ call' = [call EXCEPT ![t] = e]
      BY <1>6, <2>1 DEF Go
    <3>2. /\ e \in Call /\ e.pc = "generate" /\ e.kind = c.kind /\ e.got.n = 0 /\ e.bad = c.bad
      BY <1>4, <1>3 DEF Call
    <3>3. ~c.bad
      BY <1>1 DEF CallOK
    <3> HIDE DEF e
    <3>4. CallOK(e, d)
      BY <1>1, <3>2, <3>3 DEF CallOK
    <3> QED BY <1>1, <1>2, <3>1, <3>2, <3>4, SafeGo
  <2>2. CASE c.then # "setup"
    <3> DEFINE e == Returned([c EXCEPT !.met = met], FALSE)
    <3>1. drbg' = [drbg EXCEPT ![<<t, c.kind>>] = d] /\ call' = [call EXCEPT ![t] = e]
      BY <1>6, <2>2 DEF Go
    <3>2. [c EXCEPT !.met = met].met = TRUE
      BY <1>1, <1>3 DEF Call
    <3>3. e = Idle
      BY <3>2, ReturnedIdle
    <3> QED BY <1>1, <1>2, <3>1, <3>3, IdleCall, SafeGo DEF Idle
  <2> QED BY <2>1, <2>2
<1> QED BY <1>5, <1>6 DEF Seed

\* The DRBG generates, or fails.
LEMMA OutputSafe ==
  ASSUME Safe, NEW t \in Threads, Output(t)
  PROVE  Safe'
<1> DEFINE c == call[t]
           m == Mine(t)
           d == [m EXCEPT !.gen = @ + 1]
<1>1. /\ c.pc = "output" /\ c \in Call /\ c.kind \in Kinds /\ CallOK(c, m)
      /\ LocalOK(m) /\ m \in Drbg
  BY InCall DEF Output
<1>2. MasterOK(master)' /\ pid' = pid /\ master' = master
  BY DEF Output, Go, Safe, MasterOK, AtHome
<1>3. LocalOK(d)
  <2>1. /\ d \in Drbg /\ d.gen = m.gen + 1 /\ m.gen \in Nat /\ d.fork_id = m.fork_id
        /\ d.state = m.state /\ d.seed = m.seed
    BY <1>1 DEF Drbg
  <2>2. SlaveInterval > 0 => m.gen <= SlaveInterval
    BY <1>1 DEF CallOK
  <2> QED BY <1>1, <2>1, <2>2, DrbgAssumption DEF LocalOK, AtHome
<1>4. CASE Go(t, d, Returned(c, TRUE))
  <2>1. Returned(c, TRUE) = Idle
    BY ReturnedIdle
  <2>2. drbg' = [drbg EXCEPT ![<<t, c.kind>>] = d] /\ call' = [call EXCEPT ![t] = Idle]
    BY <1>4, <2>1 DEF Go
  <2> HIDE DEF d
  <2> QED BY <1>1, <1>2, <1>3, <2>2, IdleCall, SafeGo DEF Idle
<1>5. CASE Go(t, d, [c EXCEPT !.pc = "generate", !.start = master.seed.n])
  <2> DEFINE e == [c EXCEPT !.pc = "generate", !.start = master.seed.n]
  <2>1. drbg' = [drbg EXCEPT ![<<t, c.kind>>] = d] /\ call' = [call EXCEPT ![t] = e]
    BY <1>5 DEF Go
  <2>2. master.seed.n \in 0..MaxSeeds
    BY DEF Safe, MasterOK, Drbg
  <2>3. e \in Call /\ e.pc = "generate" /\ e.kind = c.kind /\ e.got = c.got /\ e.bad = c.bad
    BY <1>1, <2>2 DEF Call
  <2>4. c.got.n = 0 /\ ~c.bad
    BY <1>1 DEF CallOK
  <2> HIDE DEF d, e
  <2>5. CallOK(e, d)
    BY <1>1, <2>3, <2>4 DEF CallOK
  <2> QED BY <1>1, <1>2, <1>3, <2>1, <2>3, <2>5, SafeGo
<1>6. CASE Go(t, [m EXCEPT !.state = "ERROR"], Returned([c EXCEPT !.met = TRUE], FALSE))
  <2>1. [c EXCEPT !.met = TRUE].met = TRUE
    BY <1>1 DEF Call
  <2>2. Returned([c EXCEPT !.met = TRUE], FALSE) = Idle
    BY <2>1, ReturnedIdle
  <2>3. /\ drbg' = [drbg EXCEPT ![<<t, c.kind>>] = Seeding(m)]
        /\ call' = [call EXCEPT ![t] = Idle]
    BY <1>6, <2>2 DEF Go, Seeding
  <2> QED BY <1>1, <1>2, <2>3, IdleCall, SeedingLocal, SafeGo DEF Idle
<1> QED BY <1>4, <1>5, <1>6 DEF Output

\* A reseeding that is refused changes nothing.
LEMMA ReseedRefusedStutters ==
  ASSUME Safe, NEW t \in Threads, NEW kind \in Kinds, ReseedRefused(t, kind)
  PROVE  UNCHANGED vars
<1>1. call[t] = Idle
  BY DEF ReseedRefused, Safe, CallOK
<1>2. call' = call
  BY <1>1 DEF ReseedRefused, Safe
<1> QED BY <1>2 DEF ReseedRefused, vars

\* The application gives up the state of a DRBG.
LEMMA UninstantiateSafe ==
  ASSUME Safe, NEW t \in Threads, NEW kind \in Kinds, Uninstantiate(t, kind)
  PROVE  Safe'
<1> DEFINE d == [drbg[<<t, kind>>] EXCEPT !.state = "UNINITIALISED"]
<1>1. <<t, kind>> \in Locals
  BY DEF Locals
<1>2. drbg[<<t, kind>>] \in Drbg /\ LocalOK(drbg[<<t, kind>>])
  BY <1>1 DEF Safe
<1>3. call[t] = Idle /\ pid' = pid /\ master' = master /\ call' = call
  BY DEF Uninstantiate, Safe, CallOK
<1>4. drbg' = [drbg EXCEPT ![<<t, kind>>] = d] /\ call' = [call EXCEPT ![t] = Idle]
  BY <1>1, <1>3 DEF Uninstantiate, Safe
<1>5. LocalOK(d)
  BY <1>2 DEF LocalOK, AtHome, Drbg
<1>6. MasterOK(master)'
  BY <1>3 DEF Safe, MasterOK, AtHome
<1> QED BY <1>3, <1>4, <1>5, <1>6, IdleCall, SafeGo DEF Idle

\* Threads that are over, or are not there after a fork.
LEMMA StopThreadSafe ==
  ASSUME Safe, NEW t \in Threads, StopThread(t)
  PROVE  Safe'
<1>1. /\ drbg' = [i \in Locals |-> IF i[1] = t THEN NoDrbg ELSE drbg[i]]
      /\ call' = [call EXCEPT ![t] = Idle] /\ pid' = pid /\ master' = master
  BY DEF StopThread
<1>2. MasterOK(master)'
  BY <1>1 DEF Safe, MasterOK, AtHome
<1>3. NoDrbg \in Drbg /\ LocalOK(NoDrbg) /\ Idle \in Call
  BY NewLocal, IdleCall DEF Safe, LocalOK, CallOK
<1>4. drbg' \in [Locals -> Drbg] /\ call' \in [Threads -> Call]
  BY <1>1, <1>3 DEF Safe
<1>5. ASSUME NEW i \in Locals PROVE LocalOK(drbg[i])'
  <2>1. LocalOK(drbg'[i])
    BY <1>1, <1>3 DEF Safe
  <2> QED BY <1>1, <2>1 DEF LocalOK, AtHome
<1>6. ASSUME NEW u \in Threads PROVE CallOK(call[u], Mine(u))'
  <2>1. CASE u = t
    <3>1. call'[u] = Idle /\ CallOK(Idle, drbg'[<<u, Idle.kind>>])
      BY <1>1, <2>1, IdleCall DEF Safe
    <3> QED BY <1>1, <3>1 DEF CallOK, Mine
  <2>2. CASE u # t
    <3>1. call'[u] = call[u] /\ CallOK(call[u], Mine(u))
      BY <1>1, <2>2 DEF Safe
    <3>2. call[u].pc # "idle" => <<u, call[u].kind>> \in Locals /\ <<u, call[u].kind>>[1] # t
      BY <2>2, <3>1 DEF CallOK, Locals
    <3>3. call[u].pc # "idle" => drbg'[<<u, call[u].kind>>] = drbg[<<u, call[u].kind>>]
      BY <1>1, <3>2
    <3>4. CallOK(call[u], drbg'[<<u, call[u].kind>>])
      BY <3>1, <3>3 DEF CallOK, Mine
    <3> QED BY <1>1, <3>1, <3>4 DEF CallOK, Mine
  <2> QED BY <2>1, <2>2
<1> QED BY <1>1, <1>2, <1>4, <1>5, <1>6 DEF Safe

\* In the new process no DRBG is at home.
LEMMA ForkSafeStep ==
  ASSUME Safe, NEW t \in Threads, Fork(t)
  PROVE  Safe'
<1>1. /\ drbg' = [i \in Locals |-> IF i[1] = t THEN drbg[i] ELSE NoDrbg]
      /\ call' = [u \in Threads |-> IF u = t THEN call[u] ELSE Idle]
      /\ pid' = pid + 1 /\ master' = master /\ pid < MaxForks /\ call[t].pc = "idle"
  BY DEF Fork
<1>2. pid \in Nat /\ pid' \in Procs /\ pid' > pid
  BY <1>1, DrbgAssumption DEF Safe, Procs
<1>3. MasterOK(master)'
  <2>1. master.fork_id \in Nat /\ master.fork_id <= pid
    BY DEF Safe, MasterOK, AtHome, Drbg, Procs
  <2>2. master.fork_id < pid'
    BY <1>1, <1>2, <2>1
  <2> QED BY <1>1, <1>2, <2>1, <2>2 DEF Safe, MasterOK, AtHome
<1>4. NoDrbg \in Drbg /\ LocalOK(NoDrbg) /\ Idle \in Call
  BY NewLocal, IdleCall DEF Safe, LocalOK, CallOK
<1>5. drbg' \in [Locals -> Drbg]
  BY <1>1, <1>4 DEF Safe
<1>6. ASSUME NEW i \in Locals PROVE LocalOK(drbg[i])'
  <2>1. drbg'[i] \in Drbg /\ LocalOK(drbg'[i])
    BY <1>1, <1>4 DEF Safe
  <2>2. drbg'[i].fork_id \in Nat /\ drbg'[i].fork_id <= pid
    BY <2>1 DEF LocalOK, AtHome, Drbg, Procs
  <2>3. drbg'[i].fork_id <= pid' /\ drbg'[i].fork_id # pid'
    BY <1>1, <1>2, <2>2
  <2> QED BY <1>2, <2>1, <2>2, <2>3 DEF LocalOK, AtHome
<1>7. call' = [u \in Threads |-> Idle]
  BY <1>1 DEF Safe, CallOK
<1>8. ASSUME NEW u \in Threads PROVE CallOK(call[u], Mine(u))'
  <2>1. call'[u] = Idle
    BY <1>7
  <2> QED BY <1>4, <2>1 DEF CallOK, Mine, Idle
<1> QED BY <1>2, <1>3, <1>4, <1>5, <1>6, <1>7, <1>8 DEF Safe

\* What the application does to the master is no concern of the threads.
LEMMA RandAddSafe ==
  ASSUME Safe, NEW input \in Inputs, RandAdd(input)
  PROVE  Safe'
<1>1. PICK o \in MasterRestart(input) : master' = o.drbg
  BY DEF RandAdd
<1>2. pid' = pid /\ drbg' = drbg /\ call' = call
  BY DEF RandAdd
<1>3. MasterOK(o.drbg)
  BY MasterRestartOutcome DEF Safe, Outcome
<1> QED BY <1>1, <1>2, <1>3 DEF Safe, MasterOK, LocalOK, CallOK, AtHome, Mine

\* The invariant holds when the library is first used.
LEMMA SafeInit ==
  ASSUME Init
  PROVE  Safe
<1>1. pid = 0 /\ pid \in Procs
  BY DrbgAssumption DEF Init, Procs
<1>2. PICK o \in MasterSeeded(NewDrbg) : master = o.drbg
  BY DEF Init
<1>3. NewDrbg \in Drbg /\ NewDrbg.fork_id = pid /\ NewDrbg.gen = 0
  BY <1>1, DrbgAssumption DEF NewDrbg, Drbg
<1>4. NewDrbg.fork_id <= pid /\ (MasterInterval > 0 => NewDrbg.gen <= MasterInterval + 1)
  BY <1>1, <1>3, DrbgAssumption
<1>5. MasterOK(master)
  BY <1>1, <1>2, <1>3, <1>4, MasterSeededOutcome DEF Outcome
<1>6. NoDrbg \in Drbg /\ LocalOK(NoDrbg) /\ Idle \in Call
  BY <1>1, NewLocal, IdleCall DEF LocalOK, CallOK
<1>7. \A t \in Threads : CallOK(call[t], Mine(t))
  BY IdleCall DEF Init
<1> QED BY <1>1, <1>5, <1>6, <1>7 DEF Init, Safe

\* Every step keeps it.
LEMMA SafeStep ==
  ASSUME Safe, [Next]_vars
  PROVE  Safe'
<1>1. CASE UNCHANGED vars
  BY <1>1 DEF vars, Safe, MasterOK, LocalOK, CallOK, AtHome, Mine
<1>2. ASSUME NEW t \in Threads, ThreadStep(t)
      PROVE  Safe'
  <2>1. ASSUME NEW kind \in Kinds, ReseedRefused(t, kind)
        PROVE  Safe'
    <3>1. UNCHANGED vars
      BY <2>1, ReseedRefusedStutters
    <3> QED BY <1>1, <3>1
  <2> QED BY <1>2, <2>1, BeginSafe, ReseedSafe, UninstantiateSafe, CheckSafe, GetEntropySafe,
             SeedSafe, OutputSafe, StopThreadSafe, ForkSafeStep DEF ThreadStep
<1> QED BY <1>1, <1>2, RandAddSafe DEF Next

\* Type correctness; the requests between two seedings stay within the intervals.
THEOREM DrbgTypeCorrect == Spec => []TypeOK
<1>1. Safe => TypeOK
  BY DEF Safe, MasterOK, LocalOK, TypeOK
<1> QED BY <1>1, SafeInit, SafeStep, PTL DEF Spec

\* Whatever the fork finds, nothing is generated from a seed of another process.
THEOREM ForksAreSafe == Spec => []ForkSafe
<1>1. Safe => ForkSafe
  <2> SUFFICES ASSUME Safe, NEW t \in Threads, call[t].pc = "output"
               PROVE  Mine(t).state = "READY" /\ Mine(t).seed.proc = pid
    BY DEF ForkSafe, Outputs
  <2> QED BY InCall DEF CallOK, LocalOK, AtHome
<1> QED BY <1>1, SafeInit, SafeStep, PTL DEF Spec

\* A request fails only if the system fails while it is served.
THEOREM ErrorsRepaired == Spec => []Recovers
<1>1. Safe => Recovers
  BY DEF Safe, Recovers, CallOK, Idle
<1> QED BY <1>1, SafeInit, SafeStep, PTL DEF Spec

-----------------------------------------------------------------------------
(***************************************************************************)
(* The spreading of seeds: the counter of a DRBG that is ready, like that  *)
(* of the master, tells the number of its seed, and so does the counter    *)
(* that comes with entropy.                                                *)
(***************************************************************************)
\* n: the number of the master's seed.
Noted(c, d, n) ==
  /\ c.start <= n
  /\ c.pc = "seed" /\ c.got.n > 0 =>
       /\ c.next = c.got.n + 1 /\ c.start <= c.got.n
       /\ c.pr /\ c.then = "reseed" => c.start < c.got.n
  /\ c.pc = "output" =>
       /\ c.start <= d.seed.n
       /\ c.pr => c.start < d.seed.n

Propagated ==
  /\ InStep(master)
  /\ \A i \in Locals : drbg[i].state = "READY" => InStep(drbg[i])
  /\ \A t \in Threads : Noted(call[t], Mine(t), master.seed.n)

\* A step in which the DRBG of one thread becomes d and its call c.
LEMMA PropagatedGo ==
  ASSUME Safe, Propagated, NEW t \in Threads, NEW kind \in Kinds, NEW c, NEW d,
         drbg' = [drbg EXCEPT ![<<t, kind>>] = d], call' = [call EXCEPT ![t] = c],
         c.pc # "idle" => c.kind = kind,
         d.state = "READY" => InStep(d), Noted(c, d, master'.seed.n),
         InStep(master'), master.seed.n <= master'.seed.n, master' \in Drbg
  PROVE  Propagated'
<1>1. ASSUME NEW i \in Locals, drbg'[i].state = "READY" PROVE InStep(drbg'[i])
  <2>1. drbg'[i] = IF i = <<t, kind>> THEN d ELSE drbg[i]
    BY DEF Safe
  <2> QED BY <1>1, <2>1 DEF Propagated
<1>2. ASSUME NEW u \in Threads PROVE Noted(call'[u], drbg'[<<u, call'[u].kind>>], master'.seed.n)
  <2>1. CASE u = t
    <3>1. call'[u] = c
      BY <2>1 DEF Safe
    <3>2. c.pc # "idle" => drbg'[<<u, c.kind>>] = d
      BY <2>1 DEF Safe, Locals
    <3> QED BY <3>1, <3>2 DEF Noted
  <2>2. CASE u # t
    <3>1. call'[u] = call[u] /\ Noted(call[u], Mine(u), master.seed.n) /\ CallOK(call[u], Mine(u))
      BY <2>2 DEF Safe, Propagated
    <3>2. call[u].pc # "idle" => <<u, call[u].kind>> \in Locals
      BY <3>1 DEF CallOK, Locals
    <3>3. call[u].pc # "idle" => drbg'[<<u, call[u].kind>>] = drbg[<<u, call[u].kind>>]
      BY <2>2, <3>2 DEF Safe
    <3>4. call[u].start \in Nat /\ master.seed.n \in Nat /\ master'.seed.n \in Nat
      BY DEF Safe, MasterOK, Call, Drbg
    <3>5. call[u].start <= master'.seed.n
      BY <3>1, <3>4 DEF Noted
    <3> QED BY <3>1, <3>3, <3>5 DEF Noted, Mine
  <2> QED BY <2>1, <2>2
<1> QED BY <1>1, <1>2 DEF Propagated, InStep, Noted, Mine

\* The numbers that are compared.
LEMMA Numbers ==
  ASSUME Safe
  PROVE  /\ master.seed.n \in Nat /\ master \in Drbg
         /\ \A t \in Threads : call[t].start \in Nat /\ call[t].got.n \in Nat /\ call[t].pr \in BOOLEAN
BY DEF Safe, MasterOK, Call, Drbg

\* A call that is over.
LEMMA IdleNoted ==
  ASSUME Safe, NEW d
  PROVE  Noted(Idle, d, master.seed.n)
BY Numbers DEF Noted, Idle

\* A request begins: it is to rest on the seed the master has now.
LEMMA BeginPropagated ==
  ASSUME Safe, Propagated, NEW t \in Threads, NEW kind \in Kinds, NEW pr \in BOOLEAN,
         Begin(t, kind, pr)
  PROVE  Propagated'
<1> DEFINE e == drbg[<<t, kind>>]
           d == IF e.state = "NULL" THEN Seeding(NewDrbg) ELSE e
           b == [Idle EXCEPT !.kind = kind, !.pr = pr, !.start = master.seed.n]
           c == IF e.state = "NULL" THEN [b EXCEPT !.pc = "entropy", !.then = "setup"]
                                    ELSE [b EXCEPT !.pc = "generate"]
<1>1. /\ drbg' = [drbg EXCEPT ![<<t, kind>>] = d] /\ call' = [call EXCEPT ![t] = c]
      /\ master' = master
  BY DEF Begin
<1>2. c.pc \in {"entropy", "generate"} /\ c.kind = kind /\ c.start = master.seed.n
  BY DEF Idle
<1>3. d.state = "READY" => InStep(d)
  BY DEF Propagated, Locals, Seeding, NewDrbg
<1> HIDE DEF c, d
<1>4. Noted(c, d, master'.seed.n)
  BY <1>1, <1>2, Numbers DEF Noted
<1>5. InStep(master') /\ master.seed.n <= master'.seed.n /\ master' \in Drbg
  BY <1>1, Numbers DEF Propagated
<1> QED BY <1>1, <1>2, <1>3, <1>4, <1>5, PropagatedGo

\* A reseeding begins likewise.
LEMMA ReseedPropagated ==
  ASSUME Safe, Propagated, NEW t \in Threads, NEW kind \in Kinds, NEW pr \in BOOLEAN,
         Reseed(t, kind, pr)
  PROVE  Propagated'
<1> DEFINE d == Seeding(drbg[<<t, kind>>])
           c == [Idle EXCEPT !.kind = kind, !.pr = pr, !.pc = "entropy",
                             !.then = "only", !.start = master.seed.n]
<1>1. /\ drbg' = [drbg EXCEPT ![<<t, kind>>] = d] /\ call' = [call EXCEPT ![t] = c]
      /\ master' = master
  BY DEF Reseed
<1>2. c.pc = "entropy" /\ c.kind = kind /\ c.start = master.seed.n
  BY DEF Idle
<1>3. d.state # "READY"
  BY DEF Seeding, Safe, Locals, Drbg
<1> HIDE DEF c, d
<1>4. Noted(c, d, master'.seed.n)
  BY <1>1, <1>2, Numbers DEF Noted
<1>5. InStep(master') /\ master.seed.n <= master'.seed.n /\ master' \in Drbg
  BY <1>1, Numbers DEF Propagated
<1> QED BY <1>1, <1>2, <1>3, <1>4, <1>5, PropagatedGo

\* What is generated without a reseeding rests on the master's latest seed.
LEMMA CheckPropagated ==
  ASSUME Safe, Propagated, NEW t \in Threads, Check(t)
  PROVE  Propagated'
<1> DEFINE c == call[t]
           d == Mine(t)
           f == [d EXCEPT !.fork_id = pid]
<1>1. /\ c.pc = "generate" /\ c \in Call /\ c.kind \in Kinds /\ d \in Drbg /\ master' = master
      /\ c.start <= master.seed.n /\ c.start \in Nat /\ master.seed.n \in Nat /\ c.pr \in BOOLEAN
  BY InCall, Numbers DEF Check, Propagated, Noted
<1>2. InStep(master') /\ master.seed.n <= master'.seed.n /\ master' \in Drbg
  BY <1>1, Numbers DEF Propagated
<1>3. d.state = "READY" => InStep(d)
  BY <1>1 DEF Propagated, Mine, Locals
<1>4. ASSUME NEW g, NEW then,
             /\ drbg' = [drbg EXCEPT ![<<t, c.kind>>] = Seeding(g)]
             /\ call' = [call EXCEPT ![t] = [c EXCEPT !.pc = "entropy", !.then = then]],
             g \in Drbg
      PROVE  Propagated'
  <2> DEFINE e == [c EXCEPT !.pc = "entropy", !.then = then]
  <2>1. e.pc = "entropy" /\ e.kind = c.kind /\ e.start = c.start
    BY <1>1 DEF Call
  <2>2. Seeding(g).state # "READY"
    BY <1>4 DEF Seeding, Drbg
  <2>3. call' = [call EXCEPT ![t] = e]
    BY <1>4
  <2> HIDE DEF e
  <2>4. Noted(e, Seeding(g), master'.seed.n)
    BY <1>1, <2>1 DEF Noted
  <2> QED BY <1>1, <1>2, <1>4, <2>1, <2>2, <2>3, <2>4, PropagatedGo
<1>5. CASE d.state # "READY"
  BY <1>1, <1>4, <1>5 DEF Check, Go
<1>6. CASE d.state = "READY"
  <2>1. PICK late \in BOOLEAN :
          IF ReseedRequired(d, c.pr, late)
          THEN Go(t, Seeding(f), [c EXCEPT !.pc = "entropy", !.then = "reseed"])
          ELSE Go(t, f, [c EXCEPT !.pc = "output"])
    BY <1>6 DEF Check
  <2>2. f \in Drbg /\ f.seed = d.seed /\ f.prop = d.prop /\ d.seed.n \in Nat
    BY <1>1 DEF Drbg, Safe
  <2> HIDE DEF f
  <2>3. CASE ReseedRequired(d, c.pr, late)
    BY <1>4, <2>1, <2>2, <2>3 DEF Go
  <2>4. CASE ~ReseedRequired(d, c.pr, late)
    <3> DEFINE e == [c EXCEPT !.pc = "output"]
    <3>1. drbg' = [drbg EXCEPT ![<<t, c.kind>>] = f] /\ call' = [call EXCEPT ![t] = e]
      BY <2>1, <2>4 DEF Go
    <3>2. e.pc = "output" /\ e.kind = c.kind /\ e.start = c.start /\ e.pr = c.pr
      BY <1>1 DEF Call
    <3> HIDE DEF e
    <3>3. InStep(d) /\ InStep(master)
      BY <1>3, <1>6 DEF Propagated
    <3>4. ~c.pr /\ (d.prop > 0 => master.prop = d.prop)
      BY <2>4 DEF ReseedRequired
    <3>5. f.seed.n = master.seed.n
      BY <1>1, <2>2, <3>3, <3>4 DEF InStep
    <3>6. Noted(e, f, master'.seed.n)
      BY <1>1, <3>2, <3>4, <3>5 DEF Noted
    <3>7. InStep(f)
      BY <2>2, <3>3 DEF InStep
    <3> QED BY <1>1, <1>2, <3>1, <3>2, <3>6, <3>7, PropagatedGo
  <2> QED BY <2>3, <2>4
<1> QED BY <1>5, <1>6

\* The counter that comes with entropy is that of the seed it was made from, however
\* the master is reseeded before it is noted.
LEMMA GetEntropyPropagated ==
  ASSUME NoWrap, Safe, Propagated, NEW t \in Threads, GetEntropy(t)
  PROVE  Propagated'
<1> DEFINE c == call[t]
           d == Mine(t)
           pr == c.pr /\ c.then \in {"reseed", "only"}
<1>1. /\ c.pc = "entropy" /\ c \in Call /\ c.kind \in Kinds /\ CallOK(c, d) /\ d \in Drbg
      /\ c.start <= master.seed.n /\ c.start \in Nat /\ master.seed.n \in Nat /\ c.pr \in BOOLEAN
  BY InCall, Numbers DEF GetEntropy, Propagated, Noted
<1> DEFINE e(o) == [c EXCEPT !.pc = "seed", !.next = o.drbg.prop, !.met = @ \/ o.met,
                             !.got = IF o.drbg.state = "READY" THEN o.drbg.seed ELSE @]
<1>2. PICK o \in MasterGenerate(pr) :
        /\ master' = o.drbg
        /\ drbg' = [drbg EXCEPT ![<<t, c.kind>>] = d]
        /\ call' = [call EXCEPT ![t] = e(o)]
  BY DEF GetEntropy, Go
<1>3. pr \in BOOLEAN /\ (c.pr /\ c.then = "reseed" => pr)
  OBVIOUS
<1> HIDE DEF pr
<1>4. /\ Outcome(master, o)
      /\ o.drbg.state = "READY" => (pr => master.seed.n < o.drbg.seed.n)
  BY <1>3, MasterGenerateOutcome DEF Safe
<1>5. /\ o.drbg \in Drbg /\ InStep(o.drbg) /\ master.seed.n <= o.drbg.seed.n
      /\ o.drbg.seed.n \in Nat
  BY <1>4 DEF Outcome, MasterOK, Propagated, Drbg
<1>6. /\ e(o).pc = "seed" /\ e(o).kind = c.kind /\ e(o).start = c.start /\ e(o).pr = c.pr
      /\ e(o).then = c.then /\ e(o).next = o.drbg.prop
      /\ e(o).got = (IF o.drbg.state = "READY" THEN o.drbg.seed ELSE c.got)
  BY <1>1 DEF Call
<1>7. c.got.n = 0
  BY <1>1 DEF CallOK
<1> HIDE DEF e
<1>8. Noted(e(o), d, o.drbg.seed.n)
  <2>1. c.start <= o.drbg.seed.n
    BY <1>1, <1>5
  <2>2. ASSUME e(o).got.n > 0
        PROVE  /\ e(o).next = e(o).got.n + 1 /\ c.start <= e(o).got.n
               /\ c.pr /\ c.then = "reseed" => c.start < e(o).got.n
    <3>1. o.drbg.state = "READY" /\ e(o).got = o.drbg.seed
      BY <1>6, <1>7, <2>2
    <3>2. c.pr /\ c.then = "reseed" => master.seed.n < o.drbg.seed.n
      BY <1>3, <1>4, <3>1
    <3> QED BY <1>1, <1>5, <1>6, <2>1, <3>1, <3>2 DEF InStep
  <2> QED BY <1>6, <2>1, <2>2 DEF Noted
<1>9. d.state = "READY" => InStep(d)
  BY <1>1 DEF Propagated, Mine, Locals
<1> QED BY <1>1, <1>2, <1>5, <1>6, <1>8, <1>9, PropagatedGo

\* The counter is noted with the seed it came with.
LEMMA SeedPropagated ==
  ASSUME Safe, Propagated, NEW t \in Threads, Seed(t)
  PROVE  Propagated'
<1> DEFINE c == call[t]
           d == Mine(t)
           seeded == IF c.then \in {"setup", "restart"} THEN "generate" ELSE "output"
           over == [c EXCEPT !.got = Idle.got, !.next = 0]
           met == c.met \/ c.got.n > 0
<1>1. /\ c.pc = "seed" /\ c \in Call /\ c.kind \in Kinds /\ CallOK(c, d) /\ d \in Drbg
      /\ master' = master /\ Noted(c, d, master.seed.n)
      /\ c.start <= master.seed.n /\ c.start \in Nat /\ master.seed.n \in Nat /\ c.pr \in BOOLEAN
  BY InCall, Numbers DEF Seed, Propagated, Noted
<1>2. InStep(master') /\ master.seed.n <= master'.seed.n /\ master' \in Drbg
  BY <1>1, Numbers DEF Propagated
<1>3. d.state = "READY" => InStep(d)
  BY <1>1 DEF Propagated, Mine, Locals
<1>4. met = TRUE
  BY <1>1 DEF CallOK
<1>5. over \in Call /\ over.kind = c.kind /\ over.start = c.start /\ over.pr = c.pr
  BY <1>1, IdleCall, DrbgAssumption DEF CallOK, Idle, Call
<1>6. CASE /\ c.got.n > 0
           /\ Go(t, ChildSeeded(d, c),
                 IF c.then = "only" THEN Returned(c, TRUE) ELSE [over EXCEPT !.pc = seeded, !.then = "none"])
  <2> DEFINE g == ChildSeeded(d, c)
  <2>1. g.seed = c.got /\ g.prop = c.next
    BY <1>1 DEF ChildSeeded, Seeded, Drbg
  <2> HIDE DEF g
  <2>2. InStep(g) /\ c.start <= g.seed.n
    BY <1>1, <1>6, <2>1 DEF InStep, Noted
  <2>3. CASE c.then = "only"
    <3>1. /\ drbg' = [drbg EXCEPT ![<<t, c.kind>>] = g]
          /\ call' = [call EXCEPT ![t] = Idle]
      BY <1>6, <2>3, ReturnedIdle DEF Go, g
    <3> QED BY <1>1, <1>2, <2>2, <3>1, IdleNoted, PropagatedGo DEF Idle
  <2>4. CASE c.then # "only"
    <3> DEFINE e == [over EXCEPT !.pc = seeded, !.then = "none"]
    <3>1. drbg' = [drbg EXCEPT ![<<t, c.kind>>] = g] /\ call' = [call EXCEPT ![t] = e]
      BY <1>6, <2>4 DEF Go, g
    <3>2. e.pc = seeded /\ e.kind = c.kind /\ e.start = c.start /\ e.pr = c.pr
      BY <1>5 DEF Call
    <3>3. seeded = "output" => c.then = "reseed"
      BY <1>1, <2>4 DEF Call, CallOK
    <3>4. seeded \in {"generate", "output"}
      OBVIOUS
    <3>5. seeded = "output" => (c.pr => c.start < g.seed.n)
      BY <1>1, <1>6, <2>1, <3>3 DEF Noted
    <3> HIDE DEF e, seeded
    <3>6. Noted(e, g, master'.seed.n)
      BY <1>1, <2>2, <3>2, <3>4, <3>5 DEF Noted
    <3> QED BY <1>1, <1>2, <2>2, <3>1, <3>2, <3>6, PropagatedGo
  <2> QED BY <2>3, <2>4
<1>7. CASE Go(t, d, IF c.then = "setup" THEN [over EXCEPT !.pc = "generate", !.met = met]
                    ELSE Returned([c EXCEPT !.met = met], FALSE))
  <2>1. CASE c.then = "setup"
    <3> DEFINE e == [over EXCEPT !.pc = "generate", !.met = met]
    <3>1. drbg' = [drbg EXCEPT ![<<t, c.kind>>] = d] /\ call' = [call EXCEPT ![t] = e]
      BY <1>7, <2>1 DEF Go
    <3>2. e.pc = "generate" /\ e.kind = c.kind /\ e.start = c.start
      BY <1>5 DEF Call
    <3> HIDE DEF e
    <3>3. Noted(e, d, master'.seed.n)
      BY <1>1, <3>2 DEF Noted
    <3> QED BY <1>1, <1>2, <1>3, <3>1, <3>2, <3>3, PropagatedGo
  <2>2. CASE c.then # "setup"
    <3>1. [c EXCEPT !.met = met].met = TRUE
      BY <1>1, <1>4 DEF Call
    <3>2. Returned([c EXCEPT !.met = met], FALSE) = Idle
      BY <3>1, ReturnedIdle
    <3>3. drbg' = [drbg EXCEPT ![<<t, c.kind>>] = d] /\ call' = [call EXCEPT ![t] = Idle]
      BY <1>7, <2>2, <3>2 DEF Go
    <3> QED BY <1>1, <1>2, <1>3, <3>3, IdleNoted, PropagatedGo DEF Idle
  <2> QED BY <2>1, <2>2
<1> QED BY <1>6, <1>7 DEF Seed

\* The next part of a large request begins anew.
LEMMA OutputPropagated ==
  ASSUME Safe, Propagated, NEW t \in Threads, Output(t)
  PROVE  Propagated'
<1> DEFINE c == call[t]
           m == Mine(t)
           d == [m EXCEPT !.gen = @ + 1]
<1>1. /\ c.pc = "output" /\ c \in Call /\ c.kind \in Kinds /\ m \in Drbg /\ master' = master
  BY InCall DEF Output
<1>2. InStep(master') /\ master.seed.n <= master'.seed.n /\ master' \in Drbg /\ master.seed.n \in Nat
  BY <1>1, Numbers DEF Propagated
<1>3. m.state = "READY" => InStep(m)
  BY <1>1 DEF Propagated, Mine, Locals
<1>4. d.state = "READY" => InStep(d)
  BY <1>1, <1>3 DEF InStep, Drbg
<1>5. CASE Go(t, d, Returned(c, TRUE))
  <2>1. drbg' = [drbg EXCEPT ![<<t, c.kind>>] = d] /\ call' = [call EXCEPT ![t] = Idle]
    BY <1>5, ReturnedIdle DEF Go
  <2> HIDE DEF d
  <2> QED BY <1>1, <1>2, <1>4, <2>1, IdleNoted, PropagatedGo DEF Idle
<1>6. CASE Go(t, d, [c EXCEPT !.pc = "generate", !.start = master.seed.n])
  <2> DEFINE e == [c EXCEPT !.pc = "generate", !.start = master.seed.n]
  <2>1. drbg' = [drbg EXCEPT ![<<t, c.kind>>] = d] /\ call' = [call EXCEPT ![t] = e]
    BY <1>6 DEF Go
  <2>2. e.pc = "generate" /\ e.kind = c.kind /\ e.start = master.seed.n
    BY <1>1 DEF Call
  <2> HIDE DEF d, e
  <2>3. Noted(e, d, master'.seed.n)
    BY <1>1, <1>2, <2>2 DEF Noted
  <2> QED BY <1>1, <1>2, <1>4, <2>1, <2>2, <2>3, PropagatedGo
<1>7. CASE Go(t, [m EXCEPT !.state = "ERROR"], Returned([c EXCEPT !.met = TRUE], FALSE))
  <2>1. [c EXCEPT !.met = TRUE].met = TRUE
    BY <1>1 DEF Call
  <2>2. Returned([c EXCEPT !.met = TRUE], FALSE) = Idle
    BY <2>1, ReturnedIdle
  <2>3. /\ drbg' = [drbg EXCEPT ![<<t, c.kind>>] = Seeding(m)]
        /\ call' = [call EXCEPT ![t] = Idle]
    BY <1>7, <2>2 DEF Go, Seeding
  <2>4. Seeding(m).state # "READY"
    BY <1>1 DEF Seeding, Drbg
  <2> QED BY <1>1, <1>2, <2>3, <2>4, IdleNoted, PropagatedGo DEF Idle
<1> QED BY <1>5, <1>6, <1>7 DEF Output

\* A DRBG that is given up is not ready.
LEMMA UninstantiatePropagated ==
  ASSUME Safe, Propagated, NEW t \in Threads, NEW kind \in Kinds, Uninstantiate(t, kind)
  PROVE  Propagated'
<1> DEFINE d == [drbg[<<t, kind>>] EXCEPT !.state = "UNINITIALISED"]
<1>1. <<t, kind>> \in Locals /\ drbg[<<t, kind>>] \in Drbg
  BY DEF Locals, Safe
<1>2. call[t] = Idle /\ master' = master /\ call' = call
  BY DEF Uninstantiate, Safe, CallOK
<1>3. drbg' = [drbg EXCEPT ![<<t, kind>>] = d] /\ call' = [call EXCEPT ![t] = Idle]
  BY <1>1, <1>2 DEF Uninstantiate, Safe
<1>4. d.state # "READY"
  BY <1>1 DEF Drbg
<1>5. InStep(master') /\ master.seed.n <= master'.seed.n /\ master' \in Drbg
  BY <1>2, Numbers DEF Propagated
<1>6. Idle.pc = "idle" /\ Noted(Idle, d, master'.seed.n)
  BY <1>2, IdleNoted DEF Idle
<1> HIDE DEF d
<1> QED BY <1>3, <1>4, <1>5, <1>6, PropagatedGo

\* What is gone with a thread.
LEMMA GonePropagated ==
  ASSUME Safe, Propagated, NEW t \in Threads, StopThread(t) \/ Fork(t)
  PROVE  Propagated'
<1>1. /\ master' = master
      /\ drbg' \in [Locals -> Drbg \cup {NoDrbg}]
      /\ \A i \in Locals : drbg'[i] \in {drbg[i], NoDrbg}
      /\ \A u \in Threads : \/ call'[u] = Idle
                           \/ /\ call'[u] = call[u]
                              /\ \A kind \in Kinds : drbg'[<<u, kind>>] = drbg[<<u, kind>>]
  BY DEF StopThread, Fork, Safe, Locals
<1>2. ASSUME NEW i \in Locals, drbg'[i].state = "READY" PROVE InStep(drbg'[i])
  BY <1>1, <1>2 DEF Propagated, NoDrbg
<1>3. ASSUME NEW u \in Threads PROVE Noted(call'[u], drbg'[<<u, call'[u].kind>>], master.seed.n)
  <2>1. CASE call'[u] = Idle
    BY <2>1, IdleNoted
  <2>2. CASE call'[u] = call[u] /\ \A kind \in Kinds : drbg'[<<u, kind>>] = drbg[<<u, kind>>]
    <3>1. call[u].pc # "idle" => call[u].kind \in Kinds
      BY DEF Safe, CallOK
    <3>2. Noted(call[u], Mine(u), master.seed.n)
      BY DEF Propagated
    <3> QED BY <2>2, <3>1, <3>2 DEF Noted, Mine
  <2> QED BY <1>1, <2>1, <2>2
<1> QED BY <1>1, <1>2, <1>3 DEF Propagated, InStep, Noted, Mine

\* The master gets a newer seed, and its counter follows.
LEMMA RandAddPropagated ==
  ASSUME NoWrap, Safe, Propagated, NEW input \in Inputs, RandAdd(input)
  PROVE  Propagated'
<1>1. PICK o \in MasterRestart(input) : master' = o.drbg
  BY DEF RandAdd
<1>2. drbg' = drbg /\ call' = call
  BY DEF RandAdd
<1>3. /\ InStep(o.drbg) /\ master.seed.n <= o.drbg.seed.n
      /\ master.seed.n \in Nat /\ o.drbg.seed.n \in Nat
  BY MasterRestartOutcome DEF Safe, Propagated, Outcome, MasterOK, Drbg
<1>4. ASSUME NEW t \in Threads PROVE Noted(call[t], Mine(t), o.drbg.seed.n)
  <2>1. call[t].start \in Nat /\ Noted(call[t], Mine(t), master.seed.n)
    BY Numbers DEF Propagated
  <2> QED BY <1>3, <2>1 DEF Noted
<1> QED BY <1>1, <1>2, <1>3, <1>4 DEF Propagated, InStep, Noted, Mine

\* What is generated rests on every seeding of the master that was complete when the
\* request began, with prediction resistance on a later one; as long as the counter of
\* the seedings, an unsigned int, does not come round to a value still noted somewhere.
THEOREM SeedsSpread ==
  ASSUME MaxSeeds < CounterMax
  PROVE  Spec => []SeedPropagates
<1>1. NoWrap
  BY DEF NoWrap
<1>2. Init => Safe /\ Propagated
  <2> SUFFICES ASSUME Init PROVE Propagated
    BY SafeInit
  <2>1. pid \in Procs /\ NewDrbg \in Drbg /\ NewDrbg.fork_id <= pid /\ NewDrbg.gen = 0 /\ InStep(NewDrbg)
    BY DrbgAssumption DEF Init, NewDrbg, Drbg, Procs, InStep
  <2>2. MasterInterval > 0 => NewDrbg.gen <= MasterInterval + 1
    BY <2>1, DrbgAssumption
  <2>3. InStep(master)
    BY <1>1, <2>1, <2>2, MasterSeededOutcome DEF Init, Outcome
  <2>4. \A t \in Threads : Noted(call[t], Mine(t), master.seed.n)
    BY SafeInit, IdleNoted DEF Init
  <2> QED BY <2>3, <2>4 DEF Init, Propagated, NoDrbg
<1>3. Safe /\ Propagated /\ [Next]_vars => Safe' /\ Propagated'
  <2> SUFFICES ASSUME Safe, Propagated, [Next]_vars PROVE Propagated'
    BY SafeStep
  <2>1. CASE UNCHANGED vars
    BY <2>1 DEF vars, Propagated, InStep, Noted, Mine
  <2>2. ASSUME NEW t \in Threads, ThreadStep(t)
        PROVE  Propagated'
    <3>1. ASSUME NEW kind \in Kinds, ReseedRefused(t, kind)
          PROVE  Propagated'
      <4>1. UNCHANGED vars
        BY <3>1, ReseedRefusedStutters
      <4> QED BY <2>1, <4>1
    <3> QED BY <1>1, <2>2, <3>1, BeginPropagated, ReseedPropagated, UninstantiatePropagated,
               CheckPropagated, GetEntropyPropagated, SeedPropagated, OutputPropagated,
               GonePropagated DEF ThreadStep
  <2> QED BY <1>1, <2>1, <2>2, RandAddPropagated DEF Next
<1>4. Propagated => SeedPropagates
  BY DEF Propagated, Noted, SeedPropagates, Outputs
<1> QED BY <1>2, <1>3, <1>4, PTL DEF Spec
=============================================================================

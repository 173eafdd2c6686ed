------------------------------ MODULE RandDrbg ------------------------------
(***************************************************************************)
(* The random generators of the library (drbg_lib.c, rand_lib.c): in every *)
(* process a <master> DRBG, shared under its lock and seeded by the system *)
(* or by the application, and for each thread a <public> and a <private>   *)
(* DRBG seeded from it; errors and their repair, reseeding that spreads    *)
(* from the master to its children, and processes that fork.  Processes    *)
(* share no memory: a behaviour follows one process, and after a fork      *)
(* either the same one or the new one.                                     *)
(*                                                                         *)
(* What is done under the lock of the master is one step.  A DRBG of a     *)
(* thread has no lock; its thread is interrupted wherever it looks at, or  *)
(* waits for, the master.  What the generators compute is left out: a DRBG *)
(* keeps instead where its latest seed came from.                          *)
(***************************************************************************)
EXTENDS Integers

CONSTANTS
  MaxForks,         \* bound: forks from one process to the next
  Threads,          \* the threads of a process
  Kinds,            \* its DRBGs: "public", "private"
  MasterInterval,   \* master_reseed_interval
  SlaveInterval,    \* slave_reseed_interval
  CounterMax,       \* UINT_MAX
  MaxSeeds          \* bound: seedings of the masters

ASSUME DrbgAssumption ==
  /\ MaxForks \in Nat /\ MasterInterval \in Nat /\ SlaveInterval \in Nat
  /\ CounterMax \in Nat \ {0} /\ MaxSeeds \in Nat

VARIABLES
  pid,      \* getpid, which does not repeat
  master,   \* the <master> DRBG
  drbg,     \* the DRBGs of the threads
  call      \* the call each thread is in, or what became of the last one

vars == <<pid, master, drbg, call>>

Procs == 0..MaxForks
Locals == Threads \X Kinds

(***************************************************************************)
(* gen and prop are reseed_gen_counter and reseed_prop_counter;            *)
(* reseed_next_counter is of use only while entropy is got, and is kept    *)
(* with the call.  seed is history: the process in which the master got    *)
(* the entropy, and how often it had been seeded by then (0: never).       *)
(***************************************************************************)
Drbg ==
  [state : {"NULL", "UNINITIALISED", "READY", "ERROR"}, fork_id : Procs,
   gen : Nat, prop : 0..CounterMax, seed : [proc : Procs, n : 0..MaxSeeds]]

\* drbg_setup, up to RAND_DRBG_instantiate: seed propagation is enabled.
NewDrbg ==
  [state |-> "UNINITIALISED", fork_id |-> pid, gen |-> 0, prop |-> 1,
   seed |-> [proc |-> pid, n |-> 0]]

NoDrbg == [state |-> "NULL", fork_id |-> 0, gen |-> 0, prop |-> 0,
           seed |-> [proc |-> 0, n |-> 0]]

\* pc: where the call is.  then: what entropy is got for.  start: the master's
\* latest seed when RAND_DRBG_generate was called.  got: the entropy that was
\* got, n = 0 if none was, and next: the counter that came with it.  met: the
\* call has met a failure of the system.  bad: the last call failed without.
Call ==
  [pc : {"idle", "generate", "entropy", "seed", "output"}, kind : Kinds \cup {"none"},
   pr : BOOLEAN, then : {"none", "setup", "restart", "reseed", "only"}, start : 0..MaxSeeds,
   got : [proc : Procs, n : 0..MaxSeeds], next : 0..CounterMax, met : BOOLEAN, bad : BOOLEAN]

Idle == [pc |-> "idle", kind |-> "none", pr |-> FALSE, then |-> "none", start |-> 0,
         got |-> [proc |-> 0, n |-> 0], next |-> 0, met |-> FALSE, bad |-> FALSE]

-----------------------------------------------------------------------------
(***************************************************************************)
(* RAND_DRBG_instantiate and RAND_DRBG_reseed, which differ in nothing     *)
(* else than the state they ask for.                                       *)
(***************************************************************************)
NextCounter(c) ==
  CASE c = 0 -> 0
    [] c = CounterMax -> 1
    [] OTHER -> c + 1

\* From here the DRBG is in error until it is seeded.
Seeding(d) == [d EXCEPT !.state = "ERROR"]

\* Mutant: the requests are counted on.
CountedOn(d, next, seed) ==
  [d EXCEPT !.state = "READY", !.gen = IF @ = 0 THEN 1 ELSE @, !.prop = next, !.seed = seed]

\* The end of both: the requests are counted from the beginning.
Seeded(d, next, seed) ==
  [d EXCEPT !.state = "READY", !.gen = 1, !.prop = next, !.seed = seed]

\* What may become of a master that is seeded, by the system or with a buffer
\* of the application.
MasterSeeded(m) ==
  {[drbg |-> Seeding(m), met |-> TRUE]}
    \cup {[drbg |-> Seeded(m, NextCounter(m.prop), [proc |-> pid, n |-> n]), met |-> FALSE] :
            n \in {m.seed.n + 1} \cap (1..MaxSeeds)}

-----------------------------------------------------------------------------
(***************************************************************************)
(* The master, with its lock held.                                         *)
(***************************************************************************)
\* Mutant: an error is not repaired before something is generated.
NotRestarted(m) == {[drbg |-> m, met |-> FALSE]}

\* RAND_DRBG_generate of the master begins with rand_drbg_restart if need be.
Restarted(m) ==
  IF m.state = "READY" THEN {[drbg |-> m, met |-> FALSE]} ELSE MasterSeeded(m)

\* The checks of the fork id, of the number of requests and of the time.
MasterReseed(m, pr, late) ==
  LET d == [m EXCEPT !.fork_id = pid]
  IN IF m.fork_id # pid \/ (MasterInterval > 0 /\ m.gen > MasterInterval) \/ late \/ pr
     THEN MasterSeeded(d) ELSE {[drbg |-> d, met |-> FALSE]}

\* The generating itself, which may fail.
MasterGenerated(m) ==
  {[drbg |-> [m EXCEPT !.gen = @ + 1], met |-> FALSE],
   [drbg |-> [m EXCEPT !.state = "ERROR"], met |-> TRUE]}

\* RAND_DRBG_generate of the master: what may become of it.
MasterGenerate(pr) ==
  LET ready == Restarted(master)
      checked == UNION {IF o.drbg.state # "READY" THEN {o}
                        ELSE UNION {MasterReseed(o.drbg, pr, late) : late \in BOOLEAN} : o \in ready}
  IN UNION {IF o.drbg.state # "READY" THEN {o} ELSE MasterGenerated(o.drbg) : o \in checked}

\* What the application does to the master: RAND_poll; RAND_seed, or RAND_add
\* with enough randomness; RAND_add with some, but not enough, or with none;
\* either with a buffer that is too long for the DRBG.
Inputs == {"poll", "enough", "some", "none", "long"}

\* rand_drbg_restart of the master.  A buffer without enough randomness is taken
\* for one with none: it is mixed into the state, once an error is repaired, and
\* does not count as a seed.
MasterRestart(input) ==
  CASE input = "long" -> {[drbg |-> Seeding(master), met |-> TRUE]}
    [] input \in {"poll", "enough"} -> MasterSeeded(master)
    [] input \in {"some", "none"} -> Restarted(master)

\* drbg_add, drbg_seed, RAND_poll
RandAdd(input) ==
  /\ \E o \in MasterRestart(input) : master' = o.drbg
  /\ UNCHANGED <<pid, drbg, call>>

-----------------------------------------------------------------------------
(***************************************************************************)
(* A thread and its DRBG.                                                  *)
(***************************************************************************)
\* The DRBG the call of a thread is about.
Mine(t) == drbg[<<t, call[t].kind>>]

\* The DRBG becomes d, and the call c.
Go(t, d, c) ==
  /\ drbg' = [drbg EXCEPT ![<<t, call[t].kind>>] = d]
  /\ call' = [call EXCEPT ![t] = c]
  /\ UNCHANGED pid

\* RAND_bytes, RAND_priv_bytes; RAND_DRBG_generate by the application, which
\* may ask for prediction resistance.  The first call makes the DRBG.
Begin(t, kind, pr) ==
  LET d == drbg[<<t, kind>>]
      c == [Idle EXCEPT !.kind = kind, !.pr = pr, !.start = master.seed.n]
  IN /\ call[t].pc = "idle"
     /\ call' = [call EXCEPT ![t] =
                   IF d.state = "NULL" THEN [c EXCEPT !.pc = "entropy", !.then = "setup"]
                                       ELSE [c EXCEPT !.pc = "generate"]]
     /\ drbg' = [drbg EXCEPT ![<<t, kind>>] =
                   IF d.state = "NULL" THEN Seeding(NewDrbg) ELSE d]
     /\ UNCHANGED <<pid, master>>

\* Mutant: the thread's own DRBG is not looked at after a fork.
ForkUnseen(d, pr, late) ==
  \/ SlaveInterval > 0 /\ d.gen > SlaveInterval
  \/ d.prop > 0 /\ master.prop # d.prop
  \/ late \/ pr

\* The checks of RAND_DRBG_generate; late: the time since the last seeding.
ReseedRequired(d, pr, late) ==
  \/ d.fork_id # pid
  \/ SlaveInterval > 0 /\ d.gen > SlaveInterval
  \/ d.prop > 0 /\ master.prop # d.prop
  \/ late \/ pr

\* RAND_DRBG_generate up to the seeding or the output.
Check(t) ==
  LET c == call[t]
      d == Mine(t)
      f == [d EXCEPT !.fork_id = pid]
  IN /\ c.pc = "generate"
     /\ \/ /\ d.state # "READY"
           /\ Go(t, Seeding(d), [c EXCEPT !.pc = "entropy", !.then = "restart"])
        \/ /\ d.state = "READY"
           /\ \E late \in BOOLEAN :
                IF ReseedRequired(d, c.pr, late)
                THEN Go(t, Seeding(f), [c EXCEPT !.pc = "entropy", !.then = "reseed"])
                ELSE Go(t, f, [c EXCEPT !.pc = "output"])
     /\ UNCHANGED master

\* rand_drbg_get_entropy of a DRBG with a parent: the seed comes with the
\* counter of the parent, which is read before the lock is released.
GetEntropy(t) ==
  LET c == call[t]
  IN /\ c.pc = "entropy"
     /\ \E o \in MasterGenerate(c.pr /\ c.then \in {"reseed", "only"}) :
          /\ master' = o.drbg
          /\ Go(t, Mine(t),
                [c EXCEPT !.pc = "seed", !.next = o.drbg.prop, !.met = @ \/ o.met,
                          !.got = IF o.drbg.state = "READY" THEN o.drbg.seed ELSE @])

\* Mutant: the counter of the parent is read when the seed is in place, with
\* the parent no longer locked.
CounterReadLate(d, c) == Seeded(d, master.prop, c.got)

\* The entropy goes into the thread's DRBG.
ChildSeeded(d, c) == Seeded(d, c.next, c.got)

\* A call is over.
Returned(c, ret) == [Idle EXCEPT !.bad = ~ret /\ ~c.met]

\* The end of the seeding.  A DRBG that was just made need not be seeded.
Seed(t) ==
  LET c == call[t]
      d == Mine(t)
      seeded == IF c.then \in {"setup", "restart"} THEN "generate" ELSE "output"
      over == [c EXCEPT !.got = Idle.got, !.next = 0]
      met == c.met \/ c.got.n > 0
  IN /\ c.pc = "seed"
     /\ \/ /\ c.got.n > 0
           /\ Go(t, ChildSeeded(d, c),
                 IF c.then = "only" THEN Returned(c, TRUE) ELSE [over EXCEPT !.pc = seeded, !.then = "none"])
        \/ Go(t, d, IF c.then = "setup" THEN [over EXCEPT !.pc = "generate", !.met = met]
                       ELSE Returned([c EXCEPT !.met = met], FALSE))
     /\ UNCHANGED master

\* The DRBG generates.  RAND_DRBG_bytes goes on if the request was too large
\* for one call of RAND_DRBG_generate.
Output(t) ==
  LET c == call[t]
      d == [Mine(t) EXCEPT !.gen = @ + 1]
  IN /\ c.pc = "output"
     /\ \/ Go(t, d, Returned(c, TRUE))
        \/ ~c.pr /\ Go(t, d, [c EXCEPT !.pc = "generate", !.start = master.seed.n])
        \/ Go(t, [Mine(t) EXCEPT !.state = "ERROR"],
                Returned([c EXCEPT !.met = TRUE], FALSE))
     /\ UNCHANGED master

\* RAND_DRBG_reseed by the application, of a DRBG of its own thread.
Reseed(t, kind, pr) ==
  LET d == drbg[<<t, kind>>]
  IN /\ call[t].pc = "idle" /\ d.state = "READY"
     /\ call' = [call EXCEPT ![t] = [Idle EXCEPT !.kind = kind, !.pr = pr, !.pc = "entropy",
                                                    !.then = "only", !.start = master.seed.n]]
     /\ drbg' = [drbg EXCEPT ![<<t, kind>>] = Seeding(d)]
     /\ UNCHANGED <<pid, master>>

\* RAND_DRBG_reseed of one that is in error, or not seeded: the call is refused
\* and repairs nothing.
ReseedRefused(t, kind) ==
  /\ call[t].pc = "idle" /\ drbg[<<t, kind>>].state \in {"ERROR", "UNINITIALISED"}
  /\ call' = [call EXCEPT ![t] = Idle]
  /\ UNCHANGED <<pid, master, drbg>>

\* RAND_DRBG_uninstantiate by the application.
Uninstantiate(t, kind) ==
  /\ call[t].pc = "idle" /\ drbg[<<t, kind>>].state \in {"READY", "ERROR"}
  /\ drbg' = [drbg EXCEPT ![<<t, kind>>].state = "UNINITIALISED"]
  /\ UNCHANGED <<pid, master, call>>

\* drbg_delete_thread_state: the thread is over.
StopThread(t) ==
  /\ call[t].pc = "idle"
  /\ \E kind \in Kinds : drbg[<<t, kind>>].state # "NULL"
  /\ drbg' = [i \in Locals |-> IF i[1] = t THEN NoDrbg ELSE drbg[i]]
  /\ call' = [call EXCEPT ![t] = Idle]
  /\ UNCHANGED <<pid, master>>

\* fork by a thread, the only one that is there in the new process.
Fork(t) ==
  /\ call[t].pc = "idle" /\ pid < MaxForks
  /\ pid' = pid + 1
  /\ drbg' = [i \in Locals |-> IF i[1] = t THEN drbg[i] ELSE NoDrbg]
  /\ call' = [u \in Threads |-> IF u = t THEN call[u] ELSE Idle]
  /\ UNCHANGED master

\* The library has been used: the master is there, seeded or not (drbg_setup
\* takes no notice).
Init ==
  /\ pid = 0
  /\ \E o \in MasterSeeded(NewDrbg) : master = o.drbg
  /\ drbg = [i \in Locals |-> NoDrbg]
  /\ call = [t \in Threads |-> Idle]

ThreadStep(t) ==
  \/ \E kind \in Kinds, pr \in BOOLEAN : Begin(t, kind, pr) \/ Reseed(t, kind, pr)
  \/ \E kind \in Kinds : ReseedRefused(t, kind) \/ Uninstantiate(t, kind)
  \/ Check(t) \/ GetEntropy(t) \/ Seed(t) \/ Output(t) \/ StopThread(t) \/ Fork(t)

Next ==
  \/ \E t \in Threads : ThreadStep(t)
  \/ \E input \in Inputs : RandAdd(input)

Spec == Init /\ [][Next]_vars

-----------------------------------------------------------------------------
\* The requests between two seedings stay within the reseed intervals.
TypeOK ==
  /\ pid \in Procs
  /\ master \in Drbg /\ drbg \in [Locals -> Drbg]
  /\ MasterInterval > 0 => master.gen <= MasterInterval + 1
  /\ \A i \in Locals : SlaveInterval > 0 => drbg[i].gen <= SlaveInterval + 1
  /\ call \in [Threads -> Call]

\* The threads whose DRBG is about to generate.
Outputs == {t \in Threads : call[t].pc = "output"}

\* Nothing is generated from a seed of another process: whatever the fork
\* finds, a DRBG in use, in error or never used, both the thread's DRBG and
\* the master are seeded again before the next output.
ForkSafe ==
  \A t \in Outputs : Mine(t).state = "READY" /\ Mine(t).seed.proc = pid

\* What is generated rests on every seeding of the master that was complete
\* when the request began, by whichever thread it was made or caused; with
\* prediction resistance on a later one.
SeedPropagates ==
  \A t \in Outputs :
    LET seed == Mine(t).seed
    IN seed.n >= call[t].start /\ (call[t].pr => seed.n > call[t].start)

\* A request for output fails only if the system fails while it is served:
\* errors that earlier calls, other threads or the parent process have left are
\* repaired.  (RAND_DRBG_reseed repairs none: the claim is not about it.)
Recovers == \A t \in Threads : ~call[t].bad

=============================================================================

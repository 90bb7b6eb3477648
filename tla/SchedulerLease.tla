--------------------------- MODULE SchedulerLease ---------------------------
(***************************************************************************)
(* The scheduler lease of app/scheduler.py: several server processes share *)
(* one database, and the one whose name is in the row of scheduler_lease   *)
(* does the scheduled work, which is started by two periodic jobs, tick    *)
(* and maintenance, in threads of their own.                               *)
(*                                                                         *)
(* A member of Procs is an owner string "host:pid": at most one process at *)
(* a time uses it, and a process started later may use it again.  Every    *)
(* statement on the lease row is atomic (_exec, or BEGIN IMMEDIATE), and   *)
(* anything may happen between two of them.                                *)
(*                                                                         *)
(* Instants are kept as ages: age is how long ago heartbeat_at was, lag    *)
(* how long ago a job read its "now" or, for an idle tick, how long ago it *)
(* ended.  Ages are capped.                                                *)
(***************************************************************************)
EXTENDS Integers

CONSTANTS
  Procs,
  Names,      \* the periodic jobs
  NoOwner,    \* no row in scheduler_lease
  Stale,      \* lease_stale_seconds()
  Delay,      \* the longest a job takes from reading "now" to its last statement
              \* on the row (SQLite's busy timeout bounds the wait for other processes)
  Period,     \* scheduler_interval: an idle tick is started again within it
  MaxStarts   \* bound of the model: how many processes are started

ASSUME OwnerAssumption == NoOwner \notin Procs
ASSUME NamesAssumption == "tick" \in Names /\ Names \subseteq {"tick", "maintenance"}
ASSUME TimeAssumption ==
  /\ Period \in Nat \ {0} /\ Delay \in Nat /\ Stale \in Nat /\ MaxStarts \in Nat
  /\ Stale >= 3 * Period    \* lease_stale_seconds: three scan periods at least
  /\ Delay + Period <= Stale - Delay

VARIABLES
  lease,    \* the row: its owner and the age of its heartbeat
  life,     \* how far a process is in start_scheduler and stop_scheduler
  named,    \* _lease_owner is set
  pc, lag,  \* the place of a job, and the age of its "now"
  starts

vars == <<lease, life, named, pc, lag, starts>>

Jobs == Procs \X Names

Lives == {"down", "starting", "running", "released", "unnamed", "shut"}
Places == {"idle", "renew", "read", "claim", "work"}

\* No comparison tells ages above these apart.
AgeCap == Stale + Delay
LagCap == Stale - Delay
Older(n, cap) == IF n < cap THEN n + 1 ELSE n

TypeOK ==
  /\ lease \in [owner : Procs \cup {NoOwner}, age : 0..AgeCap]
  /\ life \in [Procs -> Lives]
  /\ named \in [Procs -> BOOLEAN]
  /\ pc \in [Jobs -> Places]
  /\ lag \in [Jobs -> 0..LagCap]
  /\ starts \in 0..MaxStarts

Init ==
  /\ lease = [owner |-> NoOwner, age |-> 0]
  /\ life = [p \in Procs |-> "down"] /\ named = [p \in Procs |-> FALSE]
  /\ pc = [j \in Jobs |-> "idle"] /\ lag = [j \in Jobs |-> 0]
  /\ starts = 0

Goto(j, l) == pc' = [pc EXCEPT ![j] = l]
End(j) == Goto(j, "idle") /\ lag' = [lag EXCEPT ![j] = 0]
-----------------------------------------------------------------------------
(* start_scheduler and stop_scheduler, in the main thread. *)

\* The process starts and asks for the lease itself, before any job exists: it
\* uses the place of the job tick.
Start(p) ==
  /\ life[p] = "down" /\ starts < MaxStarts
  /\ starts' = starts + 1
  /\ life' = [life EXCEPT ![p] = "starting"]
  /\ named' = [named EXCEPT ![p] = TRUE]
  /\ Goto(<<p, "tick">>, "renew")
  /\ UNCHANGED <<lease, lag>>

\* release_scheduler_lease: DELETE ... WHERE owner = p.
Release(p) ==
  /\ life[p] = "running"
  /\ life' = [life EXCEPT ![p] = "released"]
  /\ lease' = IF lease.owner = p THEN [owner |-> NoOwner, age |-> 0] ELSE lease
  /\ UNCHANGED <<named, pc, lag, starts>>

\* _lease_owner = None
Unname(p) ==
  /\ life[p] = "released"
  /\ life' = [life EXCEPT ![p] = "unnamed"]
  /\ named' = [named EXCEPT ![p] = FALSE]
  /\ UNCHANGED <<lease, pc, lag, starts>>

\* shutdown(wait=False): no job is started any more; one that runs goes on.
Shutdown(p) ==
  /\ life[p] = "unnamed"
  /\ life' = [life EXCEPT ![p] = "shut"]
  /\ lag' = [lag EXCEPT ![<<p, "tick">>] = IF pc[<<p, "tick">>] = "idle" THEN 0 ELSE @]
  /\ UNCHANGED <<lease, named, pc, starts>>

\* The interpreter exits when the threads of its jobs have ended.
Exit(p) ==
  /\ life[p] = "shut" /\ \A n \in Names : pc[<<p, n>>] = "idle"
  /\ life' = [life EXCEPT ![p] = "down"]
  /\ UNCHANGED <<lease, named, pc, lag, starts>>

\* The process dies, anywhere.
Kill(p) ==
  /\ life[p] # "down"
  /\ life' = [life EXCEPT ![p] = "down"]
  /\ named' = [named EXCEPT ![p] = FALSE]
  /\ pc' = [j \in Jobs |-> IF j[1] = p THEN "idle" ELSE pc[j]]
  /\ lag' = [j \in Jobs |-> IF j[1] = p THEN 0 ELSE lag[j]]
  /\ UNCHANGED <<lease, starts>>
-----------------------------------------------------------------------------
(* The jobs. *)

\* Jobs are started from the end of start_scheduler to the shutdown.
Scheduling(p) == life[p] \in {"running", "released", "unnamed"}

\* Mutant: tick does not look at the lease.
FireUnasked(j) ==
  /\ Scheduling(j[1]) /\ pc[j] = "idle"
  /\ Goto(j, "work")
  /\ lag' = [lag EXCEPT ![j] = 0]
  /\ UNCHANGED <<lease, life, named, starts>>

\* tick and maintenance read the time, and go on at once if the process has
\* no name.  max_instances=1: a job does not overtake itself.
Fire(j) ==
  /\ Scheduling(j[1]) /\ pc[j] = "idle"
  /\ Goto(j, IF named[j[1]] THEN "renew" ELSE "work")
  /\ lag' = [lag EXCEPT ![j] = 0]
  /\ UNCHANGED <<lease, life, named, starts>>

\* _holds_lease returned True: the body of the job, or the end of
\* start_scheduler, which has none.
Granted(j) ==
  \/ /\ life[j[1]] # "starting"
     /\ Goto(j, "work") /\ UNCHANGED <<life, lag>>
  \/ /\ life[j[1]] = "starting"
     /\ End(j) /\ life' = [life EXCEPT ![j[1]] = "running"]

\* _holds_lease returned False (or raised).
Denied(j) ==
  /\ End(j)
  /\ life' = IF life[j[1]] = "starting" THEN [life EXCEPT ![j[1]] = "running"] ELSE life

\* heartbeat_scheduler_lease.  The name may be gone between the look at it and
\* its use; NULL is nobody's lease.
Renew(j) ==
  /\ pc[j] = "renew"
  /\ \/ /\ lease.owner = j[1]
        /\ lease' = [lease EXCEPT !.age = lag[j]]
        /\ Granted(j)
     \/ /\ lease.owner # j[1] \/ ~named[j[1]]
        /\ Goto(j, "read") /\ UNCHANGED <<lease, life, lag>>
  /\ UNCHANGED <<named, starts>>

\* The name is read again for acquire_scheduler_lease, which gets nowhere
\* without one: scheduler_lease.owner is NOT NULL.
Read(j) ==
  /\ pc[j] = "read"
  /\ \/ named[j[1]] /\ Goto(j, "claim") /\ UNCHANGED <<life, lag>>
     \/ ~named[j[1]] /\ Denied(j)
  /\ UNCHANGED <<lease, named, starts>>

\* Mutant: the lease of a dead process is not taken over.
FreeMissing(j) == lease.owner \in {NoOwner, j[1]}

\* Mutant: the lease lasts two scan periods.
FreeEarly(j) ==
  \/ lease.owner \in {NoOwner, j[1]}
  \/ lease.age >= lag[j] + 2 * Period

\* The row is missing, its owner is the process itself, or its heartbeat is not
\* later than stale_before, which counts from the job's own "now".
Free(j) ==
  \/ lease.owner \in {NoOwner, j[1]}
  \/ lease.age >= lag[j] + Stale

\* Mutant: the row keeps the time at which the lease ends.
ClaimUntil(j) ==
  /\ pc[j] = "claim"
  /\ \/ /\ Free(j)
        /\ lease' = [owner |-> j[1], age |-> lag[j] - Stale]
        /\ Granted(j)
     \/ /\ ~Free(j)
        /\ Denied(j) /\ UNCHANGED lease
  /\ UNCHANGED <<named, starts>>

\* acquire_scheduler_lease
Claim(j) ==
  /\ pc[j] = "claim"
  /\ \/ /\ Free(j)
        /\ lease' = [owner |-> j[1], age |-> lag[j]]
        /\ Granted(j)
     \/ /\ ~Free(j)
        /\ Denied(j) /\ UNCHANGED lease
  /\ UNCHANGED <<named, starts>>

\* The body of the job ends, by return or by an exception.
Finish(j) ==
  /\ pc[j] = "work"
  /\ End(j)
  /\ UNCHANGED <<lease, life, named, starts>>

\* A tick that waits for its timer.
Waiting(j) == pc[j] = "idle" /\ j[2] = "tick" /\ Scheduling(j[1])

\* Time passes, but not over a job that has used up its Delay or its Period.
Pass ==
  /\ \A j \in Jobs : /\ pc[j] \in {"renew", "read", "claim"} => lag[j] < Delay
                     /\ Waiting(j) => lag[j] < Period
  /\ lease' = IF lease.owner = NoOwner THEN lease ELSE [lease EXCEPT !.age = Older(@, AgeCap)]
  /\ lag' = [j \in Jobs |-> IF pc[j] # "idle" \/ Waiting(j) THEN Older(lag[j], LagCap) ELSE lag[j]]
  /\ UNCHANGED <<life, named, pc, starts>>

JobStep(j) == Renew(j) \/ Read(j) \/ Claim(j) \/ Finish(j)
MainStep(p) == Unname(p) \/ Shutdown(p) \/ Exit(p)

Next ==
  \/ \E p \in Procs : Start(p) \/ Release(p) \/ MainStep(p) \/ Kill(p)
  \/ \E j \in Jobs : Fire(j) \/ JobStep(j)
  \/ Pass

Spec == Init /\ [][Next]_vars

(***************************************************************************)
(* The timer starts tick again and again; threads run, and the bodies of   *)
(* the jobs end (every request carries a timeout); time passes.  Nobody    *)
(* has to start or stop a process, and none has to die.                    *)
(***************************************************************************)
Fairness ==
  /\ \A p \in Procs : WF_vars(Fire(<<p, "tick">>)) /\ WF_vars(MainStep(p))
  /\ \A j \in Jobs : WF_vars(JobStep(j))
  /\ WF_vars(Pass)

FairSpec == Spec /\ Fairness
-----------------------------------------------------------------------------
(* Properties. *)

\* A job whose process is being stopped, or that runs for so long that its
\* lease may have gone stale.
Exempt(j) == life[j[1]] # "running" \/ lag[j] + Delay >= Stale

\* The scheduled work of two processes overlaps only if one of them is being
\* stopped or its job outlasts the lease: locks are per process, so nothing
\* else keeps two ticks from submitting for the same account.
AloneAtWork ==
  \A i, j \in Jobs :
    pc[i] = "work" /\ pc[j] = "work" /\ i[1] # j[1] => Exempt(i) \/ Exempt(j)

\* As long as some process is up, work is done: a lease whose owner died, or
\* that an exiting process left behind, is taken over.
WorkGoesOn ==
  \A p \in Procs :
    life[p] = "running" ~> (life[p] # "running" \/ \E q \in Procs : pc[<<q, "tick">>] = "work")

\* A clean shutdown leaves no lease behind
\* (test_lease_is_released_on_clean_shutdown).
ReleasedByShutdown == \A p \in Procs : life[p] = "shut" => lease.owner # p
=============================================================================

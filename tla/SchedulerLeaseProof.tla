------------------------- MODULE SchedulerLeaseProof -------------------------
(***************************************************************************)
(* Proofs about SchedulerLease, for any number of processes and any        *)
(* Period, Delay and Stale that satisfy TimeAssumption.                    *)
(***************************************************************************)
EXTENDS SchedulerLease, TLAPS

\* A job at work that is not exempt has its lease: the heartbeat is at most a
\* Delay older than the job, whichever job of the process wrote it last.
Covered(j) ==
  pc[j] = "work" /\ ~Exempt(j) => lease.owner = j[1] /\ lease.age <= lag[j] + Delay

\* A job that asks for the lease does so with a recent "now".
Prompt(j) == pc[j] \in {"renew", "read", "claim"} => lag[j] <= Delay

\* A process that is up has its name, one that is not yet up does no work, and
\* one that is down has no job.
Staged(j) ==
  /\ life[j[1]] \in {"starting", "running", "released"} => named[j[1]]
  /\ life[j[1]] = "starting" => pc[j] # "work"
  /\ life[j[1]] = "down" => pc[j] = "idle"

\* No time is counted for an idle job that does not wait for its timer.
Rested(j) == pc[j] = "idle" /\ ~Waiting(j) => lag[j] = 0

Good(j) == Covered(j) /\ Prompt(j) /\ Staged(j) /\ Rested(j)

LInv == TypeOK /\ \A j \in Jobs : Good(j)

\* The invariant gives the property.
LEMMA Alone == LInv => AloneAtWork
BY DEF LInv, Good, Covered, AloneAtWork

\* Time only moves forward to its caps.
LEMMA OlderType ==
  ASSUME NEW cap \in Nat, NEW n \in 0..cap
  PROVE  Older(n, cap) \in 0..cap /\ Older(n, cap) >= n
         /\ (n < cap => Older(n, cap) = n + 1) /\ Older(n, cap) <= n + 1
BY DEF Older

\* The caps, and a lag of at most a Delay, are in range.
LEMMA Caps ==
  /\ AgeCap \in Nat /\ LagCap \in Nat /\ 0 \in 0..LagCap /\ 0 \in 0..AgeCap
  /\ Delay \in Nat /\ Stale \in Nat /\ AgeCap = Stale + Delay /\ LagCap = Stale - Delay
  /\ 0..LagCap \subseteq 0..AgeCap
BY TimeAssumption DEF AgeCap, LagCap

\* The fields of a job's name.
LEMMA JobParts == \A j \in Jobs : j[1] \in Procs /\ \A p \in Procs, n \in Names : <<p, n>> \in Jobs
BY DEF Jobs

\* The types of a state.
LEMMA Typed ==
  ASSUME TypeOK
  PROVE  /\ lease = [owner |-> lease.owner, age |-> lease.age]
         /\ lease.owner \in Procs \cup {NoOwner} /\ lease.age \in 0..AgeCap
         /\ \A j \in Jobs : lag[j] \in 0..LagCap /\ pc[j] \in Places
BY DEF TypeOK

\* A job is known by its process and its kind.
LEMMA TickJob ==
  /\ \A p \in Procs : <<p, "tick">> \in Jobs
  /\ \A p \in Procs, j \in Jobs : (j = <<p, "tick">>) <=> (j[1] = p /\ j[2] = "tick")
BY NamesAssumption DEF Jobs

\* A step that changes the place and the lag of job j, and of no other.
Still(j) ==
  /\ pc' \in [Jobs -> Places] /\ lag' \in [Jobs -> 0..LagCap]
  /\ \A i \in Jobs \ {j} : pc'[i] = pc[i] /\ lag'[i] = lag[i]

\* End(j) is such a step.
LEMMA EndStill ==
  ASSUME TypeOK, NEW j \in Jobs, End(j)
  PROVE  Still(j) /\ pc'[j] = "idle" /\ lag'[j] = 0
BY Caps DEF End, Goto, Still, TypeOK, Places

\* Goto(j, l) is such a step.
LEMMA GotoStill ==
  ASSUME TypeOK, NEW j \in Jobs, NEW l \in Places, Goto(j, l), lag' = lag
  PROVE  Still(j) /\ pc'[j] = l /\ lag'[j] = lag[j]
BY DEF Goto, Still, TypeOK

\* So is Goto(j, l) with the time read anew.
LEMMA FreshStill ==
  ASSUME TypeOK, NEW j \in Jobs, NEW l \in Places, Goto(j, l), lag' = [lag EXCEPT ![j] = 0]
  PROVE  Still(j) /\ pc'[j] = l /\ lag'[j] = 0
BY Caps DEF Goto, Still, TypeOK

\* The places a job can be sent to.
LEMMA PlaceNames == {"idle", "renew", "read", "claim", "work"} = Places
BY DEF Places
-----------------------------------------------------------------------------
\* At the start there is no lease, no process and no job.
LEMMA InitLInv == Init => LInv
<1> SUFFICES ASSUME Init PROVE LInv
  OBVIOUS
<1>1. TypeOK
  BY Caps, TimeAssumption DEF Init, TypeOK, Lives, Places
<1>2. ASSUME NEW j \in Jobs PROVE Good(j)
  BY JobParts DEF Init, Good, Covered, Prompt, Staged, Rested
<1> QED
  BY <1>1, <1>2 DEF LInv

\* A new process has no job, and the one it makes has read no time yet.
LEMMA StartKeeps ==
  ASSUME LInv, NEW p \in Procs, Start(p)
  PROVE  LInv'
<1> DEFINE t == <<p, "tick">>
<1>1. TypeOK /\ t \in Jobs /\ life[p] = "down" /\ Good(t)
  BY TickJob DEF LInv, Start
<1>2. Still(t) /\ pc'[t] = "renew" /\ lag'[t] = lag[t]
  BY <1>1, GotoStill, PlaceNames DEF Start
<1>3. TypeOK'
  BY <1>1, <1>2, TimeAssumption DEF TypeOK, Start, Still, Lives
<1>4. lag[t] = 0
  BY <1>1 DEF Good, Staged, Rested, Waiting, Scheduling
<1>5. life' = [life EXCEPT ![p] = "starting"] /\ named' = [named EXCEPT ![p] = TRUE] /\ lease' = lease
  BY DEF Start
<1>6. ASSUME NEW j \in Jobs PROVE Good(j)'
  <2>1. Good(j) /\ j[1] \in Procs
    BY JobParts DEF LInv
  <2>2. life'[j[1]] = (IF j[1] = p THEN "starting" ELSE life[j[1]])
        /\ named'[j[1]] = (IF j[1] = p THEN TRUE ELSE named[j[1]])
    BY <1>1, <1>5, <2>1 DEF TypeOK
  <2>3. CASE j = t
    BY <1>1, <1>2, <1>4, <2>2, <2>3, Caps DEF Good, Covered, Exempt, Prompt, Staged, Rested
  <2>4. CASE j # t /\ j[1] = p
    BY <1>1, <1>2, <2>1, <2>2, <2>4 DEF Still, Good, Covered, Exempt, Prompt, Staged, Rested, Waiting, Scheduling
  <2>5. CASE j[1] # p
    <3>1. j # t
      BY <2>5, TickJob
    <3> QED
      BY <1>2, <1>5, <2>1, <2>2, <2>5, <3>1 DEF Still, Good, Covered, Exempt, Prompt, Staged, Rested, Waiting, Scheduling
  <2> QED
    BY <2>3, <2>4, <2>5
<1> QED
  BY <1>3, <1>6 DEF LInv

\* A process that gives up its lease is being stopped, so its jobs are exempt.
LEMMA ReleaseKeeps ==
  ASSUME LInv, NEW p \in Procs, Release(p)
  PROVE  LInv'
<1>1. TypeOK
  BY DEF LInv
<1>2. TypeOK'
  BY <1>1, Caps DEF TypeOK, Release, Lives
<1>3. ASSUME NEW j \in Jobs PROVE Good(j)'
  <2>1. Good(j) /\ j[1] \in Procs
    BY JobParts DEF LInv
  <2>2. life'[j[1]] = (IF j[1] = p THEN "released" ELSE life[j[1]]) /\ life[p] = "running"
    BY <1>1, <2>1 DEF TypeOK, Release
  <2>3. j[1] # p /\ lease.owner = j[1] => lease' = lease
    BY DEF Release
  <2> QED
    BY <2>1, <2>2, <2>3 DEF Release, Good, Covered, Exempt, Prompt, Staged, Rested, Waiting, Scheduling
<1> QED
  BY <1>2, <1>3 DEF LInv

\* So are those of a process that gives up its name,
LEMMA UnnameKeeps ==
  ASSUME LInv, NEW p \in Procs, Unname(p)
  PROVE  LInv'
<1>1. TypeOK
  BY DEF LInv
<1>2. TypeOK'
  BY <1>1 DEF TypeOK, Unname, Lives
<1>3. ASSUME NEW j \in Jobs PROVE Good(j)'
  <2>1. Good(j) /\ j[1] \in Procs
    BY JobParts DEF LInv
  <2>2. /\ life'[j[1]] = (IF j[1] = p THEN "unnamed" ELSE life[j[1]]) /\ life[p] = "released"
        /\ named'[j[1]] = (IF j[1] = p THEN FALSE ELSE named[j[1]])
    BY <1>1, <2>1 DEF TypeOK, Unname
  <2> QED
    BY <2>1, <2>2 DEF Unname, Good, Covered, Exempt, Prompt, Staged, Rested, Waiting, Scheduling
<1> QED
  BY <1>2, <1>3 DEF LInv

\* and of one whose timer is stopped.
LEMMA ShutdownKeeps ==
  ASSUME LInv, NEW p \in Procs, Shutdown(p)
  PROVE  LInv'
<1> DEFINE t == <<p, "tick">>
<1>1. TypeOK /\ t \in Jobs
  BY TickJob DEF LInv
<1>2. TypeOK'
  BY <1>1, Caps DEF TypeOK, Shutdown, Lives
<1>3. ASSUME NEW j \in Jobs PROVE Good(j)'
  <2>1. Good(j) /\ j[1] \in Procs
    BY JobParts DEF LInv
  <2>2. life'[j[1]] = (IF j[1] = p THEN "shut" ELSE life[j[1]]) /\ life[p] = "unnamed"
    BY <1>1, <2>1 DEF TypeOK, Shutdown
  <2>3. lag'[j] = (IF j[1] = p /\ j[2] = "tick" /\ pc[j] = "idle" THEN 0 ELSE lag[j])
    BY <1>1, TickJob DEF TypeOK, Shutdown
  <2> QED
    BY <2>1, <2>2, <2>3, Caps DEF Shutdown, Good, Covered, Exempt, Prompt, Staged, Rested, Waiting, Scheduling
<1> QED
  BY <1>2, <1>3 DEF LInv

\* An exiting process has no job left.
LEMMA ExitKeeps ==
  ASSUME LInv, NEW p \in Procs, Exit(p)
  PROVE  LInv'
<1>1. TypeOK
  BY DEF LInv
<1>2. TypeOK'
  BY <1>1 DEF TypeOK, Exit, Lives
<1>3. ASSUME NEW j \in Jobs PROVE Good(j)'
  <2>1. Good(j) /\ j[1] \in Procs
    BY JobParts DEF LInv
  <2>2. life'[j[1]] = (IF j[1] = p THEN "down" ELSE life[j[1]]) /\ life[p] = "shut"
    BY <1>1, <2>1 DEF TypeOK, Exit
  <2>3. j[1] = p => pc[j] = "idle"
    BY DEF Exit, Jobs
  <2> QED
    BY <2>1, <2>2, <2>3 DEF Exit, Good, Covered, Exempt, Prompt, Staged, Rested, Waiting, Scheduling
<1> QED
  BY <1>2, <1>3 DEF LInv

\* A process that dies takes its jobs along.
LEMMA KillKeeps ==
  ASSUME LInv, NEW p \in Procs, Kill(p)
  PROVE  LInv'
<1>1. TypeOK
  BY DEF LInv
<1>2. TypeOK'
  BY <1>1, Caps, PlaceNames DEF TypeOK, Kill, Lives
<1>3. ASSUME NEW j \in Jobs PROVE Good(j)'
  <2>1. Good(j) /\ j[1] \in Procs
    BY JobParts DEF LInv
  <2>2. /\ life'[j[1]] = (IF j[1] = p THEN "down" ELSE life[j[1]])
        /\ named'[j[1]] = (IF j[1] = p THEN FALSE ELSE named[j[1]])
        /\ pc'[j] = (IF j[1] = p THEN "idle" ELSE pc[j])
        /\ lag'[j] = (IF j[1] = p THEN 0 ELSE lag[j])
    BY <1>1, <2>1 DEF TypeOK, Kill
  <2> QED
    BY <2>1, <2>2, Caps DEF Kill, Good, Covered, Exempt, Prompt, Staged, Rested, Waiting, Scheduling
<1> QED
  BY <1>2, <1>3 DEF LInv
-----------------------------------------------------------------------------
\* A started job has a new "now"; one without a name belongs to a process that
\* is being stopped.
LEMMA FireKeeps ==
  ASSUME LInv, NEW j \in Jobs, Fire(j)
  PROVE  LInv'
<1> DEFINE l == IF named[j[1]] THEN "renew" ELSE "work"
<1>1. TypeOK
  BY DEF LInv
<1>2. Still(j) /\ pc'[j] = l /\ lag'[j] = 0
  BY <1>1, FreshStill, PlaceNames DEF Fire
<1>3. TypeOK'
  BY <1>1, <1>2 DEF TypeOK, Fire, Still
<1>4. ASSUME NEW i \in Jobs PROVE Good(i)'
  <2>1. Good(i)
    BY DEF LInv
  <2>2. CASE i = j
    BY <1>2, <2>1, <2>2, Caps DEF Fire, Good, Covered, Exempt, Prompt, Staged, Rested, Scheduling
  <2>3. CASE i # j
    BY <1>2, <2>1, <2>3 DEF Fire, Still, Good, Covered, Exempt, Prompt, Staged, Rested, Waiting, Scheduling
  <2> QED
    BY <2>2, <2>3
<1> QED
  BY <1>3, <1>4 DEF LInv

\* The name of a job's process may become the lease's if the job is prompt and no
\* other process is covered by it.
Grantable(j) ==
  /\ pc[j] \in {"renew", "claim"}
  /\ lease' = [owner |-> j[1], age |-> lag[j]]
  /\ \A i \in Jobs : pc[i] = "work" /\ ~Exempt(i) => i[1] = j[1]

\* Then the lease covers the job, and every other job of its process.
LEMMA GrantedKeeps ==
  ASSUME LInv, NEW j \in Jobs, Grantable(j), Granted(j), UNCHANGED <<named, starts>>
  PROVE  LInv'
<1>1. TypeOK /\ j[1] \in Procs /\ Good(j) /\ lag[j] \in 0..LagCap
  BY JobParts DEF LInv, TypeOK
<1>2. lag[j] <= Delay /\ lease'.owner = j[1] /\ lease'.age = lag[j]
  BY <1>1 DEF Grantable, Good, Prompt
<1>3. lease' \in [owner : Procs \cup {NoOwner}, age : 0..AgeCap]
  BY <1>1, Caps DEF Grantable
<1>4. CASE life[j[1]] # "starting" /\ Goto(j, "work") /\ UNCHANGED <<life, lag>>
  <2>1. Still(j) /\ pc'[j] = "work" /\ lag'[j] = lag[j]
    BY <1>1, <1>4, GotoStill, PlaceNames
  <2>2. TypeOK'
    BY <1>1, <1>3, <1>4, <2>1 DEF TypeOK, Still
  <2>3. ASSUME NEW i \in Jobs PROVE Good(i)'
    <3>1. Good(i) /\ lag[i] \in 0..LagCap
      BY <1>1 DEF LInv, TypeOK
    <3>2. CASE i = j
      BY <1>1, <1>2, <1>4, <2>1, <3>2, Caps DEF Grantable, Good, Covered, Prompt, Staged, Rested
    <3>3. CASE i # j
      <4>1. Covered(i)'
        BY <1>1, <1>2, <1>4, <2>1, <3>1, <3>3, Caps DEF Grantable, Still, Good, Covered, Exempt
      <4> QED
        BY <1>4, <2>1, <3>1, <3>3, <4>1 DEF Still, Good, Prompt, Staged, Rested, Waiting, Scheduling
    <3> QED
      BY <3>2, <3>3
  <2> QED
    BY <2>2, <2>3 DEF LInv
<1>5. CASE life[j[1]] = "starting" /\ End(j) /\ life' = [life EXCEPT ![j[1]] = "running"]
  <2>1. Still(j) /\ pc'[j] = "idle" /\ lag'[j] = 0
    BY <1>1, <1>5, EndStill
  <2>2. TypeOK'
    BY <1>1, <1>3, <1>5, <2>1 DEF TypeOK, Still, Lives
  <2>3. ASSUME NEW i \in Jobs PROVE Good(i)'
    <3>1. Good(i) /\ lag[i] \in 0..LagCap /\ i[1] \in Procs
      BY <1>1, JobParts DEF LInv, TypeOK
    <3>2. life'[i[1]] = (IF i[1] = j[1] THEN "running" ELSE life[i[1]])
      BY <1>1, <1>5, <3>1 DEF TypeOK
    <3>3. CASE i = j
      BY <1>1, <1>5, <2>1, <3>2, <3>3, Caps DEF Good, Covered, Prompt, Staged, Rested
    <3>4. CASE i # j
      <4>1. Covered(i)'
        BY <1>1, <1>2, <1>5, <2>1, <3>1, <3>2, <3>4, Caps DEF Grantable, Still, Good, Covered, Exempt, Staged
      <4> QED
        BY <1>5, <2>1, <3>1, <3>2, <3>4, <4>1 DEF Still, Good, Prompt, Staged, Rested, Waiting, Scheduling
    <3> QED
      BY <3>3, <3>4
  <2> QED
    BY <2>2, <2>3 DEF LInv
<1> QED
  BY <1>4, <1>5 DEF Granted

\* A job that ends leaves the lease, and the jobs of others, as they are.
LEMMA DeniedKeeps ==
  ASSUME LInv, NEW j \in Jobs, Denied(j), UNCHANGED <<lease, named, starts>>, pc[j] # "idle"
  PROVE  LInv'
<1>1. TypeOK /\ j[1] \in Procs /\ Good(j)
  BY JobParts DEF LInv
<1>2. Still(j) /\ pc'[j] = "idle" /\ lag'[j] = 0
  BY <1>1, EndStill DEF Denied
<1>3. TypeOK'
  BY <1>1, <1>2 DEF Denied, TypeOK, Still, Lives
<1>4. ASSUME NEW i \in Jobs PROVE Good(i)'
  <2>1. Good(i) /\ i[1] \in Procs
    BY JobParts DEF LInv
  <2>2. life'[i[1]] = (IF i[1] = j[1] /\ life[i[1]] = "starting" THEN "running" ELSE life[i[1]])
    BY <1>1, <2>1 DEF Denied, TypeOK
  <2>3. CASE i = j
    BY <1>1, <1>2, <2>2, <2>3, Caps DEF Good, Covered, Prompt, Staged, Rested
  <2>4. CASE i # j
    BY <1>2, <2>1, <2>2, <2>4 DEF Still, Good, Covered, Exempt, Prompt, Staged, Rested, Waiting, Scheduling
  <2> QED
    BY <2>3, <2>4
<1> QED
  BY <1>3, <1>4 DEF LInv

\* A job that goes from one statement on the row to the next.
LEMMA AskOnKeeps ==
  ASSUME LInv, NEW j \in Jobs, pc[j] \in {"renew", "read"}, NEW l \in {"read", "claim"},
         Goto(j, l), UNCHANGED <<lease, life, named, lag, starts>>
  PROVE  LInv'
<1>1. TypeOK /\ Good(j)
  BY DEF LInv
<1>2. Still(j) /\ pc'[j] = l /\ lag'[j] = lag[j]
  BY <1>1, GotoStill, PlaceNames
<1>3. TypeOK'
  BY <1>1, <1>2 DEF TypeOK, Still
<1>4. ASSUME NEW i \in Jobs PROVE Good(i)'
  <2>1. Good(i)
    BY DEF LInv
  <2>2. CASE i = j
    BY <1>1, <1>2, <2>2 DEF Good, Covered, Prompt, Staged, Rested
  <2>3. CASE i # j
    BY <1>2, <2>1, <2>3 DEF Still, Good, Covered, Exempt, Prompt, Staged, Rested, Waiting, Scheduling
  <2> QED
    BY <2>2, <2>3
<1> QED
  BY <1>3, <1>4 DEF LInv
-----------------------------------------------------------------------------
\* A job that is covered belongs to the owner of the lease.
LEMMA RenewKeeps ==
  ASSUME LInv, NEW j \in Jobs, Renew(j)
  PROVE  LInv'
<1>1. TypeOK /\ \A i \in Jobs : Covered(i)
  BY DEF LInv, Good
<1>2. CASE lease.owner = j[1] /\ lease' = [lease EXCEPT !.age = lag[j]] /\ Granted(j)
  <2>1. Grantable(j)
    BY <1>1, <1>2, Typed DEF Renew, Grantable, Covered
  <2> QED
    BY <1>2, <2>1, GrantedKeeps DEF Renew
<1>3. CASE Goto(j, "read") /\ UNCHANGED <<lease, life, lag>>
  BY <1>3, AskOnKeeps DEF Renew
<1> QED
  BY <1>2, <1>3 DEF Renew

\* The look at the name changes no lease.
LEMMA ReadKeeps ==
  ASSUME LInv, NEW j \in Jobs, Read(j)
  PROVE  LInv'
<1>1. CASE Goto(j, "claim") /\ UNCHANGED <<life, lag>>
  BY <1>1, AskOnKeeps DEF Read
<1>2. CASE Denied(j)
  BY <1>2, DeniedKeeps DEF Read
<1> QED
  BY <1>1, <1>2 DEF Read

\* A lease that is old enough to be taken covers no job: its age would be at most
\* the job's lag and a Delay, which is less than Stale.
LEMMA ClaimKeeps ==
  ASSUME LInv, NEW j \in Jobs, Claim(j)
  PROVE  LInv'
<1>1. TypeOK /\ \A i \in Jobs : Covered(i)
  BY DEF LInv, Good
<1>2. CASE Free(j) /\ lease' = [owner |-> j[1], age |-> lag[j]] /\ Granted(j)
  <2>1. ASSUME NEW i \in Jobs, pc[i] = "work", ~Exempt(i) PROVE i[1] = j[1]
    <3>1. lease.owner = i[1] /\ lease.age <= lag[i] + Delay /\ lag[i] + Delay < Stale
      BY <1>1, <2>1, Caps, Typed DEF Covered, Exempt
    <3>2. i[1] \in Procs /\ lag[i] \in Nat /\ lag[j] \in Nat /\ lease.age \in Nat
      BY <1>1, Typed, JobParts, Caps
    <3>3. ~(lease.age >= lag[j] + Stale)
      BY <3>1, <3>2, Caps
    <3> QED
      BY <1>2, <3>1, <3>2, <3>3, OwnerAssumption DEF Free
  <2>2. Grantable(j)
    BY <1>2, <2>1 DEF Claim, Grantable
  <2> QED
    BY <1>2, <2>2, GrantedKeeps DEF Claim
<1>3. CASE Denied(j) /\ UNCHANGED lease
  BY <1>3, DeniedKeeps DEF Claim
<1> QED
  BY <1>2, <1>3 DEF Claim

\* The end of a body changes no lease.
LEMMA FinishKeeps ==
  ASSUME LInv, NEW j \in Jobs, Finish(j)
  PROVE  LInv'
<1>1. TypeOK /\ Good(j)
  BY DEF LInv
<1>2. Still(j) /\ pc'[j] = "idle" /\ lag'[j] = 0
  BY <1>1, EndStill DEF Finish
<1>3. TypeOK'
  BY <1>1, <1>2 DEF Finish, TypeOK, Still
<1>4. ASSUME NEW i \in Jobs PROVE Good(i)'
  <2>1. Good(i)
    BY DEF LInv
  <2>2. CASE i = j
    BY <1>1, <1>2, <2>2, Caps DEF Finish, Good, Covered, Prompt, Staged, Rested
  <2>3. CASE i # j
    BY <1>2, <2>1, <2>3 DEF Finish, Still, Good, Covered, Exempt, Prompt, Staged, Rested, Waiting, Scheduling
  <2> QED
    BY <2>2, <2>3
<1> QED
  BY <1>3, <1>4 DEF LInv

\* The heartbeat ages no faster than a job at work, up to the lag at which the
\* job is exempt.
LEMMA PassKeeps ==
  ASSUME LInv, Pass
  PROVE  LInv'
<1>1. TypeOK
  BY DEF LInv
<1>2. lease' \in [owner : Procs \cup {NoOwner}, age : 0..AgeCap]
      /\ lease'.owner = lease.owner /\ lease'.age <= lease.age + 1
  <2>1. lease.age \in 0..AgeCap /\ AgeCap \in Nat
    BY <1>1, Typed, Caps
  <2>2. Older(lease.age, AgeCap) \in 0..AgeCap /\ Older(lease.age, AgeCap) <= lease.age + 1
    BY <2>1, OlderType
  <2> QED
    BY <1>1, <2>1, <2>2 DEF Pass, TypeOK
<1>3. ASSUME NEW j \in Jobs
      PROVE  /\ lag'[j] \in 0..LagCap /\ lag'[j] <= lag[j] + 1
             /\ pc[j] = "idle" /\ ~Waiting(j) => lag'[j] = lag[j]
             /\ pc[j] # "idle" /\ lag[j] < LagCap => lag'[j] = lag[j] + 1
             /\ pc[j] # "idle" /\ ~(lag[j] < LagCap) => lag'[j] = lag[j]
  <2>1. lag[j] \in 0..LagCap /\ LagCap \in Nat
    BY <1>1, Typed, Caps
  <2>2. lag'[j] = IF pc[j] # "idle" \/ Waiting(j) THEN Older(lag[j], LagCap) ELSE lag[j]
    BY DEF Pass
  <2> QED
    BY <2>1, <2>2 DEF Older
<1>4. TypeOK'
  <2>1. lag' \in [Jobs -> 0..LagCap]
    BY <1>3 DEF Pass
  <2> QED
    BY <1>1, <1>2, <2>1 DEF TypeOK, Pass
<1>5. ASSUME NEW j \in Jobs PROVE Good(j)'
  <2>1. Good(j) /\ lag[j] \in 0..LagCap /\ lease.age \in 0..AgeCap /\ j[1] \in Procs
    BY <1>1, Typed, JobParts DEF LInv
  <2>2. Covered(j)'
    <3>1. SUFFICES ASSUME pc[j] = "work", life[j[1]] = "running", lag'[j] + Delay < Stale
                   PROVE  lease'.owner = j[1] /\ lease'.age <= lag'[j] + Delay
      BY <1>3, Caps DEF Covered, Exempt, Pass
    <3>2. lag'[j] = lag[j] + 1
      BY <1>3, <2>1, <3>1, Caps
    <3>3. ~Exempt(j)
      BY <2>1, <3>1, <3>2, Caps DEF Exempt
    <3> QED
      BY <1>2, <2>1, <3>1, <3>2, <3>3, Caps DEF Good, Covered
  <2>3. Prompt(j)'
    BY <1>3, <2>1, Caps DEF Pass, Prompt
  <2>4. Staged(j)' /\ Rested(j)'
    BY <1>3, <2>1 DEF Pass, Good, Staged, Rested, Waiting, Scheduling
  <2> QED
    BY <2>2, <2>3, <2>4 DEF Good
<1> QED
  BY <1>4, <1>5 DEF LInv
-----------------------------------------------------------------------------
\* LInv is an invariant of the specification.
THEOREM Invariance == Spec => []LInv
<1>1. LInv /\ [Next]_vars => LInv'
  <2> SUFFICES ASSUME LInv, [Next]_vars PROVE LInv'
    OBVIOUS
  <2>1. CASE \E p \in Procs : Start(p) \/ Release(p) \/ MainStep(p) \/ Kill(p)
    BY <2>1, StartKeeps, ReleaseKeeps, UnnameKeeps, ShutdownKeeps, ExitKeeps, KillKeeps DEF MainStep
  <2>2. CASE \E j \in Jobs : Fire(j) \/ JobStep(j)
    BY <2>2, FireKeeps, RenewKeeps, ReadKeeps, ClaimKeeps, FinishKeeps DEF JobStep
  <2>3. CASE Pass
    BY <2>3, PassKeeps
  <2>4. CASE UNCHANGED vars
    BY <2>4 DEF vars, LInv, TypeOK, Good, Covered, Exempt, Prompt, Staged, Rested, Waiting, Scheduling
  <2> QED
    BY <2>1, <2>2, <2>3, <2>4 DEF Next
<1> QED
  BY InitLInv, <1>1, PTL DEF Spec

\* The state of the lease, of the processes and of their jobs always has its type.
THEOREM TypeCorrect == Spec => []TypeOK
<1>1. LInv => TypeOK
  BY DEF LInv
<1> QED
  BY Invariance, <1>1, PTL

\* Two processes never do scheduled work at the same time, unless one is being
\* stopped or its job outlasts the lease.
THEOREM WorkAlone == Spec => []AloneAtWork
BY Invariance, Alone, PTL
=============================================================================

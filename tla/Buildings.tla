------------------------------ MODULE Buildings ------------------------------
(***************************************************************************)
(* app/buildings.py and the parts of app/checkin.py that find out where to *)
(* check in: the coordinates of buildings, which all accounts share in a   *)
(* file and a cache of it, and the coordinates of private addresses, which *)
(* are meant to stay with their account.                                   *)
(*                                                                         *)
(* Runs of different accounts go on at the same time.  A dict is an object *)
(* (objs) that a thread goes on using when the cache has forgotten it, and *)
(* a file is an inode (data) that is written through a descriptor when its *)
(* name has gone to another one.  The school places a student and accepts  *)
(* or refuses coordinates as it likes, and may leave a place's name out.   *)
(***************************************************************************)
EXTENDS Integers, FiniteSets, Functions

CONSTANTS
  Students,  \* accounts, each with one run at a time
  Houses,    \* names for which cacheable holds: buildings
  Labels,    \* names for which it does not: "the address you declared"
  Seeded,    \* the buildings in data/buildings.json
  NoName, NoCoord, NoRef,
  NoText, Torn,  \* what a file may hold that is not a dict: nothing yet, or parts of two texts
  MaxRuns,   \* bound: the runs
  Objs, Inodes  \* there are enough of them for every thread, the cache, the file and its .tmp

Places == Houses \cup Labels
\* buildings.base, a building's place, and the address of a student.
Base == [kind |-> "base"]
House(h) == [kind |-> "house", of |-> h]
Own(s) == [kind |-> "own", of |-> s]
Coords == {Base} \cup {House(h) : h \in Houses} \cup {Own(s) : s \in Students}
Points == Coords \X {"exact", "near"}

Dicts == [Places -> Coords \cup {NoCoord}]
EmptyDict == [n \in Places |-> NoCoord]
Contents == Dicts \cup {NoText, Torn}

ASSUME NameAssumption ==
  /\ NoName \notin Places /\ Houses \cap Labels = {} /\ Seeded \subseteq Houses
  /\ NoCoord \notin Coords \cup Points /\ NoRef \notin Objs \cup Inodes \cup Contents
  /\ NoText # Torn /\ {NoText, Torn} \cap Dicts = {}
ASSUME EnoughAssumption ==
  /\ MaxRuns \in Nat
  /\ IsFiniteSet(Objs) /\ IsFiniteSet(Inodes) /\ IsFiniteSet(Students)
  /\ Cardinality(Objs) > Cardinality(Students)
  /\ Cardinality(Inodes) > Cardinality(Students) + 1

VARIABLES
  home,             \* where the school places a student
  dkdz, jd,         \* accounts.dkdz and accounts.jd, wd
  objs, cache,      \* dicts, and the one that lru_cache keeps for _learned
  data, file, tmp,  \* inodes, and those of buildings.learned.json and .tmp
  pc,
  dict, read,       \* the dict a thread is using, and the text it read to make one
  name, coord,      \* school_name and the coordinates under consideration
  text, fd,         \* in learn: what is to be written, and to where
  ok,               \* history: the point the school has accepted last, in this run
  runs,             \* how many runs there have been
  taught,           \* history: the buildings that learn has returned for
  mistaken          \* history: the students whose address was learnt as a building's place

vars == <<home, dkdz, jd, objs, cache, data, file, tmp, pc, dict, read, name, coord, text,
          fd, ok, runs, taught, mistaken>>
account == <<dkdz, jd>>
disk == <<data, file, tmp>>
memory == <<objs, cache>>
local == <<dict, read, text, fd>>

\* The places that use a dict: resolve, three times, and learn.
Lookups == {"known", "named", "probed"}
Learning == {"learn", "open", "write", "rename", "clear"}
PCs == {"idle", "check", "base", "locate", "verify", "jitter", "submit", "other"}
         \cup Lookups \cup Learning

TypeOK ==
  /\ home \in [Students -> Places]
  /\ dkdz \in [Students -> Places \cup {NoName}] /\ jd \in [Students -> Coords \cup {NoCoord}]
  /\ objs \in [Objs -> Dicts] /\ cache \in Objs \cup {NoRef}
  /\ data \in [Inodes -> Contents]
  /\ file \in Inodes \cup {NoRef} /\ tmp \in Inodes \cup {NoRef} /\ (file = tmp => file = NoRef)
  /\ pc \in [Students -> PCs]
  /\ dict \in [Students -> Objs \cup {NoRef}] /\ read \in [Students -> Contents \cup {NoRef}]
  /\ name \in [Students -> Places \cup {NoName}]
  /\ coord \in [Students -> Points \cup {NoCoord}]
  /\ text \in [Students -> Contents] /\ fd \in [Students -> Inodes \cup {NoRef}]
  /\ ok \in [Students -> Points \cup {NoCoord}] /\ runs \in 0..MaxRuns
  /\ taught \subseteq Places /\ mistaken \subseteq Students

Init ==
  /\ home \in [Students -> Places]
  /\ dkdz = [s \in Students |-> NoName] /\ jd = [s \in Students |-> NoCoord]
  /\ objs = [o \in Objs |-> EmptyDict] /\ cache = NoRef
  /\ data = [i \in Inodes |-> NoText] /\ file = NoRef /\ tmp = NoRef
  /\ pc = [s \in Students |-> "idle"]
  /\ dict = [s \in Students |-> NoRef] /\ read = [s \in Students |-> NoRef]
  /\ name = [s \in Students |-> NoName] /\ coord = [s \in Students |-> NoCoord]
  /\ text = [s \in Students |-> NoText] /\ fd = [s \in Students |-> NoRef]
  /\ ok = [s \in Students |-> NoCoord] /\ runs = 0 /\ taught = {} /\ mistaken = {}

Goto(s, l) == pc' = [pc EXCEPT ![s] = l]
Set(f, s, v) == [f EXCEPT ![s] = v]
Exact(c) == <<c, "exact">>
\* Where the school has the student's place.
Where(s) == IF home[s] \in Houses THEN House(home[s]) ELSE Own(s)
Cacheable(n) == n \in Houses
\* The name that a run goes on with after an answer of the school: the one in it, or n if
\* the answer has no yxMc.
Told(s, n) == {home[s], n}

\* The run is over, by an exception or a result.
Finish(s) ==
  /\ Goto(s, "idle") /\ name' = Set(name, s, NoName) /\ coord' = Set(coord, s, NoCoord)
  /\ ok' = Set(ok, s, NoCoord)
-----------------------------------------------------------------------------
(* _learned: the dict that is cached, or else what the file holds, which is *)
(* cached if no other thread was faster.  A file that cannot be read is     *)
(* taken for an empty one.                                                  *)

\* A dict that nothing refers to any more, and a file without a name or a descriptor, is gone.
Kept(os, refs) == [o \in Objs |-> IF o \in refs THEN os[o] ELSE EmptyDict]
Linked(d, refs) == [i \in Inodes |-> IF i \in refs THEN d[i] ELSE NoText]

\* The thread is done with the dict.
Release(s) ==
  /\ dict' = Set(dict, s, NoRef)
  /\ objs' = Kept(objs, {cache} \cup Range(dict'))

Wants(s) ==
  /\ pc[s] \in Lookups \cup {"learn"} /\ dict[s] = NoRef
  /\ pc[s] = "known" => Cacheable(dkdz[s])
  /\ pc[s] \in {"named", "probed"} => name[s] # NoName

Hit(s) ==
  /\ Wants(s) /\ read[s] = NoRef /\ cache # NoRef
  /\ dict' = Set(dict, s, cache)
  /\ UNCHANGED <<home, account, memory, disk, pc, read, name, coord, text, fd, ok, runs, taught,
                  mistaken>>

Read(s) ==
  /\ Wants(s) /\ read[s] = NoRef /\ cache = NoRef
  /\ read' = Set(read, s, IF file = NoRef THEN EmptyDict ELSE data[file])
  /\ UNCHANGED <<home, account, memory, disk, pc, dict, name, coord, text, fd, ok, runs, taught,
                  mistaken>>

Fill(s) ==
  /\ read[s] # NoRef /\ read' = Set(read, s, NoRef)
  /\ LET used == {cache} \cup Range(dict)
         o == CHOOSE o \in Objs : o \notin used
     IN  /\ objs' = [objs EXCEPT ![o] = IF read[s] \in Dicts THEN read[s] ELSE EmptyDict]
         /\ dict' = Set(dict, s, o)
         /\ cache' = IF cache = NoRef THEN o ELSE cache
  /\ UNCHANGED <<home, account, disk, pc, name, coord, text, fd, ok, runs, taught, mistaken>>

\* resolve: what has been learnt goes before the seed.
Resolved(s, n) ==
  LET learnt == objs[dict[s]][n]
  IN  IF learnt # NoCoord THEN learnt ELSE IF n \in Seeded THEN House(n) ELSE NoCoord
-----------------------------------------------------------------------------
(* A run up to the submission. *)

\* A query of the school: it accepts the point or not.
Accepted(s, p) == ok' = Set(ok, s, p)

\* What the run needs no more is forgotten.
Settled(s) == Goto(s, "jitter") /\ name' = Set(name, s, NoName)

Save(s, n, c) ==
  LET named == IF n = NoName THEN dkdz[s] ELSE n
  IN  /\ dkdz' = Set(dkdz, s, named)
      /\ jd' = IF c = NoCoord THEN jd ELSE Set(jd, s, IF Cacheable(named) THEN NoCoord ELSE c)

Start(s) ==
  /\ pc[s] = "idle" /\ runs < MaxRuns /\ runs' = runs + 1 /\ Goto(s, "known")
  /\ UNCHANGED <<home, account, memory, disk, local, name, coord, ok, taught, mistaken>>

\* _other_coord: without coordinates, the base point.
\* Mutant: nothing stands in for them.
OtherNothing(c) == c
OtherCoord(c) == IF c = NoCoord THEN Base ELSE c

\* _coords_for, and what _submit_other or _submit do about them.
Known(s) ==
  /\ pc[s] = "known" /\ ~Wants(s)
  /\ LET c == IF Cacheable(dkdz[s]) THEN Resolved(s, dkdz[s]) ELSE jd[s]
     IN  \/ /\ coord' = Set(coord, s, <<OtherCoord(c), "near">>) /\ Goto(s, "other")
            /\ jd' = IF c = NoCoord THEN Set(jd, s, OtherCoord(c)) ELSE jd
            /\ UNCHANGED name
         \/ /\ IF c = NoCoord THEN Goto(s, "named") /\ UNCHANGED coord
               ELSE Goto(s, "check") /\ coord' = Set(coord, s, Exact(c))
            /\ name' = Set(name, s, dkdz[s]) /\ UNCHANGED jd
  /\ Release(s)
  /\ UNCHANGED <<home, dkdz, cache, disk, read, text, fd, ok, runs, taught, mistaken>>

\* The account's own coordinates are checked first.
Check(s) ==
  /\ pc[s] = "check"
  /\ \/ /\ Accepted(s, coord[s]) /\ Settled(s) /\ UNCHANGED coord
        /\ \E n \in Told(s, NoName) : Save(s, n, coord[s][1])
     \/ /\ Goto(s, "named") /\ coord' = Set(coord, s, NoCoord)
        /\ UNCHANGED <<account, ok, name>>
  /\ UNCHANGED <<home, memory, disk, local, runs, taught, mistaken>>

\* for_student: the coordinates of the name the account has, then those of the name
\* the school gives; the school is asked before they are used.
Lookup(s) ==
  /\ pc[s] \in {"named", "probed"} /\ ~Wants(s)
  /\ LET c == Resolved(s, name[s])
         next == IF pc[s] = "named" THEN "base" ELSE "locate"
     IN  \/ /\ name[s] # NoName /\ c # NoCoord
            /\ coord' = Set(coord, s, Exact(c)) /\ Accepted(s, Exact(c))
            /\ \E n \in Told(s, name[s]) : Save(s, n, c)
            /\ Settled(s)
         \/ Goto(s, next) /\ UNCHANGED <<account, coord, ok, name>>
  /\ Release(s)
  /\ UNCHANGED <<home, cache, disk, read, text, fd, runs, taught, mistaken>>

\* The base point, which is used, but not kept, when the school accepts it everywhere.  A
\* run without a name takes the one in the answer, if there is one.
Probe(s) ==
  /\ pc[s] = "base"
  /\ \/ /\ coord' = Set(coord, s, Exact(Base)) /\ Accepted(s, Exact(Base))
        /\ \E n \in Told(s, NoName) : Save(s, n, NoCoord)
        /\ Settled(s)
     \/ /\ IF name[s] # NoName THEN Goto(s, "locate") /\ UNCHANGED name
           ELSE Goto(s, "probed") /\ \E n \in Told(s, NoName) : name' = Set(name, s, n)
        /\ UNCHANGED <<account, coord, ok>>
  /\ UNCHANGED <<home, memory, disk, local, runs, taught, mistaken>>

\* Mutant: every name is learnt.
LocateAll(s) ==
  /\ pc[s] = "locate" /\ coord' = Set(coord, s, Exact(Where(s)))
  /\ \E n \in Told(s, name[s]) :
       /\ name' = Set(name, s, n) /\ Goto(s, IF n # NoName THEN "learn" ELSE "verify")
       /\ mistaken' = IF Cacheable(n) /\ ~Cacheable(home[s]) THEN mistaken \cup {s} ELSE mistaken
  /\ UNCHANGED <<home, account, memory, disk, local, ok, runs, taught>>

\* locate: the student's place is measured, and goes by the name that the answer has or
\* else by the one the run has already, which may be that of a building left long ago.
Locate(s) ==
  /\ pc[s] = "locate" /\ coord' = Set(coord, s, Exact(Where(s)))
  /\ \E n \in Told(s, name[s]) :
       /\ name' = Set(name, s, n) /\ Goto(s, IF Cacheable(n) THEN "learn" ELSE "verify")
       /\ mistaken' = IF Cacheable(n) /\ ~Cacheable(home[s]) THEN mistaken \cup {s} ELSE mistaken
  /\ UNCHANGED <<home, account, memory, disk, local, ok, runs, taught>>

\* What has been measured is checked again, and kept if the school accepts it.
Verify(s) ==
  /\ pc[s] = "verify"
  /\ \/ /\ Accepted(s, coord[s]) /\ Settled(s) /\ UNCHANGED coord
        /\ \E n \in Told(s, name[s]) : Save(s, n, coord[s][1])
     \/ /\ Finish(s)
        /\ \E n \in Told(s, NoName) : Save(s, n, NoCoord)
  /\ UNCHANGED <<home, memory, disk, local, runs, taught, mistaken>>

\* Mutant: a point nearby is used unseen.
JitterBlindly(s) ==
  /\ pc[s] = "jitter" /\ Goto(s, "submit")
  /\ coord' = Set(coord, s, <<coord[s][1], "near">>)
  /\ UNCHANGED <<home, account, memory, disk, local, name, ok, runs, taught, mistaken>>

\* _jitter_coord: a point nearby, if the school accepts it.
Jitter(s) ==
  /\ pc[s] = "jitter" /\ Goto(s, "submit")
  /\ \/ UNCHANGED <<coord, ok>>
     \/ LET p == <<coord[s][1], "near">> IN coord' = Set(coord, s, p) /\ Accepted(s, p)
  /\ UNCHANGED <<home, account, memory, disk, local, name, runs, taught, mistaken>>

\* submit_dk
Submit(s) ==
  /\ pc[s] \in {"submit", "other"} /\ Finish(s)
  /\ UNCHANGED <<home, account, memory, disk, local, runs, taught, mistaken>>

\* An exchange fails.  The name may still be learnt from a last look at the base point,
\* unless it is the network that fails.
Fail(s) ==
  /\ pc[s] \in {"check", "named", "base", "probed", "locate", "verify", "jitter"} /\ ~Wants(s)
  /\ \/ UNCHANGED account
     \/ pc[s] \notin {"check", "jitter"} /\ Save(s, home[s], NoCoord)
  /\ Finish(s) /\ Release(s)
  /\ UNCHANGED <<home, cache, disk, read, text, fd, runs, taught, mistaken>>
-----------------------------------------------------------------------------
(* learn, without any lock. *)

\* The dict is changed in place and made a text.
Learn(s) ==
  /\ pc[s] = "learn" /\ dict[s] # NoRef
  /\ LET learned == [objs[dict[s]] EXCEPT ![name[s]] = coord[s][1]]
     IN  /\ text' = Set(text, s, learned) /\ dict' = Set(dict, s, NoRef)
         /\ objs' = Kept([objs EXCEPT ![dict[s]] = learned], {cache} \cup Range(dict'))
  /\ Goto(s, "open")
  /\ UNCHANGED <<home, account, cache, disk, read, name, coord, fd, ok, runs, taught, mistaken>>

\* The temporary file, which all threads call the same, is made or emptied.
Open(s) ==
  /\ pc[s] = "open" /\ Goto(s, "write")
  /\ LET used == {file} \cup Range(fd)
         i == IF tmp = NoRef THEN CHOOSE i \in Inodes : i \notin used ELSE tmp
     IN  /\ tmp' = i /\ fd' = Set(fd, s, i)
         /\ data' = [data EXCEPT ![i] = NoText]
  /\ UNCHANGED <<home, account, memory, file, dict, read, name, coord, text, ok, runs, taught,
                  mistaken>>

\* What another thread wrote since may be longer and stick out.
Write(s) ==
  /\ pc[s] = "write" /\ Goto(s, "rename")
  /\ \E c \in IF data[fd[s]] = NoText THEN {text[s]} ELSE {text[s], Torn} :
       /\ fd' = Set(fd, s, NoRef)
       /\ data' = Linked([data EXCEPT ![fd[s]] = c], {file, tmp} \cup Range(fd'))
  /\ text' = Set(text, s, NoText)
  /\ UNCHANGED <<home, account, memory, file, tmp, dict, read, name, coord, ok, runs, taught,
                  mistaken>>

\* tmp.replace(path).  When another thread has taken the file away, learn raises, and
\* the run goes the way of a place that cannot be found.
Rename(s) ==
  /\ pc[s] = "rename"
  /\ \/ /\ tmp # NoRef /\ file' = tmp /\ tmp' = NoRef /\ data' = Linked(data, {tmp} \cup Range(fd))
        /\ Goto(s, "clear")
        /\ UNCHANGED <<account, name, coord, ok, runs>>
     \/ /\ tmp = NoRef /\ UNCHANGED disk
        /\ \E n \in Told(s, NoName) : Save(s, n, NoCoord)
        /\ Finish(s)
  /\ UNCHANGED <<home, memory, local, runs, taught, mistaken>>

\* cache_clear, and learn returns.
Clear(s) ==
  /\ pc[s] = "clear" /\ Goto(s, "verify")
  /\ cache' = NoRef /\ objs' = Kept(objs, Range(dict))
  /\ taught' = taught \cup {name[s]}
  /\ UNCHANGED <<home, account, disk, local, name, coord, ok, runs, mistaken>>
-----------------------------------------------------------------------------
\* The student moves.
Move(s) ==
  /\ \E n \in Places : n # home[s] /\ home' = Set(home, s, n)
  /\ UNCHANGED <<account, memory, disk, local, pc, name, coord, ok, runs, taught, mistaken>>

\* The process ends and starts again.
Crash ==
  /\ cache' = NoRef /\ objs' = Kept(objs, {}) /\ data' = Linked(data, {file, tmp})
  /\ pc' = [s \in Students |-> "idle"]
  /\ dict' = [s \in Students |-> NoRef] /\ read' = [s \in Students |-> NoRef]
  /\ name' = [s \in Students |-> NoName] /\ coord' = [s \in Students |-> NoCoord]
  /\ text' = [s \in Students |-> NoText] /\ fd' = [s \in Students |-> NoRef]
  /\ ok' = [s \in Students |-> NoCoord]
  /\ UNCHANGED <<home, account, file, tmp, runs, taught, mistaken>>

Step(s) ==
  \/ Start(s) \/ Hit(s) \/ Read(s) \/ Fill(s) \/ Known(s) \/ Check(s) \/ Lookup(s) \/ Probe(s)
  \/ Locate(s) \/ Verify(s) \/ Jitter(s) \/ Submit(s) \/ Fail(s)
  \/ Learn(s) \/ Open(s) \/ Write(s) \/ Rename(s) \/ Clear(s)

Next == (\E s \in Students : Step(s) \/ Move(s)) \/ Crash
Spec == Init /\ [][Next]_vars
-----------------------------------------------------------------------------
(* Properties. *)

\* Whatever others learn meanwhile, a run submits the very point that the school has
\* accepted last for this student in this run.
SubmittedAccepted == \A s \in Students : pc[s] = "submit" => coord[s] = ok[s]

\* The address of a student is asked about or submitted for another one only after it was
\* learnt as the place of a building: the school had measured it without naming it, while
\* the run still had the name of a building.
AddressPrivate ==
  \A s, r \in Students :
    s # r /\ r \notin mistaken => coord[s] \notin {Own(r)} \X {"exact", "near"}

\* learn's docstring calls the update atomic: when no learn is at work, the file
\* has all buildings that were learnt.
LearnedNotLost ==
  (\A s \in Students : pc[s] \notin Learning) =>
    \A n \in taught : file # NoRef /\ data[file] \in Dicts /\ data[file][n] # NoCoord
=============================================================================

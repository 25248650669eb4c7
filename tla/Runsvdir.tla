------------------------------ MODULE Runsvdir ------------------------------
(***************************************************************************)
(* runsvdir(8), src/runit/src/runsvdir.c: starts a runsv for every         *)
(* subdirectory of a services directory and follows its changes.           *)
(*                                                                         *)
(* runsvdir notices a change by the inode, device and modification time of *)
(* the directory, which counts whole seconds, and by its own flag check.   *)
(* The directory is a symbolic link that runsvchdir(8) may point elsewhere.*)
(* Subdirectories are told apart by inode; two services directories may    *)
(* link the same service.                                                  *)
(***************************************************************************)
EXTENDS Naturals, Sequences, FiniteSets

CONSTANTS
  Dir,          \* services directories the link can point to
  Ino,          \* subdirectories (device and inode)
  Pid, NoPid,   \* process ids of runsv processes; pid 0
  None,         \* no directory
  MAXSERVICES,
  Faults,       \* system calls that may fail: svdir (its stat), chdir, opendir,
                \* readdir, stat (of an entry), fork
  MaxFaults,    \* bound: failures
  MaxChanges    \* bound: changes made to the directories

ASSUME NamesAssumption == NoPid \notin Pid /\ None \notin Dir \cup Ino
ASSUME BoundsAssumption == MAXSERVICES \in Nat /\ MaxFaults \in Nat /\ MaxChanges \in Nat

VARIABLES
  sv,        \* sv[0..svnum-1]
  check,     \* check
  saved,     \* the directory mtime, ino and dev stand for; None if it changed since
  statted,   \* the same for the struct stat s of main()
  cwd,       \* where runsvdir() runs
  todo,      \* entries readdir() has still to return
  errno,     \* errno is set, which runsvdir() looks at behind the last entry
  k,         \* i of the loop that signals removed services, from 1
  exitsoon,  \* exitsoon
  pc,        \* where runsvdir is
  dirs,      \* the contents of the services directories
  svdir,     \* where the link svdir points
  recent,    \* the directories modified in the current second
  due,       \* a second has passed since the last check
  proc,      \* the service each live runsv was started for
  zombie,    \* runsv processes that ended and are not collected
  termed,    \* runsv processes that were sent SIGTERM
  missing,   \* history: services absent, or not found by stat(), at some time
             \* during the scan
  changes, faults  \* how often the bounded things happened

table == <<sv, check>>
stamps == <<saved, statted, recent, due>>
scan == <<cwd, todo, k, missing, errno>>
disk == <<dirs, svdir, changes>>
procs == <<proc, zombie, termed>>
vars == <<table, stamps, scan, disk, procs, exitsoon, pc, faults>>

live == {p \in Pid : proc[p] # None}
Entry == [ino : Ino, pid : Pid \cup {NoPid}, isgone : BOOLEAN]
Entries == {sv[i] : i \in DOMAIN sv}
Pids == {e.pid : e \in Entries} \ {NoPid}

TypeOK ==
  /\ sv \in Seq(Entry) /\ Len(sv) <= MAXSERVICES /\ check \in BOOLEAN
  /\ saved \in Dir \cup {None} /\ statted \in Dir \cup {None}
  /\ recent \subseteq Dir /\ due \in BOOLEAN
  /\ cwd \in Dir /\ todo \subseteq Ino /\ missing \subseteq Ino
  /\ k \in 1..(MAXSERVICES + 1) /\ errno \in BOOLEAN
  /\ dirs \in [Dir -> SUBSET Ino] /\ svdir \in Dir /\ changes \in 0..MaxChanges
  /\ proc \in [Pid -> Ino \cup {None}] /\ zombie \subseteq Pid /\ termed \subseteq live
  /\ exitsoon \in 0..2 /\ faults \in 0..MaxFaults
  /\ pc \in {"collect", "stat", "chdir", "sleep", "open", "scan", "sweep", "pause", "gone"}

-----------------------------------------------------------------------------
(* main() *)

Init ==
  /\ sv = <<>> /\ check = TRUE
  /\ saved = None /\ statted = None /\ recent = {} /\ due = TRUE
  /\ svdir \in Dir /\ cwd = svdir /\ todo = {} /\ k = 1 /\ missing = {} /\ errno = FALSE
  /\ dirs \in [Dir -> SUBSET Ino] /\ changes = 0
  /\ proc = [p \in Pid |-> None] /\ zombie = {} /\ termed = {}
  /\ exitsoon = 0 /\ faults = 0
  /\ pc = "collect"

Fails(call) == call \in Faults /\ faults < MaxFaults /\ faults' = faults + 1

\* One round of the loop that collects children.
Collect ==
  /\ pc = "collect"
  /\ \E p \in zombie :
       /\ zombie' = zombie \ {p}
       /\ sv' = [i \in DOMAIN sv |-> IF sv[i].pid = p THEN [sv[i] EXCEPT !.pid = NoPid] ELSE sv[i]]
       /\ check' = (check \/ p \in Pids)
  /\ UNCHANGED <<stamps, scan, disk, proc, termed, exitsoon, pc, faults>>

CollectDone ==
  /\ pc = "collect" /\ zombie = {}
  /\ pc' = "stat"
  /\ UNCHANGED <<table, stamps, scan, disk, procs, exitsoon, faults>>

\* At most once a second: stat(svdir), and see whether it is to be scanned.
Stat ==
  /\ pc = "stat" /\ due
  /\ due' = FALSE
  /\ statted' = svdir
  /\ pc' = IF check \/ saved # svdir THEN "chdir" ELSE "pause"
  /\ UNCHANGED <<table, saved, recent, scan, disk, procs, exitsoon, faults>>

\* stat(svdir) fails, as between the two renames of runsvchdir.
StatFails ==
  /\ pc = "stat" /\ due /\ Fails("svdir")
  /\ due' = FALSE
  /\ pc' = "pause"
  /\ UNCHANGED <<table, saved, statted, recent, scan, disk, procs, exitsoon>>

NotDue ==
  /\ pc = "stat" /\ ~due
  /\ pc' = "pause"
  /\ UNCHANGED <<table, stamps, scan, disk, procs, exitsoon, faults>>

Chdir ==
  /\ pc = "chdir"
  /\ pc' = "sleep"
  /\ cwd' = svdir
  /\ saved' = statted
  /\ check' = FALSE
  /\ UNCHANGED <<sv, statted, recent, due, todo, k, missing, errno, disk, procs, exitsoon, faults>>

ChdirFails ==
  /\ pc = "chdir" /\ Fails("chdir")
  /\ pc' = "pause"
  /\ UNCHANGED <<table, stamps, scan, disk, procs, exitsoon>>

\* Mutation: no wait for the second of mtime to be over.
Sleep_Never ==
  /\ pc = "sleep"
  /\ pc' = "open"
  /\ UNCHANGED <<table, stamps, scan, disk, procs, exitsoon, faults>>

\* if (now <= mtime) sleep(1): not before the second of mtime is over
Sleep ==
  /\ pc = "sleep" /\ (saved = None \/ saved \notin recent)
  /\ pc' = "open"
  /\ UNCHANGED <<table, stamps, scan, disk, procs, exitsoon, faults>>

-----------------------------------------------------------------------------
(* runsvdir() *)

Open ==
  /\ pc = "open"
  /\ pc' = "scan"
  /\ sv' = [i \in DOMAIN sv |-> [sv[i] EXCEPT !.isgone = TRUE]]
  /\ todo' = dirs[cwd]
  /\ missing' = Ino \ dirs[cwd]
  /\ errno' = FALSE
  /\ UNCHANGED <<check, stamps, cwd, k, disk, procs, exitsoon, faults>>

OpenFails ==
  /\ pc = "open" /\ Fails("opendir")
  /\ pc' = "pause"
  /\ UNCHANGED <<table, stamps, scan, disk, procs, exitsoon>>

\* runsv(no, name) for the entry e: the table with its new pid. A fork() that fails
\* leaves errno set.
Forked(t, no, e) ==
  \E p \in Pid \ (live \cup zombie) :
    /\ sv' = [t EXCEPT ![no].pid = p]
    /\ proc' = [proc EXCEPT ![p] = e]
    /\ UNCHANGED <<zombie, termed, errno, faults>>

runsv(t, no, e) ==
  \/ Forked(t, no, e)
  \/ Fails("fork") /\ sv' = t /\ errno' = TRUE /\ UNCHANGED procs

\* Mutation: isgone is reset only for a runsv that has to be started.
Known_Started(e, no) ==
  /\ IF sv[no].pid = NoPid THEN runsv([sv EXCEPT ![no].isgone = FALSE], no, e)
     ELSE UNCHANGED <<sv, procs, errno, faults>>
  /\ UNCHANGED check

\* The subdirectory has an entry: it is not gone, and its runsv has to run.
Known(e, no) ==
  LET t == [sv EXCEPT ![no].isgone = FALSE]
  IN  /\ IF t[no].pid = NoPid THEN runsv(t, no, e) ELSE sv' = t /\ UNCHANGED <<procs, errno, faults>>
      /\ UNCHANGED check

\* new service
New(e) ==
  IF Len(sv) >= MAXSERVICES THEN UNCHANGED <<sv, check, procs, errno, faults>>
  ELSE /\ runsv(Append(sv, [ino |-> e, pid |-> NoPid, isgone |-> FALSE]), Len(sv) + 1, e)
       /\ check' = TRUE

\* stat() succeeds, the entry is a directory
Scan(e) ==
  /\ pc = "scan" /\ e \in todo /\ e \in dirs[cwd]
  /\ todo' = todo \ {e}
  /\ \/ \E no \in DOMAIN sv : sv[no].ino = e /\ Known(e, no)
     \/ (\A no \in DOMAIN sv : sv[no].ino # e) /\ New(e)
  /\ UNCHANGED <<stamps, cwd, k, missing, disk, exitsoon, pc>>

\* stat() fails: the entry was removed meanwhile, or another error
ScanFails(e) ==
  /\ pc = "scan" /\ e \in todo
  /\ todo' = todo \ {e}
  /\ \/ e \notin dirs[cwd] /\ UNCHANGED faults
     \/ Fails("stat")
  /\ missing' = missing \cup {e}
  /\ errno' = FALSE
  /\ UNCHANGED <<table, stamps, cwd, k, disk, procs, exitsoon, pc>>

\* readdir() fails: no removals, look again
ReadFails ==
  /\ pc = "scan" /\ Fails("readdir")
  /\ pc' = "pause"
  /\ todo' = {}
  /\ check' = TRUE
  /\ UNCHANGED <<sv, stamps, cwd, k, missing, errno, disk, procs, exitsoon>>

\* The last entry: an errno left by fork() counts as a failed readdir().
ScanDone ==
  /\ pc = "scan" /\ todo = {}
  /\ pc' = IF errno THEN "pause" ELSE "sweep"
  /\ check' = (check \/ errno)
  /\ k' = 1
  /\ UNCHANGED <<sv, stamps, cwd, todo, missing, errno, disk, procs, exitsoon, faults>>

\* sv[i] =sv[--svnum]
Last(t) == t[Len(t)]
\* Mutation: the table is cut, the last entry not moved.
Removed_Cut(i) == [j \in 1..(Len(sv) - 1) |-> sv[j]]

Removed(i) == [j \in 1..(Len(sv) - 1) |-> IF j = i THEN Last(sv) ELSE sv[j]]

\* Mutation: removals do not ask for another look.
Sweep_NoCheck ==
  /\ pc = "sweep" /\ k <= Len(sv)
  /\ IF sv[k].isgone
     THEN termed' = termed \cup ({sv[k].pid} \cap live) /\ sv' = Removed(k)
     ELSE UNCHANGED <<sv, termed>>
  /\ k' = k + 1
  /\ UNCHANGED <<check, stamps, cwd, todo, missing, errno, disk, proc, zombie, exitsoon, pc, faults>>

\* SIGTERM removed runsv's, one round of the loop
Sweep ==
  /\ pc = "sweep" /\ k <= Len(sv)
  /\ IF sv[k].isgone
     THEN /\ termed' = termed \cup ({sv[k].pid} \cap live)
          /\ sv' = Removed(k)
          /\ check' = TRUE
     ELSE UNCHANGED <<table, termed>>
  /\ k' = k + 1
  /\ UNCHANGED <<stamps, cwd, todo, missing, errno, disk, proc, zombie, exitsoon, pc, faults>>

SweepDone ==
  /\ pc = "sweep" /\ k > Len(sv)
  /\ pc' = "pause"
  /\ k' = 1
  /\ UNCHANGED <<table, stamps, cwd, todo, missing, errno, disk, procs, exitsoon, faults>>

\* iopause() is over; TERM leaves the services alone, HUP stops them.
Pause ==
  /\ pc = "pause"
  /\ pc' = IF exitsoon = 0 THEN "collect" ELSE "gone"
  /\ termed' = IF exitsoon = 2 THEN termed \cup (Pids \cap live) ELSE termed
  /\ UNCHANGED <<table, stamps, scan, disk, proc, zombie, exitsoon, faults>>

Step ==
  \/ Collect \/ CollectDone \/ Stat \/ StatFails \/ NotDue \/ Chdir \/ ChdirFails \/ Sleep
  \/ Open \/ OpenFails \/ ReadFails \/ ScanDone \/ Sweep \/ SweepDone \/ Pause
  \/ \E e \in Ino : Scan(e) \/ ScanFails(e)

-----------------------------------------------------------------------------
(* The directories, the clock, and the runsv processes *)

\* The modification time of d becomes the current second.
Touch(d) ==
  LET stale(s) == IF s = d /\ d \notin recent THEN None ELSE s
  IN  /\ recent' = recent \cup {d}
      /\ saved' = stale(saved) /\ statted' = stale(statted)
      /\ UNCHANGED due

Change == pc # "gone" /\ changes < MaxChanges /\ changes' = changes + 1

\* A readdir() under way may or may not see the new entry.
Add(d, e) ==
  /\ Change /\ e \notin dirs[d]
  /\ dirs' = [dirs EXCEPT ![d] = @ \cup {e}]
  /\ Touch(d)
  /\ todo' \in IF pc = "scan" /\ d = cwd THEN {todo, todo \cup {e}} ELSE {todo}
  /\ UNCHANGED <<table, cwd, k, missing, errno, svdir, procs, exitsoon, pc, faults>>

Remove(d, e) ==
  /\ Change /\ e \in dirs[d]
  /\ dirs' = [dirs EXCEPT ![d] = @ \ {e}]
  /\ Touch(d)
  /\ todo' \in IF d = cwd THEN {todo, todo \ {e}} ELSE {todo}
  /\ missing' = IF pc = "scan" /\ d = cwd THEN missing \cup {e} ELSE missing
  /\ UNCHANGED <<table, cwd, k, errno, svdir, procs, exitsoon, pc, faults>>

\* runsvchdir(8) points the link elsewhere.
Switch(d) ==
  /\ Change /\ d # svdir
  /\ svdir' = d
  /\ UNCHANGED <<table, stamps, scan, dirs, procs, exitsoon, pc, faults>>

Tick ==
  /\ recent' = {} /\ due' = TRUE
  /\ UNCHANGED <<table, saved, statted, scan, disk, procs, exitsoon, pc, faults>>

RunsvExit(p) ==
  /\ p \in live
  /\ proc' = [proc EXCEPT ![p] = None]
  /\ zombie' = IF pc = "gone" THEN zombie ELSE zombie \cup {p}
  /\ termed' = termed \ {p}
  /\ UNCHANGED <<table, stamps, scan, disk, exitsoon, pc, faults>>

\* s_term(), s_hangup(): the later signal decides
Signal ==
  /\ pc # "gone"
  /\ exitsoon' \in {1, 2}
  /\ UNCHANGED <<table, stamps, scan, disk, procs, pc, faults>>

Next ==
  \/ Step \/ Tick \/ Signal
  \/ \E d \in Dir : Switch(d) \/ \E e \in Ino : Add(d, e) \/ Remove(d, e)
  \/ \E p \in Pid : RunsvExit(p)

Spec == Init /\ [][Next]_vars

\* runsvdir is scheduled, time passes, and a runsv told to exit does so.
Fairness ==
  /\ WF_vars(Step) /\ WF_vars(Tick)
  /\ \A p \in Pid : WF_vars(p \in termed /\ RunsvExit(p))

FairSpec == Spec /\ Fairness

-----------------------------------------------------------------------------
(* Properties *)

\* The table is consistent: one entry for each subdirectory, no pid twice, and
\* every pid a child that was not waited for, so that kill() cannot hit
\* another process (runsvdir.c:100-118, 131-136, 203-211, 280).
OwnRunsv ==
  pc # "gone" =>
    /\ \A i, j \in DOMAIN sv : i # j => sv[i].ino # sv[j].ino
    /\ \A i, j \in DOMAIN sv : i # j /\ sv[i].pid # NoPid => sv[i].pid # sv[j].pid
    /\ Pids \subseteq live \cup zombie

\* No runsv is lost from sight: one that runs is in the table, for its own
\* subdirectory, or was told to exit (runsvdir.c:77, 133-134).
NoStray ==
  \A p \in live \ termed : \E e \in Entries : e.pid = p /\ e.ino = proc[p]

\* After a HUP no service goes on unnoticed: every runsv was sent a SIGTERM.
HupStopsAll == pc = "gone" /\ exitsoon = 2 => live \subseteq termed

\* runsvdir keeps track of the runsv processes it started, whatever is added, removed,
\* switched or fails: the table is consistent, no runsv is missing from it, and at the
\* end all are told (runsvdir() and main() of runsvdir.c).
TableSound == OwnRunsv /\ NoStray /\ HupStopsAll

\* A service that is in the directory throughout a scan and can be examined
\* keeps its runsv, also when runsvchdir switches between directories that both
\* have it or another call fails: a sweep signals only runsv processes whose
\* subdirectory was absent or whose stat() failed (runsvdir.c:90-102, 131-136).
KeepsPresent ==
  [][pc = "sweep" => \A p \in termed' \ termed : proc[p] \in missing]_vars

Wanted(e) == e \in dirs[svdir] /\ Cardinality(dirs[svdir]) <= MAXSERVICES
Served(e) == \E p \in live \ termed : proc[p] = e

\* "starts a runsv process for each subdirectory ... and restarts a runsv
\* process if it terminates" (runsvdir.8:18-27): a service that stays in the
\* directory has a runsv again and again.  Changes within the second of a scan,
\* during it, and services beyond the limit at first, are not forgotten.
Supervised ==
  \A e \in Ino : <>[]Wanted(e) => []<>(Served(e) \/ pc = "gone")

\* A service taken out of the directory is told to stop, for good.
Unsupervised ==
  \A e \in Ino : <>[](e \notin dirs[svdir] /\ pc # "gone") => <>[]~Served(e)
=============================================================================

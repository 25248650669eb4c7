--------------------------- MODULE RunsvdirProofs ---------------------------
(***************************************************************************)
(* Theorems about Runsvdir: for any number of directories, services,       *)
(* processes, changes and failing calls, and any size of the table.        *)
(***************************************************************************)
EXTENDS Runsvdir, TLAPS

\* The table may be rebuilt entry by entry: a sequence is a function on 1..n.
LEMMA TableOf ==
  ASSUME NEW n \in Nat, NEW t, t = [j \in 1..n |-> t[j]], \A j \in 1..n : t[j] \in Entry
  PROVE  t \in Seq(Entry) /\ Len(t) = n /\ DOMAIN t = 1..n
  OBVIOUS

\* Assigning an entry.
LEMMA TableExcept ==
  ASSUME NEW t \in Seq(Entry), NEW i \in DOMAIN t, NEW r \in Entry
  PROVE  /\ [t EXCEPT ![i] = r] \in Seq(Entry) /\ Len([t EXCEPT ![i] = r]) = Len(t)
         /\ DOMAIN [t EXCEPT ![i] = r] = DOMAIN t
  OBVIOUS

\* Removing entry i keeps the others, the last one in place i.
LEMMA RemovedTable ==
  ASSUME sv \in Seq(Entry), NEW i \in DOMAIN sv
  PROVE  /\ Removed(i) \in Seq(Entry)
         /\ Len(Removed(i)) = Len(sv) - 1
         /\ DOMAIN Removed(i) = 1..(Len(sv) - 1)
         /\ \A j \in 1..(Len(sv) - 1) : Removed(i)[j] = IF j = i THEN sv[Len(sv)] ELSE sv[j]
<1>1. /\ Len(sv) \in Nat /\ Len(sv) >= 1
      /\ \A j \in 1..Len(sv) : sv[j] \in Entry
  OBVIOUS
<1>2. \A j \in 1..(Len(sv) - 1) : Removed(i)[j] = IF j = i THEN sv[Len(sv)] ELSE sv[j]
  BY DEF Removed, Last
<1>3. Removed(i) = [j \in 1..(Len(sv) - 1) |-> Removed(i)[j]]
  BY DEF Removed
<1>4. \A j \in 1..(Len(sv) - 1) : Removed(i)[j] \in Entry
  BY <1>1, <1>2
<1>. QED
  BY <1>1, <1>2, <1>3, <1>4, TableOf

-----------------------------------------------------------------------------
\* TypeOK without the flags check, due and errno, which FlagStep is about.
TypeRest ==
  /\ sv \in Seq(Entry) /\ Len(sv) <= MAXSERVICES
  /\ saved \in Dir \cup {None} /\ statted \in Dir \cup {None}
  /\ recent \subseteq Dir
  /\ cwd \in Dir /\ todo \subseteq Ino /\ missing \subseteq Ino
  /\ k \in 1..(MAXSERVICES + 1)
  /\ dirs \in [Dir -> SUBSET Ino] /\ svdir \in Dir /\ changes \in 0..MaxChanges
  /\ proc \in [Pid -> Ino \cup {None}] /\ zombie \subseteq Pid /\ termed \subseteq live
  /\ exitsoon \in 0..2 /\ faults \in 0..MaxFaults
  /\ pc \in {"collect", "stat", "chdir", "sleep", "open", "scan", "sweep", "pause", "gone"}

\* What a fork leaves in the table t whose entry no is for e.
LEMMA ForkedType ==
  ASSUME TypeRest, NEW t \in Seq(Entry), NEW no \in DOMAIN t, NEW e \in Ino, runsv(t, no, e)
  PROVE  /\ sv' \in Seq(Entry) /\ Len(sv') = Len(t)
         /\ proc' \in [Pid -> Ino \cup {None}] /\ zombie' \subseteq Pid
         /\ termed' \subseteq {p \in Pid : proc'[p] # None}
         /\ faults' \in 0..MaxFaults
<1>1. CASE Forked(t, no, e)
  <2>1. PICK p \in Pid \ (live \cup zombie) :
          /\ sv' = [t EXCEPT ![no].pid = p]
          /\ proc' = [proc EXCEPT ![p] = e]
          /\ UNCHANGED <<zombie, termed, faults>>
    BY <1>1 DEF Forked
  <2>2. [t[no] EXCEPT !.pid = p] \in Entry
    <3>1. t[no] \in Entry
      OBVIOUS
    <3>. QED
      BY <2>1, <3>1 DEF Entry
  <2>3. sv' = [t EXCEPT ![no] = [t[no] EXCEPT !.pid = p]]
    BY <2>1
  <2>4. sv' \in Seq(Entry) /\ Len(sv') = Len(t)
    BY <2>2, <2>3, TableExcept
  <2>. QED
    BY <2>1, <2>4, NamesAssumption DEF TypeRest, live
<1>2. CASE Fails("fork") /\ sv' = t /\ UNCHANGED procs
  BY <1>2, BoundsAssumption DEF Fails, procs, TypeRest, live
<1>. QED
  BY <1>1, <1>2 DEF runsv

LEMMA TypeStep ==
  ASSUME TypeRest, [Next]_vars
  PROVE  TypeRest'
<1> USE BoundsAssumption, NamesAssumption
<1> USE DEF table, stamps, scan, disk, procs
<1>1. CASE Collect
  <2>1. PICK p \in zombie :
          sv' = [i \in DOMAIN sv |-> IF sv[i].pid = p THEN [sv[i] EXCEPT !.pid = NoPid] ELSE sv[i]]
    BY <1>1 DEF Collect
  <2>2. \A i \in 1..Len(sv) : sv'[i] \in Entry
    <3>. SUFFICES ASSUME NEW i \in 1..Len(sv) PROVE sv'[i] \in Entry
      OBVIOUS
    <3>1. sv[i] \in Entry /\ i \in DOMAIN sv
      BY DEF TypeRest
    <3>2. [sv[i] EXCEPT !.pid = NoPid] \in Entry
      BY <3>1 DEF Entry
    <3>. QED
      BY <2>1, <3>1, <3>2
  <2>3. sv' \in Seq(Entry) /\ Len(sv') = Len(sv)
    <3>1. Len(sv) \in Nat /\ sv' = [j \in 1..Len(sv) |-> sv'[j]]
      BY <2>1 DEF TypeRest
    <3>. QED
      BY <2>2, <3>1, TableOf
  <2>. QED
    BY <1>1, <2>3 DEF Collect, TypeRest, live
<1>2. CASE Open
  <2>1. \A i \in 1..Len(sv) : [sv[i] EXCEPT !.isgone = TRUE] \in Entry
    <3>. SUFFICES ASSUME NEW i \in 1..Len(sv) PROVE [sv[i] EXCEPT !.isgone = TRUE] \in Entry
      OBVIOUS
    <3>1. sv[i] \in Entry
      BY DEF TypeRest
    <3>. QED
      BY <3>1 DEF Entry
  <2>2. sv' \in Seq(Entry) /\ Len(sv') = Len(sv)
    <3>1. Len(sv) \in Nat /\ sv' = [j \in 1..Len(sv) |-> sv'[j]]
      BY <1>2 DEF Open, TypeRest
    <3>2. \A j \in 1..Len(sv) : sv'[j] \in Entry
      BY <1>2, <2>1 DEF Open, TypeRest
    <3>. QED
      BY <3>1, <3>2, TableOf
  <2>. QED
    BY <1>2, <2>2 DEF Open, TypeRest, live
<1>3. CASE CollectDone \/ Stat \/ StatFails \/ NotDue \/ Chdir \/ ChdirFails \/ Sleep
           \/ OpenFails \/ ReadFails \/ ScanDone \/ SweepDone
  BY <1>3 DEF CollectDone, Stat, StatFails, NotDue, Chdir, ChdirFails, Sleep, OpenFails,
              ReadFails, ScanDone, SweepDone, Fails, TypeRest, live
<1>4. CASE Sweep
  <2>1. k \in DOMAIN sv
    BY <1>4 DEF Sweep, TypeRest
  <2>2. sv' \in Seq(Entry) /\ Len(sv') <= Len(sv)
    BY <1>4, <2>1, RemovedTable DEF Sweep, TypeRest
  <2>. QED
    BY <1>4, <2>1, <2>2 DEF Sweep, TypeRest, live
<1>5. CASE Pause
  BY <1>5 DEF Pause, TypeRest, live
<1>6. ASSUME NEW e \in Ino, Scan(e) PROVE TypeRest'
  <2>1. ASSUME NEW no \in DOMAIN sv, sv[no].ino = e, Known(e, no) PROVE TypeRest'
    <3>. DEFINE t == [sv EXCEPT ![no].isgone = FALSE]
    <3>1. [sv[no] EXCEPT !.isgone = FALSE] \in Entry
      <4>1. sv[no] \in Entry
        BY DEF TypeRest
      <4>. QED
        BY <4>1 DEF Entry
    <3>2. t \in Seq(Entry) /\ Len(t) = Len(sv) /\ no \in DOMAIN t
      BY <3>1, TableExcept DEF TypeRest
    <3>3. CASE runsv(t, no, e)
      <4>. HIDE DEF t
      <4>. QED
        BY <1>6, <2>1, <3>2, <3>3, ForkedType DEF Scan, Known, TypeRest, live
    <3>4. CASE sv' = t /\ UNCHANGED <<procs, faults>>
      BY <1>6, <2>1, <3>2, <3>4 DEF Scan, Known, TypeRest, live
    <3>. QED
      BY <2>1, <3>3, <3>4 DEF Known
  <2>2. CASE New(e)
    <3>. DEFINE t == Append(sv, [ino |-> e, pid |-> NoPid, isgone |-> FALSE])
    <3>1. [ino |-> e, pid |-> NoPid, isgone |-> FALSE] \in Entry
      BY DEF Entry
    <3>2. t \in Seq(Entry) /\ Len(t) = Len(sv) + 1 /\ Len(sv) + 1 \in DOMAIN t
      BY <3>1 DEF TypeRest
    <3>3. CASE Len(sv) < MAXSERVICES
      <4>1. runsv(t, Len(sv) + 1, e)
        BY <2>2, <3>3 DEF New, TypeRest
      <4>. HIDE DEF t
      <4>. QED
        BY <1>6, <2>2, <3>2, <3>3, <4>1, ForkedType DEF Scan, New, TypeRest, live
    <3>4. CASE Len(sv) >= MAXSERVICES
      BY <1>6, <2>2, <3>4 DEF Scan, New, TypeRest, live
    <3>. QED
      BY <3>3, <3>4 DEF TypeRest
  <2>. QED
    BY <1>6, <2>1, <2>2 DEF Scan
<1>7. ASSUME NEW e \in Ino, ScanFails(e) PROVE TypeRest'
  BY <1>7 DEF ScanFails, Fails, TypeRest, live
<1>8. ASSUME NEW d \in Dir, NEW e \in Ino, Add(d, e) \/ Remove(d, e) PROVE TypeRest'
  BY <1>8 DEF Add, Remove, Change, Touch, TypeRest, live
<1>9. ASSUME NEW d \in Dir, Switch(d) PROVE TypeRest'
  BY <1>9 DEF Switch, Change, TypeRest, live
<1>10. ASSUME NEW p \in Pid, RunsvExit(p) PROVE TypeRest'
  BY <1>10 DEF RunsvExit, TypeRest, live
<1>11. CASE Tick \/ Signal \/ UNCHANGED vars
  BY <1>11 DEF Tick, Signal, vars, TypeRest, live
<1>. QED
  BY <1>1, <1>2, <1>3, <1>4, <1>5, <1>6, <1>7, <1>8, <1>9, <1>10, <1>11 DEF Next, Step

LEMMA FlagStep ==
  ASSUME check \in BOOLEAN, due \in BOOLEAN, errno \in BOOLEAN, [Next]_vars
  PROVE  check' \in BOOLEAN /\ due' \in BOOLEAN /\ errno' \in BOOLEAN
<1> USE DEF table, stamps, scan
<1>1. CASE Collect \/ CollectDone \/ Stat \/ StatFails \/ NotDue \/ Chdir \/ ChdirFails \/ Sleep
  BY <1>1, Zenon DEF Collect, CollectDone, Stat, StatFails, NotDue, Chdir, ChdirFails, Sleep
<1>2. CASE Open \/ OpenFails \/ ReadFails \/ ScanDone \/ Sweep \/ SweepDone \/ Pause
  BY <1>2, Zenon DEF Open, OpenFails, ReadFails, ScanDone, Sweep, SweepDone, Pause
<1>3. ASSUME NEW e \in Ino, Scan(e) \/ ScanFails(e)
      PROVE  check' \in BOOLEAN /\ due' \in BOOLEAN /\ errno' \in BOOLEAN
  <2>1. check' \in BOOLEAN /\ due' \in BOOLEAN
    BY <1>3, Zenon DEF Scan, Known, New, ScanFails
  <2>2. ASSUME NEW t, NEW no, runsv(t, no, e) PROVE errno' \in BOOLEAN
    BY <2>2, Zenon DEF runsv, Forked
  <2>3. errno' \in BOOLEAN
    BY <1>3, <2>2, Zenon DEF Scan, Known, New, ScanFails
  <2>. QED  BY <2>1, <2>3
<1>4. ASSUME NEW d \in Dir, NEW e \in Ino, Add(d, e) \/ Remove(d, e)
      PROVE  check' \in BOOLEAN /\ due' \in BOOLEAN /\ errno' \in BOOLEAN
  BY <1>4, Zenon DEF Add, Remove, Touch
<1>5. CASE (\E d \in Dir : Switch(d)) \/ (\E p \in Pid : RunsvExit(p))
  BY <1>5, Zenon DEF Switch, RunsvExit
<1>6. CASE Tick \/ Signal \/ UNCHANGED vars
  BY <1>6, Zenon DEF Tick, Signal, vars
<1>. QED
  BY <1>1, <1>2, <1>3, <1>4, <1>5, <1>6, Zenon DEF Next, Step

\* Every variable keeps its type; the table never outgrows MAXSERVICES and the
\* index of the sweep never runs past it (runsvdir.c:109, 131).
THEOREM RunsvdirTypeCorrect == Spec => []TypeOK
<1>1. Init => TypeOK
  <2>1. Init => TypeRest
    BY BoundsAssumption, NamesAssumption DEF Init, TypeRest, live
  <2>2. Init => check \in BOOLEAN /\ due \in BOOLEAN /\ errno \in BOOLEAN
    BY Zenon DEF Init
  <2>. QED  BY <2>1, <2>2, Zenon DEF TypeOK, TypeRest
<1>2. TypeOK /\ [Next]_vars => TypeOK'
  BY TypeStep, FlagStep, Zenon DEF TypeOK, TypeRest
<1>. QED
  BY <1>1, <1>2, PTL DEF Spec

-----------------------------------------------------------------------------
(* The table against the processes *)

\* For a table t: no subdirectory and no pid twice, every pid a child for
\* the subdirectory or one that ended, and every runsv that was not
\* told to exit entered for its own subdirectory.
Distinct(t) ==
  \A i, j \in DOMAIN t : i # j => /\ t[i].ino # t[j].ino
                                  /\ t[i].pid # NoPid => t[i].pid # t[j].pid
Children(t) ==
  \A i \in DOMAIN t : t[i].pid # NoPid =>
    /\ t[i].pid \in Pid
    /\ (proc[t[i].pid] # None /\ proc[t[i].pid] = t[i].ino) \/ t[i].pid \in zombie
Entered(t) ==
  \A p \in Pid : proc[p] # None /\ p \notin termed =>
    \E i \in DOMAIN t : t[i].pid = p /\ t[i].ino = proc[p]

\* The inductive invariant.
TableInv ==
  /\ \A p \in zombie : proc[p] = None
  /\ Distinct(sv) /\ Entered(sv)
  /\ pc # "gone" => Children(sv)
  /\ HupStopsAll

\* Tables with the same subdirectories and pids are as good as each other.
LEMMA SameTable ==
  ASSUME NEW t, NEW u, DOMAIN t = DOMAIN u,
         \A i \in DOMAIN u : t[i].ino = u[i].ino /\ t[i].pid = u[i].pid
  PROVE  /\ Distinct(u) => Distinct(t)
         /\ Children(u) => Children(t)
         /\ Entered(u) => Entered(t)
<1>1. Distinct(u) => Distinct(t)
  BY DEF Distinct
<1>2. Children(u) => Children(t)
  BY DEF Children
<1>3. Entered(u) => Entered(t)
  BY DEF Entered
<1>. QED
  BY <1>1, <1>2, <1>3

\* A new entry without a runsv, for a subdirectory that has none.
LEMMA AppendedTable ==
  ASSUME TypeRest, NEW e \in Ino, NEW r \in Entry, r.ino = e, r.pid = NoPid,
         \A no \in DOMAIN sv : sv[no].ino # e,
         Distinct(sv), Children(sv), Entered(sv)
  PROVE  Distinct(Append(sv, r)) /\ Children(Append(sv, r)) /\ Entered(Append(sv, r))
<1>. DEFINE t == Append(sv, r)
<1>1. /\ Len(sv) \in Nat /\ DOMAIN sv = 1..Len(sv)
      /\ DOMAIN t = 1..(Len(sv) + 1) /\ t[Len(sv) + 1] = r
      /\ \A i \in 1..Len(sv) : t[i] = sv[i]
  BY DEF TypeRest
<1>. HIDE DEF t
<1>2. \A i \in DOMAIN t : i \in DOMAIN sv \/ i = Len(sv) + 1
  BY <1>1
<1>3. Distinct(t)
  BY <1>1, <1>2 DEF Distinct
<1>4. Children(t)
  BY <1>1, <1>2 DEF Children
<1>5. Entered(t)
  BY <1>1 DEF Entered
<1>. QED
  BY <1>3, <1>4, <1>5 DEF t

\* A fork for the entry no, which has no runsv.
LEMMA ForkedInv ==
  ASSUME TypeRest, NEW t \in Seq(Entry), NEW no \in DOMAIN t, NEW e \in Ino,
         t[no].ino = e, t[no].pid = NoPid, Distinct(t), Children(t), Entered(t),
         \A p \in zombie : proc[p] = None, runsv(t, no, e)
  PROVE  /\ Distinct(sv') /\ Children(sv)' /\ Entered(sv)'
         /\ \A p \in zombie' : proc'[p] = None
<1>1. CASE Forked(t, no, e)
  <2>1. PICK p \in Pid \ (live \cup zombie) :
          /\ sv' = [t EXCEPT ![no].pid = p]
          /\ proc' = [proc EXCEPT ![p] = e]
          /\ UNCHANGED <<zombie, termed, faults>>
    BY <1>1 DEF Forked
  <2>2. proc[p] = None /\ p \notin zombie /\ p \in Pid /\ p # NoPid
    BY <2>1, NamesAssumption DEF live
  <2>3. /\ proc'[p] = e /\ e # None
        /\ \A q \in Pid : q # p => proc'[q] = proc[q]
    BY <2>1, NamesAssumption DEF TypeRest
  <2>4. /\ DOMAIN sv' = DOMAIN t
        /\ sv'[no].pid = p /\ sv'[no].ino = e
        /\ \A i \in DOMAIN t : i # no => sv'[i] = t[i]
    <3>1. t[no] \in Entry
      OBVIOUS
    <3>. QED
      BY <2>1, <3>1 DEF Entry
  <2>5. \A i \in DOMAIN t : t[i].pid # p
    BY <2>2 DEF Children
  <2>6. Distinct(sv')
    BY <2>4, <2>5 DEF Distinct
  <2>7. Children(sv)'
    BY <2>1, <2>2, <2>3, <2>4 DEF Children
  <2>8. Entered(sv)'
    BY <2>1, <2>2, <2>3, <2>4, NamesAssumption DEF Entered
  <2>9. \A q \in zombie' : proc'[q] = None
    BY <2>1, <2>2, <2>3 DEF TypeRest
  <2>. QED
    BY <2>6, <2>7, <2>8, <2>9
<1>2. CASE Fails("fork") /\ sv' = t /\ UNCHANGED procs
  BY <1>2 DEF procs, Distinct, Children, Entered
<1>. QED
  BY <1>1, <1>2 DEF runsv

\* Steps that leave table and processes alone, other than the one that ends.
LEMMA QuietInv ==
  ASSUME TableInv, UNCHANGED <<sv, procs>>, pc # "gone" => pc' # "gone",
         pc = "gone" => exitsoon' = exitsoon /\ pc' = "gone"
  PROVE  TableInv'
  BY DEF TableInv, Distinct, Children, Entered, HupStopsAll, procs, live

LEMMA TableStep ==
  ASSUME TypeRest, TableInv, [Next]_vars
  PROVE  TableInv'
<1> USE DEF table, procs
<1>1. CASE Collect
  <2>1. PICK p \in zombie :
          /\ zombie' = zombie \ {p}
          /\ sv' = [i \in DOMAIN sv |-> IF sv[i].pid = p THEN [sv[i] EXCEPT !.pid = NoPid] ELSE sv[i]]
    BY <1>1 DEF Collect
  <2>2. pc # "gone" /\ pc' # "gone" /\ UNCHANGED <<proc, termed>> /\ p \in Pid /\ proc[p] = None
    BY <1>1, <2>1 DEF Collect, TypeRest, TableInv
  <2>3. /\ DOMAIN sv' = DOMAIN sv
        /\ \A i \in DOMAIN sv : /\ sv'[i].ino = sv[i].ino
                                /\ sv'[i].pid = IF sv[i].pid = p THEN NoPid ELSE sv[i].pid
    <3>1. DOMAIN sv' = DOMAIN sv
      BY <2>1
    <3>2. ASSUME NEW i \in DOMAIN sv
          PROVE  /\ sv'[i].ino = sv[i].ino
                 /\ sv'[i].pid = IF sv[i].pid = p THEN NoPid ELSE sv[i].pid
      <4>1. sv[i] \in Entry
        BY DEF TypeRest
      <4>2. sv'[i] = IF sv[i].pid = p THEN [sv[i] EXCEPT !.pid = NoPid] ELSE sv[i]
        BY <2>1
      <4>. QED
        BY <4>1, <4>2 DEF Entry
    <3>. QED
      BY <3>1, <3>2
  <2>4. Distinct(sv')
    BY <2>3 DEF TableInv, Distinct
  <2>5. Children(sv)'
    BY <2>1, <2>2, <2>3 DEF TableInv, Children
  <2>6. Entered(sv)'
    BY <2>2, <2>3 DEF TableInv, Entered
  <2>. QED
    BY <2>1, <2>2, <2>4, <2>5, <2>6 DEF TableInv, HupStopsAll, Distinct
<1>2. CASE Open
  <2>1. /\ DOMAIN sv' = DOMAIN sv
        /\ \A i \in DOMAIN sv : sv'[i].ino = sv[i].ino /\ sv'[i].pid = sv[i].pid
    <3>1. DOMAIN sv' = DOMAIN sv
      BY <1>2 DEF Open
    <3>2. ASSUME NEW i \in DOMAIN sv PROVE sv'[i].ino = sv[i].ino /\ sv'[i].pid = sv[i].pid
      <4>1. sv[i] \in Entry
        BY DEF TypeRest
      <4>2. sv'[i] = [sv[i] EXCEPT !.isgone = TRUE]
        BY <1>2 DEF Open
      <4>. QED
        BY <4>1, <4>2 DEF Entry
    <3>. QED
      BY <3>1, <3>2
  <2>2. UNCHANGED <<proc, zombie, termed>> /\ pc # "gone" /\ pc' # "gone"
    BY <1>2 DEF Open
  <2>. QED
    BY <2>1, <2>2 DEF TableInv, HupStopsAll, Distinct, Children, Entered
<1>3. CASE CollectDone \/ Stat \/ StatFails \/ NotDue \/ Chdir \/ ChdirFails \/ Sleep
           \/ OpenFails \/ ReadFails \/ ScanDone \/ SweepDone
  BY <1>3, QuietInv DEF CollectDone, Stat, StatFails, NotDue, Chdir, ChdirFails, Sleep,
                        OpenFails, ReadFails, ScanDone, SweepDone
<1>4. CASE Sweep
  <2>1. /\ k \in DOMAIN sv /\ pc # "gone" /\ pc' # "gone" /\ UNCHANGED <<proc, zombie>>
        /\ Len(sv) \in Nat /\ DOMAIN sv = 1..Len(sv)
    BY <1>4 DEF Sweep, TypeRest
  <2>2. CASE sv[k].isgone
    <3>. DEFINE n == Len(sv)
    <3>1. sv' = Removed(k) /\ termed' = termed \cup ({sv[k].pid} \cap live)
      BY <1>4, <2>2 DEF Sweep
    <3>2. /\ DOMAIN sv' = 1..(n - 1)
          /\ \A j \in 1..(n - 1) : sv'[j] = IF j = k THEN sv[n] ELSE sv[j]
      BY <2>1, <3>1, RemovedTable DEF TypeRest
    <3>3. Distinct(sv')
      BY <2>1, <3>2 DEF TableInv, Distinct
    <3>4. Children(sv)'
      BY <2>1, <3>2 DEF TableInv, Children
    <3>5. Entered(sv)'
      <4>. SUFFICES ASSUME NEW p \in Pid, proc[p] # None, p \notin termed'
                    PROVE  \E i \in DOMAIN sv' : sv'[i].pid = p /\ sv'[i].ino = proc[p]
        BY <2>1 DEF Entered
      <4>1. PICK i \in DOMAIN sv : sv[i].pid = p /\ sv[i].ino = proc[p]
        BY <3>1 DEF TableInv, Entered
      <4>2. i # k
        BY <3>1, <4>1 DEF live
      <4>3. CASE i = n
        BY <2>1, <3>2, <4>1, <4>2, <4>3
      <4>4. CASE i # n
        BY <2>1, <3>2, <4>1, <4>2, <4>4
      <4>. QED
        BY <4>3, <4>4
    <3>. QED
      BY <2>1, <3>3, <3>4, <3>5 DEF TableInv, HupStopsAll, Distinct
  <2>3. CASE ~sv[k].isgone
    BY <1>4, <2>1, <2>3, QuietInv DEF Sweep
  <2>. QED
    BY <2>2, <2>3
<1>5. CASE Pause
  <2>1. UNCHANGED <<sv, proc, zombie, exitsoon>> /\ termed \subseteq termed' /\ pc # "gone"
    BY <1>5 DEF Pause
  <2>2. HupStopsAll'
    <3>. SUFFICES ASSUME exitsoon = 2 PROVE live \subseteq termed'
      BY <2>1 DEF HupStopsAll, live
    <3>1. termed' = termed \cup (Pids \cap live)
      BY <1>5 DEF Pause
    <3>2. ASSUME NEW p \in live, p \notin termed PROVE p \in Pids
      BY <3>2, NamesAssumption DEF TableInv, Entered, Pids, Entries, live
    <3>. QED
      BY <3>1, <3>2
  <2>. QED
    BY <2>1, <2>2 DEF TableInv, Distinct, Children, Entered
<1>6. ASSUME NEW e \in Ino, Scan(e) PROVE TableInv'
  <2>1. pc # "gone" /\ pc' # "gone"
    BY <1>6 DEF Scan
  <2>2. ASSUME NEW t \in Seq(Entry), NEW no \in DOMAIN t, t[no].ino = e, t[no].pid = NoPid,
               Distinct(t), Children(t), Entered(t), runsv(t, no, e)
        PROVE  TableInv'
    BY <2>1, <2>2, ForkedInv DEF TableInv, HupStopsAll, Distinct
  <2>3. ASSUME NEW no \in DOMAIN sv, sv[no].ino = e, Known(e, no) PROVE TableInv'
    <3>. DEFINE r == [sv[no] EXCEPT !.isgone = FALSE]
                t == [sv EXCEPT ![no].isgone = FALSE]
    <3>1. sv[no] \in Entry
      BY DEF TypeRest
    <3>2. r \in Entry /\ r.ino = sv[no].ino /\ r.pid = sv[no].pid
      BY <3>1 DEF Entry
    <3>3. t = [sv EXCEPT ![no] = r]
      OBVIOUS
    <3>4. /\ t \in Seq(Entry) /\ DOMAIN t = DOMAIN sv
          /\ \A i \in DOMAIN sv : t[i].ino = sv[i].ino /\ t[i].pid = sv[i].pid
      <4>. HIDE DEF r
      <4>. QED
        BY <3>2, <3>3, TableExcept DEF TypeRest
    <3>5. \/ t[no].pid = NoPid /\ runsv(t, no, e)
          \/ sv' = t /\ UNCHANGED procs
      BY <2>3 DEF Known
    <3>. HIDE DEF t
    <3>6. Distinct(t) /\ Children(t) /\ Entered(t)
      BY <2>1, <3>4, SameTable DEF TableInv
    <3>7. CASE t[no].pid = NoPid /\ runsv(t, no, e)
      BY <2>2, <2>3, <3>4, <3>6, <3>7
    <3>8. CASE sv' = t /\ UNCHANGED procs
      BY <2>1, <3>6, <3>8 DEF TableInv, HupStopsAll, Distinct, Children, Entered
    <3>. QED
      BY <3>5, <3>7, <3>8
  <2>4. CASE (\A no \in DOMAIN sv : sv[no].ino # e) /\ New(e)
    <3>. DEFINE r == [ino |-> e, pid |-> NoPid, isgone |-> FALSE]
                t == Append(sv, r)
    <3>1. r \in Entry /\ r.ino = e /\ r.pid = NoPid
      BY DEF Entry
    <3>2. CASE Len(sv) >= MAXSERVICES
      BY <2>1, <2>4, <3>2, QuietInv DEF New
    <3>3. CASE runsv(t, Len(sv) + 1, e)
      <4>. HIDE DEF r
      <4>1. t \in Seq(Entry) /\ Len(sv) + 1 \in DOMAIN t /\ t[Len(sv) + 1] = r
        BY <3>1 DEF TypeRest
      <4>2. Distinct(t) /\ Children(t) /\ Entered(t)
        BY <2>1, <2>4, <3>1, AppendedTable DEF TableInv
      <4>. HIDE DEF t
      <4>. QED
        BY <2>2, <3>1, <3>3, <4>1, <4>2
    <3>. QED
      BY <2>4, <3>2, <3>3 DEF New
  <2>. QED
    BY <1>6, <2>3, <2>4 DEF Scan
<1>7. ASSUME NEW e \in Ino, ScanFails(e) PROVE TableInv'
  BY <1>7, QuietInv DEF ScanFails
<1>8. ASSUME NEW d \in Dir, NEW e \in Ino, Add(d, e) \/ Remove(d, e) PROVE TableInv'
  BY <1>8, QuietInv DEF Add, Remove, Change
<1>9. CASE \E d \in Dir : Switch(d)
  BY <1>9, QuietInv DEF Switch, Change
<1>10. ASSUME NEW p \in Pid, RunsvExit(p) PROVE TableInv'
  <2>1. /\ UNCHANGED <<sv, pc, exitsoon>> /\ termed' = termed \ {p}
        /\ proc'[p] = None /\ \A q \in Pid : q # p => proc'[q] = proc[q]
        /\ zombie' = IF pc = "gone" THEN zombie ELSE zombie \cup {p}
    BY <1>10 DEF RunsvExit, TypeRest
  <2>2. \A q \in zombie' : proc'[q] = None
    BY <2>1 DEF TableInv, TypeRest
  <2>3. Entered(sv)' /\ Distinct(sv')
    BY <2>1 DEF TableInv, Entered, Distinct
  <2>4. pc' # "gone" => Children(sv)'
    BY <2>1 DEF TableInv, Children
  <2>5. HupStopsAll'
    BY <2>1 DEF TableInv, HupStopsAll, live
  <2>. QED
    BY <2>2, <2>3, <2>4, <2>5 DEF TableInv, Distinct
<1>11. CASE Tick \/ Signal \/ UNCHANGED vars
  BY <1>11, QuietInv DEF Tick, Signal, vars
<1>. QED
  BY <1>1, <1>2, <1>3, <1>4, <1>5, <1>6, <1>7, <1>8, <1>9, <1>10, <1>11 DEF Next, Step

\* A table consistent with the processes, for ever.
LEMMA TableAlways == Spec => [](TypeRest /\ TableInv)
<1>1. Init => TypeRest /\ TableInv
  <2>1. Init => TypeRest
    BY BoundsAssumption, NamesAssumption DEF Init, TypeRest, live
  <2>2. Init => TableInv
    BY DEF Init, TableInv, Distinct, Children, Entered, HupStopsAll
  <2>. QED
    BY <2>1, <2>2
<1>2. TypeRest /\ TableInv /\ [Next]_vars => (TypeRest /\ TableInv)'
  BY TypeStep, TableStep
<1>. QED
  BY <1>1, <1>2, PTL DEF Spec

\* The table has one entry for each subdirectory and no pid twice, and every pid
\* is a child that was not waited for, whatever calls fail (runsvdir.c:100-118,
\* 131-136, 203-211, 280).
THEOREM TableConsistent == Spec => []OwnRunsv
<1>1. TypeRest /\ TableInv => OwnRunsv
  BY DEF TableInv, Distinct, Children, OwnRunsv, Pids, Entries, live
<1>. QED
  BY <1>1, TableAlways, PTL

\* A runsv that runs and was not told to exit is in the table, for its own
\* subdirectory (runsvdir.c:77, 133-134).
THEOREM NoRunsvLost == Spec => []NoStray
<1>1. TypeRest /\ TableInv => NoStray
  BY DEF TableInv, Entered, NoStray, Entries, live
<1>. QED
  BY <1>1, TableAlways, PTL

\* When runsvdir ends after a HUP, every runsv was told to exit
\* (runsvdir.c:279-282).
THEOREM HupTellsAll == Spec => []HupStopsAll
<1>1. TableInv => HupStopsAll
  BY DEF TableInv
<1>. QED
  BY <1>1, TableAlways, PTL

-----------------------------------------------------------------------------
(* What a sweep signals *)

\* While the directory is read, a service not yet seen is still to be returned
\* by readdir() or was absent; when it has been read, only the latter.
GoneInv ==
  /\ pc \in {"scan", "sweep"} =>
       \A i \in DOMAIN sv : sv[i].isgone => sv[i].ino \in todo \cup missing
  /\ pc = "sweep" => todo = {}

LEMMA GoneStep ==
  ASSUME TypeRest, TableInv, GoneInv, [Next]_vars
  PROVE  GoneInv'
<1> USE DEF table, scan
<1>1. CASE Collect \/ CollectDone \/ Stat \/ StatFails \/ NotDue \/ Chdir \/ ChdirFails
           \/ Sleep \/ OpenFails \/ ReadFails \/ SweepDone
  BY <1>1 DEF Collect, CollectDone, Stat, StatFails, NotDue, Chdir, ChdirFails, Sleep,
              OpenFails, ReadFails, SweepDone, GoneInv
<1>2. CASE Pause
  BY <1>2 DEF Pause, GoneInv
<1>3. CASE Open
  <2>1. pc' = "scan" /\ DOMAIN sv' = DOMAIN sv /\ todo' = dirs[cwd] /\ missing' = Ino \ dirs[cwd]
    BY <1>3 DEF Open
  <2>2. ASSUME NEW i \in DOMAIN sv PROVE sv'[i].ino \in Ino
    <3>1. sv[i] \in Entry
      BY DEF TypeRest
    <3>2. sv'[i] = [sv[i] EXCEPT !.isgone = TRUE]
      BY <1>3 DEF Open
    <3>. QED
      BY <3>1, <3>2 DEF Entry
  <2>. QED
    BY <2>1, <2>2 DEF GoneInv
<1>4. CASE ScanDone
  BY <1>4 DEF ScanDone, GoneInv
<1>5. CASE Sweep
  <2>1. k \in DOMAIN sv /\ UNCHANGED <<todo, missing, pc>> /\ pc = "sweep"
    BY <1>5 DEF Sweep, TypeRest
  <2>2. CASE sv[k].isgone
    <3>1. /\ Len(sv) \in Nat /\ DOMAIN sv = 1..Len(sv) /\ DOMAIN sv' = 1..(Len(sv) - 1)
          /\ \A j \in 1..(Len(sv) - 1) : sv'[j] = IF j = k THEN sv[Len(sv)] ELSE sv[j]
      BY <1>5, <2>1, <2>2, RemovedTable DEF Sweep, TypeRest
    <3>. QED
      BY <2>1, <3>1 DEF GoneInv
  <2>3. CASE ~sv[k].isgone
    BY <1>5, <2>1, <2>3 DEF Sweep, GoneInv
  <2>. QED
    BY <2>2, <2>3
<1>6. ASSUME NEW e \in Ino, Scan(e) PROVE GoneInv'
  <2>1. pc = "scan" /\ pc' = "scan" /\ todo' = todo \ {e} /\ missing' = missing
    BY <1>6 DEF Scan
  <2>2. ASSUME NEW t \in Seq(Entry), NEW no \in DOMAIN t, runsv(t, no, e),
               \A i \in DOMAIN t : t[i].isgone => t[i].ino \in todo' \cup missing'
        PROVE  GoneInv'
    <3>1. t[no] \in Entry
      OBVIOUS
    <3>2. /\ DOMAIN sv' = DOMAIN t
          /\ \A i \in DOMAIN t : sv'[i].isgone = t[i].isgone /\ sv'[i].ino = t[i].ino
      BY <2>2, <3>1 DEF runsv, Forked, Entry
    <3>. QED
      BY <2>1, <2>2, <3>2 DEF GoneInv
  <2>3. ASSUME NEW no \in DOMAIN sv, sv[no].ino = e, Known(e, no) PROVE GoneInv'
    <3>. DEFINE r == [sv[no] EXCEPT !.isgone = FALSE]
                t == [sv EXCEPT ![no].isgone = FALSE]
    <3>1. sv[no] \in Entry
      BY DEF TypeRest
    <3>2. r \in Entry /\ r.ino = sv[no].ino /\ ~r.isgone
      BY <3>1 DEF Entry
    <3>3. t = [sv EXCEPT ![no] = r]
      OBVIOUS
    <3>4. runsv(t, no, e) \/ sv' = t
      BY <2>3 DEF Known
    <3>. HIDE DEF r
    <3>5. t \in Seq(Entry) /\ DOMAIN t = DOMAIN sv
      BY <3>2, <3>3, TableExcept DEF TypeRest
    <3>6. \A i \in DOMAIN t : t[i].isgone => t[i].ino \in todo' \cup missing'
      BY <2>1, <2>3, <3>2, <3>3, <3>5 DEF GoneInv, TableInv, Distinct
    <3>. HIDE DEF t
    <3>. QED
      BY <2>1, <2>2, <3>4, <3>5, <3>6 DEF GoneInv
  <2>4. CASE (\A no \in DOMAIN sv : sv[no].ino # e) /\ New(e)
    <3>. DEFINE r == [ino |-> e, pid |-> NoPid, isgone |-> FALSE]
                t == Append(sv, r)
    <3>1. r \in Entry /\ ~r.isgone
      BY DEF Entry
    <3>2. runsv(t, Len(sv) + 1, e) \/ sv' = sv
      BY <2>4 DEF New
    <3>. HIDE DEF r
    <3>3. /\ t \in Seq(Entry) /\ Len(sv) + 1 \in DOMAIN t
          /\ \A i \in DOMAIN t : (i \in DOMAIN sv /\ t[i] = sv[i]) \/ t[i] = r
      <4>1. sv \in Seq(Entry)
        BY DEF TypeRest
      <4>. QED
        BY <3>1, <4>1, SMTT(40)
    <3>. HIDE DEF t
    <3>4. \A i \in DOMAIN t : t[i].isgone => t[i].ino \in todo' \cup missing'
      BY <2>1, <2>4, <3>1, <3>3 DEF GoneInv
    <3>. QED
      BY <2>1, <2>2, <2>4, <3>2, <3>3, <3>4 DEF GoneInv
  <2>. QED
    BY <1>6, <2>3, <2>4 DEF Scan
<1>7. ASSUME NEW e \in Ino, ScanFails(e) PROVE GoneInv'
  BY <1>7 DEF ScanFails, GoneInv
<1>8. ASSUME NEW d \in Dir, NEW e \in Ino, Add(d, e) PROVE GoneInv'
  BY <1>8 DEF Add, GoneInv
<1>9. ASSUME NEW d \in Dir, NEW e \in Ino, Remove(d, e) PROVE GoneInv'
  BY <1>9 DEF Remove, GoneInv
<1>10. CASE (\E d \in Dir : Switch(d)) \/ (\E p \in Pid : RunsvExit(p))
  BY <1>10 DEF Switch, RunsvExit, GoneInv
<1>11. CASE Tick \/ Signal \/ UNCHANGED vars
  BY <1>11 DEF Tick, Signal, vars, GoneInv
<1>. QED
  BY <1>1, <1>2, <1>3, <1>4, <1>5, <1>6, <1>7, <1>8, <1>9, <1>10, <1>11 DEF Next, Step

\* A service present throughout a scan that can be examined is not signalled by
\* the sweep after it (runsvdir.c:90-102, 131-136).
THEOREM SweepSparesPresent == Spec => KeepsPresent
<1>1. Init => GoneInv
  BY DEF Init, GoneInv
<1>2. TypeRest /\ TableInv /\ GoneInv /\ [Next]_vars => GoneInv'
  BY GoneStep
<1>3. TypeRest /\ TableInv /\ GoneInv /\ [Next]_vars
        => [pc = "sweep" => \A p \in termed' \ termed : proc[p] \in missing]_vars
  <2>. SUFFICES ASSUME TypeRest, TableInv, GoneInv, Next, pc = "sweep",
                       NEW p \in termed', p \notin termed
                PROVE  proc[p] \in missing
    BY DEF vars
  <2>1. Sweep
    BY DEF Next, Step, Collect, CollectDone, Stat, StatFails, NotDue, Chdir, ChdirFails, Sleep,
           Open, OpenFails, ReadFails, ScanDone, SweepDone, Pause, Scan, ScanFails, Tick, Signal,
           Switch, Add, Remove, RunsvExit, procs
  <2>2. k \in DOMAIN sv /\ sv[k].isgone /\ p = sv[k].pid /\ p \in Pid /\ proc[p] # None
    BY <2>1 DEF Sweep, TypeRest, live
  <2>3. proc[p] = sv[k].ino
    BY <2>2, NamesAssumption DEF TableInv, Children
  <2>. QED
    BY <2>2, <2>3 DEF GoneInv
<1>. QED
  BY <1>1, <1>2, <1>3, TableAlways, PTL DEF Spec, KeepsPresent

\* runsvdir keeps track of every runsv it started, for any number of services, changes
\* and failing calls (runsvdir() and main() of runsvdir.c).
THEOREM TableAlwaysSound == Spec => []TableSound
BY TableConsistent, NoRunsvLost, HupTellsAll, PTL DEF TableSound
=============================================================================

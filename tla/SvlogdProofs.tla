---------------------------- MODULE SvlogdProofs ----------------------------
(***************************************************************************)
(* Proofs about svlogd in Svlogd, for every input, every configuration and *)
(* any number of signals, crashes, full disks and failing processors.      *)
(***************************************************************************)
EXTENDS SvlogdFilesProofs

-----------------------------------------------------------------------------
(* The inductive invariant *)

\* A byte that is no newline.
Text == 1..(MaxBytes + 1)

Pcs == {"reopen", "get", "pread", "alarm", "flags", "tmax", "pause", "line", "eof", "put", "newline",
        "pwrite", "full", "written", "exit", "gone", "dead", "down", "stuck"}
Writing == {"pwrite", "full", "written"}

\* The records have their fields.
IoRec(i) == i = [pc |-> i.pc, ret |-> i.ret, data |-> i.data, line |-> i.line, long |-> i.long,
                 newline |-> i.newline, b |-> i.b, out |-> i.out, cwd |-> i.cwd, exitasap |-> i.exitasap,
                 rotateasap |-> i.rotateasap, reopenasap |-> i.reopenasap, linecomplete |-> i.linecomplete]
LdRec(l) == l = [open |-> l.open, size |-> l.size, found |-> l.found, ppid |-> l.ppid, match |-> l.match,
                 sizemax |-> l.sizemax, processor |-> l.processor, tmax |-> l.tmax, inst |-> l.inst, udp |-> l.udp]
BoundRec(n) == n = [signals |-> n.signals, crashes |-> n.crashes, full |-> n.full, isfull |-> n.isfull,
                    fails |-> n.fails, closed |-> n.closed, killed |-> n.killed]

TypeInv ==
  /\ IoRec(io) /\ io.pc \in Pcs /\ io.ret \in {"get", "put", "newline", "alarm", "flags"}
  /\ stream \in Seq(BOOLEAN) /\ Len(stream) <= MaxBytes /\ io.data \in 0..Len(stream)
  /\ io.line \in Seq(Text) /\ io.b \in Seq(Text) /\ io.out \in Seq(Byte)
  /\ LdRec(ld) /\ ld.sizemax \in 0..(Wide - 1) /\ ld.size \in Nat /\ ld.found \in Nat
  /\ BoundRec(bound) /\ bound.crashes \in Nat

\* What is being written comes from the buffer, which is empty meanwhile; it holds a
\* newline at its end only. A crash leaves nothing.
BufInv ==
  /\ io.pc \in Writing \cup {"down"} => io.b = <<>>
  /\ io.pc \in {"pwrite", "full"} => io.out # <<>>
  /\ io.pc \notin Writing \cup {"stuck"} => io.out = <<>>
  /\ \A j \in 1..(Len(io.out) - 1) : io.out[j] # NL

\* svlogd knows the size of current, and rotates a full one only before it writes.
SizeInv ==
  /\ io.pc \notin {"reopen", "down", "dead", "gone"} => ld.open
  /\ ld.open /\ io.pc # "down" => disk.cur # NoFile /\ ld.size = Len(disk.cur)
  /\ io.pc = "full" => ld.size >= ld.sizemax

\* A newline that svlogd wrote into current is where a line of linemax bytes still fits
\* behind it, or rotation is next.
LineInv ==
  ld.open /\ io.pc # "down" /\ ld.sizemax > linemax =>
    \A j \in (ld.found + 1)..Len(disk.cur) :
      disk.cur[j] = NL => j < ld.sizemax - linemax \/ (io.pc \in {"written", "stuck"} /\ j = Len(disk.cur))

LogInv == Log(disk, emitted, io.out, io.b)

\* A file misses bytes at its end only if a signal ended its processor.
KilledInv == \A f \in disk.old : f.n = Len(f.c) \/ f.t \in bound.killed

SvlogdInv == TypeInv /\ BufInv /\ SizeInv /\ LineInv /\ LogInv /\ KilledInv /\ OldLimit

-----------------------------------------------------------------------------
(* Every step keeps the invariant and the limits *)

\* What is to be shown of a step.
Keeps == SvlogdInv' /\ WithinSize /\ DeletesSurplus

\* The faults counted stay the same, or more processors were killed.
BoundSame == bound'.crashes = bound.crashes /\ bound.killed \subseteq bound'.killed

LEMMA KeptKilled ==
  ASSUME KilledInv, Kept(disk, disk'), bound.killed \subseteq bound'.killed
  PROVE  KilledInv'
BY DEF KilledInv, Kept

LEMMA MovesLimits ==
  ASSUME Sound(disk, emitted), Moves(disk, disk', emitted)
  PROVE  WithinSize /\ DeletesSurplus
<1>1. Len(Current(disk)) \in Nat /\ Len(Current(disk')) \in Nat /\ Len(Current(disk')) <= Len(Current(disk))
  BY CurrentType DEF Sound, Moves
<1>2. WithinSize
  BY <1>1 DEF WithinSize
<1>3. DeletesSurplus
  BY DEF DeletesSurplus, Starts, Moves
<1>. QED  BY <1>2, <1>3

LEMMA EndsLimit ==
  ASSUME OldLimit, Ends(disk, disk'), bound'.crashes = bound.crashes, bound.crashes \in Nat,
         Sound(disk, emitted), Moves(disk, disk', emitted)
  PROVE  OldLimit'
<1>1. Cardinality(Logs(disk)) \in Nat /\ Cardinality(Logs(disk')) \in Nat
  BY LogsFinite DEF Sound, Moves
<1>. QED  BY <1>1, Numbers DEF OldLimit, Ends, Logs

LEMMA StillDisk ==
  ASSUME OldLimit, Sound(disk, emitted), disk' = disk, BoundSame, KilledInv
  PROVE  KilledInv' /\ OldLimit' /\ WithinSize /\ DeletesSurplus
<1>1. OldLimit'
  BY DEF OldLimit, Logs, BoundSame
<1>2. Via(disk, disk', emitted)
  BY TraceOne
<1>3. KilledInv'
  BY <1>2, KeptKilled DEF Via, BoundSame
<1>. QED  BY <1>1, <1>2, <1>3, MovesLimits DEF Via

\* svlogd runs and writes nothing.
Calm == {"reopen", "get", "pread", "alarm", "flags", "tmax", "pause", "line", "eof", "put", "newline", "exit"}

\* What ld says of current.
LdSame == ld'.open = ld.open /\ ld'.size = ld.size /\ ld'.found = ld.found /\ ld'.sizemax = ld.sizemax

LEMMA PutStep ==
  ASSUME SvlogdInv, io.pc \in Calm \ {"reopen"}, TypeInv', disk' = disk, LdSame, BoundSame,
         NEW B, Log(disk, emitted', <<>>, B),
         \/ io'.out = <<>> /\ io'.b = B /\ io'.pc \in Calm
         \/ /\ io'.out = B /\ B # <<>> /\ io'.b = <<>> /\ io'.pc = "pwrite"
            /\ \A j \in 1..(Len(B) - 1) : B[j] # NL
  PROVE  Keeps
<1>0. io.pc \notin Writing /\ io.pc \notin {"reopen", "down", "dead", "gone"}
  BY DEF Calm, Writing
<1>1. LogInv'
  <2>1. CASE io'.out = <<>> /\ io'.b = B
    BY <2>1 DEF LogInv
  <2>2. CASE io'.out = B /\ io'.b = <<>>
    BY <2>2, LogFlush DEF LogInv
  <2>. QED  BY <2>1, <2>2
<1>2. BufInv'
  <2>1. CASE io'.out = <<>> /\ io'.pc \in Calm
    BY <2>1 DEF BufInv, Calm, Writing
  <2>2. CASE io'.out = B /\ B # <<>> /\ io'.b = <<>> /\ io'.pc = "pwrite" /\ \A j \in 1..(Len(B) - 1) : B[j] # NL
    BY <2>2 DEF BufInv, Writing
  <2>. QED  BY <2>1, <2>2
<1>3. io'.pc # "down" /\ io'.pc \notin {"dead", "gone", "full"}
  BY DEF Calm
<1>4. SizeInv'
  BY <1>0, <1>3 DEF SvlogdInv, SizeInv, LdSame
<1>5. LineInv'
  BY <1>0, <1>3 DEF SvlogdInv, LineInv, LdSame, Writing, Calm
<1>6. KilledInv' /\ OldLimit' /\ WithinSize /\ DeletesSurplus
  BY StillDisk DEF SvlogdInv, LogInv, Log
<1>. QED  BY <1>1, <1>2, <1>4, <1>5, <1>6 DEF Keeps, SvlogdInv

\* A step that touches nothing of this.
LEMMA IdleStep ==
  ASSUME SvlogdInv, TypeInv', disk' = disk, LdSame, emitted' = emitted, BoundSame,
         io'.out = io.out, io'.b = io.b, io'.pc = io.pc
  PROVE  Keeps
<1>1. LogInv' /\ BufInv'
  BY DEF SvlogdInv, LogInv, BufInv
<1>2. SizeInv' /\ LineInv'
  BY DEF SvlogdInv, SizeInv, LineInv, LdSame
<1>3. KilledInv' /\ OldLimit' /\ WithinSize /\ DeletesSurplus
  BY StillDisk DEF SvlogdInv, LogInv, Log
<1>. QED  BY <1>1, <1>2, <1>3 DEF Keeps, SvlogdInv

LEMMA CrashStep ==
  ASSUME SvlogdInv, NEW trace, Vias(trace, disk, emitted), CrashIn(trace)
  PROVE  Keeps
<1>1. PICK i \in 1..Len(trace) : disk' = trace[i]
  BY DEF CrashIn, Vias
<1>2. Via(disk, disk', emitted) /\ Sound(disk, emitted) /\ LogInv
  BY <1>1 DEF Vias, SvlogdInv, LogInv, Log
<1>3. io' = [Fresh EXCEPT !.pc = "down"]
  BY DEF CrashIn
<1>4. /\ io'.pc = "down" /\ io'.out = <<>> /\ io'.b = <<>> /\ io'.line = <<>> /\ io'.data = 0 /\ io'.ret = "get"
      /\ IoRec(io')
  BY <1>3 DEF Fresh, IoRec
<1>5. LogInv'
  <2>1. Log(disk', SubSeq(emitted, 1, Len(emitted) - Len(io.out) - Len(io.b)), <<>>, <<>>)
    BY <1>2, LogCrash DEF LogInv
  <2>. QED  BY <1>4, <2>1 DEF LogInv, CrashIn
<1>6. bound' = [bound EXCEPT !.crashes = @ + 1] /\ BoundRec(bound) /\ bound.crashes \in Nat
  BY DEF CrashIn, SvlogdInv, TypeInv
<1>7. /\ BoundRec(bound') /\ bound'.crashes = bound.crashes + 1 /\ bound'.crashes \in Nat
      /\ bound'.killed = bound.killed
  BY <1>6 DEF BoundRec
<1>8. TypeInv'
  <2>1. ld' = ld /\ stream' = stream
    BY DEF CrashIn
  <2>2. <<>> \in Seq(Text) /\ <<>> \in Seq(Byte) /\ 0 \in 0..Len(stream)
    BY DEF SvlogdInv, TypeInv
  <2>. QED  BY <1>4, <1>7, <2>1, <2>2 DEF SvlogdInv, TypeInv, Pcs
<1>9. BufInv' /\ SizeInv' /\ LineInv'
  BY <1>4 DEF BufInv, SizeInv, LineInv, Writing
<1>10. OldLimit'
  <2>1. Cardinality(Logs(disk)) \in Nat /\ Cardinality(Logs(disk')) \in Nat
    BY <1>2, LogsFinite DEF Sound, Via, Moves
  <2>2. Cardinality(Logs(disk')) <= Cardinality(Logs(disk)) + 1
    BY <1>2 DEF Via, Moves
  <2>3. nmax > 0 => Cardinality(Logs(disk)) <= nmax + bound.crashes
    BY DEF SvlogdInv, OldLimit
  <2>4. nmax > 0 => Cardinality(Logs(disk')) <= nmax + bound'.crashes
    <3>1. bound.crashes \in Nat /\ bound'.crashes = bound.crashes + 1 /\ nmax \in Nat
      BY <1>6, <1>7, Numbers
    <3>. QED  BY <2>1, <2>2, <2>3, <3>1, SMTT(40)
  <2>. QED  BY <2>4 DEF OldLimit, Logs
<1>11. WithinSize /\ DeletesSurplus
  BY <1>2, MovesLimits DEF Via
<1>12. KilledInv'
  BY <1>2, <1>7, KeptKilled DEF SvlogdInv, Via
<1>. QED  BY <1>5, <1>8, <1>9, <1>10, <1>11, <1>12 DEF Keeps, SvlogdInv

\* A step that takes the directory through a good trace and leaves the bytes alone.
LEMMA ThroughStep ==
  ASSUME SvlogdInv, NEW trace, GoodTrace(trace, disk, emitted), Through(trace),
         io'.out = io.out, io'.b = io.b
  PROVE  /\ LogInv' /\ KilledInv' /\ OldLimit' /\ WithinSize /\ DeletesSurplus
         /\ disk' = Last(trace) /\ Via(disk, disk', emitted) /\ bound' = bound
<1>1. disk' = trace[Len(trace)] /\ emitted' = emitted /\ bound' = bound /\ Len(trace) \in Nat /\ Len(trace) > 0
  BY DEF Through, Last, GoodTrace, Vias
<1>2. Via(disk, disk', emitted) /\ Ends(disk, disk') /\ disk' = Last(trace)
  BY <1>1 DEF GoodTrace, Vias, Last
<1>3. LogInv'
  BY <1>1, <1>2, LogMoves DEF SvlogdInv, LogInv, Via
<1>4. Sound(disk, emitted) /\ bound.crashes \in Nat /\ OldLimit
  BY DEF SvlogdInv, LogInv, Log, TypeInv
<1>5. KilledInv'
  BY <1>1, <1>2, KeptKilled DEF SvlogdInv, Via
<1>. QED  BY <1>1, <1>2, <1>3, <1>4, <1>5, MovesLimits, EndsLimit DEF Via

LEMMA CollectStep ==
  ASSUME SvlogdInv, NEW c \in child, Collect(c), io.pc \in {"alarm", "full", "written", "exit", "tmax", "pause"}
  PROVE  Keeps
<1>. DEFINE known == c.t = ld.ppid
            trace == IF known /\ ~Stuck(c) THEN processorstop(c) ELSE <<disk>>
<1>0. Sound(disk, emitted) /\ LdRec(ld) /\ IoRec(io)
  BY DEF SvlogdInv, LogInv, Log, TypeInv
<1>1. GoodTrace(trace, disk, emitted) /\ Last(trace).cur = disk.cur
  <2>1. CASE ~known \/ ~ld.open \/ Stuck(c)
    <3>1. trace = <<disk>>
      BY <2>1 DEF processorstop
    <3>2. GoodTrace(<<disk>>, disk, emitted) /\ Last(<<disk>>) = disk
      BY <1>0, TraceOne, Zenon
    <3>. QED  BY <3>1, <3>2
  <2>2. CASE known /\ ld.open /\ c.st = "fail"
    <3>1. trace = <<disk, Drop(disk, c.t, "t")>>
      BY <2>2 DEF processorstop, Stuck
    <3>2. Via(disk, Drop(disk, c.t, "t"), emitted) /\ Ends(disk, Drop(disk, c.t, "t"))
          /\ Drop(disk, c.t, "t").cur = disk.cur
      BY <1>0, ViaDropT
    <3>3. Vias(<<disk, Drop(disk, c.t, "t")>>, disk, emitted)
      BY <1>0, <3>2, TraceOne, ViasShort, Zenon
    <3>4. /\ Last(<<disk, Drop(disk, c.t, "t")>>) = Drop(disk, c.t, "t")
          /\ Len(<<disk, Drop(disk, c.t, "t")>>) > 0
      BY DEF Last
    <3>. QED  BY <3>1, <3>2, <3>3, <3>4 DEF GoodTrace
  <2>3. CASE known /\ ld.open /\ c.st # "fail" /\ ~Stuck(c)
    <3>1. trace = Processed(c.t)
      BY <2>3 DEF processorstop
    <3>2. Has(disk, c.t, "t")
      BY <2>3 DEF Stuck
    <3>. QED  BY <1>0, <3>1, <3>2, ProcessedTrace
  <2>. QED  BY <2>1, <2>2, <2>3
<1>. HIDE DEF trace, known
<1>2. CASE CrashIn(trace)
  BY <1>1, <1>2, CrashStep DEF GoodTrace
<1>3. CASE /\ ld' = [ld EXCEPT !.ppid = IF known /\ ~(known /\ c.st = "fail" /\ ld.open /\ ld.processor) THEN 0 ELSE @]
           /\ io' = [io EXCEPT !.cwd = IF known /\ ld.open THEN "init" ELSE @]
           /\ Through(trace)
  <2>1. /\ IoRec(io') /\ io'.pc = io.pc /\ io'.ret = io.ret /\ io'.data = io.data /\ io'.line = io.line
        /\ io'.b = io.b /\ io'.out = io.out
    BY <1>0, <1>3 DEF IoRec
  <2>2. LdRec(ld') /\ LdSame
    BY <1>0, <1>3 DEF LdRec, LdSame
  <2>3. /\ LogInv' /\ KilledInv' /\ OldLimit' /\ WithinSize /\ DeletesSurplus
        /\ disk'.cur = disk.cur /\ bound' = bound /\ stream' = stream
    BY <1>1, <1>3, <2>1, ThroughStep DEF Through
  <2>4. TypeInv'
    BY <2>1, <2>2, <2>3 DEF SvlogdInv, TypeInv, LdSame
  <2>5. BufInv'
    BY <2>1 DEF SvlogdInv, BufInv
  <2>6. SizeInv' /\ LineInv'
    BY <2>1, <2>2, <2>3 DEF SvlogdInv, SizeInv, LineInv, LdSame
  <2>. QED  BY <2>3, <2>4, <2>5, <2>6 DEF Keeps, SvlogdInv
<1>4. CASE /\ Stuck(c) /\ io' = [io EXCEPT !.pc = "stuck"] /\ ld' = [ld EXCEPT !.ppid = 0]
           /\ UNCHANGED <<disk, stream, emitted, bound>>
  <2>1. /\ IoRec(io') /\ io'.pc = "stuck" /\ io'.ret = io.ret /\ io'.data = io.data /\ io'.line = io.line
        /\ io'.b = io.b /\ io'.out = io.out
    BY <1>0, <1>4 DEF IoRec
  <2>2. LdRec(ld') /\ LdSame /\ ld.open
    BY <1>0, <1>4 DEF LdRec, LdSame, Stuck
  <2>3. KilledInv' /\ OldLimit' /\ WithinSize /\ DeletesSurplus
    BY <1>0, <1>4, StillDisk DEF SvlogdInv, BoundSame
  <2>4. TypeInv'
    BY <1>4, <2>1, <2>2 DEF SvlogdInv, TypeInv, LdSame, Pcs
  <2>5. BufInv' /\ LogInv'
    BY <1>4, <2>1 DEF SvlogdInv, BufInv, LogInv, Writing
  <2>6. SizeInv' /\ LineInv'
    BY <1>4, <2>1, <2>2 DEF SvlogdInv, SizeInv, LineInv, LdSame
  <2>. QED  BY <2>3, <2>4, <2>5, <2>6 DEF Keeps, SvlogdInv
<1>. QED  BY <1>2, <1>3, <1>4 DEF Collect, known, trace

LEMMA RotatingStep ==
  ASSUME SvlogdInv, NEW pc, NEW next0, Rotating(pc, next0),
         \/ pc = "alarm" /\ next0 = "flags"
         \/ pc = "full" /\ next0 = "pwrite"
         \/ pc = "written" /\ next0 = IF io.out = <<>> THEN io.ret ELSE "pwrite"
         \/ pc = "tmax" /\ next0 = "pause"
  PROVE  Keeps
<1>0. /\ Sound(disk, emitted) /\ disk \in DiskType /\ LdRec(ld) /\ IoRec(io) /\ io.pc = pc
      /\ ld.size \in Nat /\ TypeInv /\ BufInv
  BY DEF SvlogdInv, LogInv, Log, Sound, TypeInv, Rotating
<1>1. ld.open /\ disk.cur # NoFile /\ ld.size = Len(disk.cur) /\ disk.cur \in Seq(Byte)
  BY <1>0 DEF SvlogdInv, SizeInv, DiskType
<1>2. /\ GoodTrace(rotate, disk, emitted)
      /\ IF ld.size = 0 THEN Last(rotate) = disk ELSE Last(rotate).cur = <<>>
  BY <1>0, <1>1, RotateTrace
<1>3. CASE CrashIn(rotate)
  BY <1>2, <1>3, CrashStep DEF GoodTrace
<1>4. CASE /\ ld' = [ld EXCEPT !.size = 0, !.found = 0, !.ppid = IF ld.size > 0 /\ ld.processor THEN disk.t ELSE 0]
           /\ io' = [io EXCEPT !.pc = next0, !.cwd = "init", !.rotateasap = IF pc = "alarm" THEN FALSE ELSE @]
           /\ Through(rotate)
  <2>1. /\ IoRec(io') /\ io'.pc = next0 /\ io'.ret = io.ret /\ io'.data = io.data /\ io'.line = io.line
        /\ io'.b = io.b /\ io'.out = io.out
    BY <1>0, <1>4 DEF IoRec
  <2>2. LdRec(ld') /\ ld'.size = 0 /\ ld'.found = 0 /\ ld'.open = ld.open /\ ld'.sizemax = ld.sizemax
    BY <1>0, <1>4 DEF LdRec
  <2>3. /\ LogInv' /\ KilledInv' /\ OldLimit' /\ WithinSize /\ DeletesSurplus
        /\ disk' = Last(rotate) /\ bound' = bound /\ stream' = stream
    BY <1>2, <1>4, <2>1, ThroughStep DEF Through
  <2>4. disk'.cur # NoFile /\ Len(disk'.cur) = 0
    <3>1. <<>> # NoFile /\ Len(<<>>) = 0
      BY DEF NoFile
    <3>. QED  BY <1>1, <1>2, <2>3, <3>1
  <2>5. next0 \in Pcs /\ next0 \notin {"reopen", "down", "dead", "gone", "full"}
    BY <1>0 DEF TypeInv, Pcs
  <2>6. TypeInv'
    BY <1>0, <2>1, <2>2, <2>3, <2>5 DEF TypeInv
  <2>7. BufInv'
    <3>1. io.ret \notin Writing
      BY <1>0 DEF TypeInv, Writing
    <3>2. CASE pc \in {"full", "written"}
      BY <1>0, <2>1, <3>1, <3>2 DEF BufInv, Writing
    <3>3. CASE pc \in {"alarm", "tmax"}
      BY <1>0, <2>1, <3>3 DEF BufInv, Writing
    <3>. QED  BY <3>2, <3>3
  <2>8. SizeInv'
    BY <1>1, <2>1, <2>2, <2>4, <2>5 DEF SizeInv
  <2>9. LineInv'
    BY <2>2, <2>4 DEF LineInv
  <2>. QED  BY <2>3, <2>6, <2>7, <2>8, <2>9 DEF Keeps, SvlogdInv
<1>. QED  BY <1>3, <1>4 DEF Rotating

LEMMA ReopenStep ==
  ASSUME SvlogdInv, logdirs_reopen
  PROVE  Keeps
<1>. DEFINE d == IF ld.open THEN Closed(disk) ELSE disk
            trace == IF ld.open THEN <<disk, d>> \o Opened(d) ELSE <<disk>> \o Opened(d)
<1>0. /\ Sound(disk, emitted) /\ disk \in DiskType /\ LdRec(ld) /\ IoRec(io) /\ io.pc = "reopen"
      /\ TypeInv /\ BufInv
  BY DEF SvlogdInv, LogInv, Log, Sound, TypeInv, logdirs_reopen
<1>1. /\ Via(disk, d, emitted) /\ Ends(disk, d) /\ d.old = disk.old /\ d.t = disk.t /\ d.cur = disk.cur
      /\ Sound(d, emitted)
  <2>1. CASE ld.open
    BY <1>0, <2>1, ViaClosed, ViaDisk
  <2>2. CASE ~ld.open
    BY <1>0, <2>2, ViaSame, ViaDisk
  <2>. QED  BY <2>1, <2>2
<1>2. GoodTrace(Opened(d), disk, emitted) /\ Last(Opened(d)).cur # NoFile
  BY <1>0, <1>1, OpenedTrace, Zenon
<1>3. GoodTrace(trace, disk, emitted) /\ Last(trace) = Last(Opened(d))
  <2>. HIDE DEF d
  <2>1. Vias(<<disk>>, disk, emitted)
    BY <1>0, TraceOne, Zenon
  <2>2. Vias(<<disk, d>>, disk, emitted)
    BY <1>0, <1>1, TraceOne, ViasShort, Zenon
  <2>3. Vias(Opened(d), disk, emitted) /\ Len(Opened(d)) > 0 /\ Ends(disk, Last(Opened(d)))
    BY <1>2 DEF GoodTrace
  <2>4. ASSUME NEW p, Vias(p, disk, emitted)
        PROVE  GoodTrace(p \o Opened(d), disk, emitted) /\ Last(p \o Opened(d)) = Last(Opened(d))
    <3>1. /\ Vias(p \o Opened(d), disk, emitted) /\ Last(p \o Opened(d)) = Last(Opened(d))
          /\ Len(p \o Opened(d)) > 0
      BY <2>3, <2>4, ViasJoin, Zenon
    <3>. QED  BY <2>3, <3>1, Zenon DEF GoodTrace
  <2>5. CASE ld.open
    <3>1. trace = <<disk, d>> \o Opened(d)
      BY <2>5
    <3>. HIDE DEF trace
    <3>. QED  BY <2>2, <2>4, <3>1, Zenon
  <2>6. CASE ~ld.open
    <3>1. trace = <<disk>> \o Opened(d)
      BY <2>6
    <3>. HIDE DEF trace
    <3>. QED  BY <2>1, <2>4, <3>1, Zenon
  <2>. QED  BY <2>5, <2>6
<1>. HIDE DEF d, trace
<1>4. CASE CrashIn(trace)
  BY <1>3, <1>4, CrashStep DEF GoodTrace
<1>5. CASE /\ io' = [io EXCEPT !.pc = "dead"] /\ ld' = [ld EXCEPT !.open = FALSE, !.processor = FALSE]
           /\ Through(<<d>>)
  <2>1. /\ IoRec(io') /\ io'.pc = "dead" /\ io'.ret = io.ret /\ io'.data = io.data /\ io'.line = io.line
        /\ io'.b = io.b /\ io'.out = io.out
    BY <1>0, <1>5 DEF IoRec
  <2>2. LdRec(ld') /\ ld'.size = ld.size /\ ld'.found = ld.found /\ ~ld'.open /\ ld'.sizemax = ld.sizemax
    BY <1>0, <1>5 DEF LdRec
  <2>3. GoodTrace(<<d>>, disk, emitted)
    <3>1. Vias(<<d>>, disk, emitted)
      BY <1>1, ViasShort, Zenon
    <3>2. Last(<<d>>) = d /\ Len(<<d>>) > 0
      BY DEF Last
    <3>. QED  BY <1>1, <3>1, <3>2 DEF GoodTrace
  <2>4. LogInv' /\ KilledInv' /\ OldLimit' /\ WithinSize /\ DeletesSurplus /\ bound' = bound /\ stream' = stream
    BY <1>5, <2>1, <2>3, ThroughStep DEF Through
  <2>5. TypeInv'
    BY <1>0, <2>1, <2>2, <2>4 DEF TypeInv, Pcs
  <2>6. BufInv' /\ SizeInv' /\ LineInv'
    BY <1>0, <2>1, <2>2 DEF BufInv, SizeInv, LineInv, Writing
  <2>. QED  BY <2>4, <2>5, <2>6 DEF Keeps, SvlogdInv
<1>6. ASSUME NEW c \in Configs,
             ld' = [ld EXCEPT !.open = TRUE, !.ppid = 0, !.match = "+",
                              !.size = Len(Last(trace).cur), !.found = Len(Last(trace).cur),
                              !.sizemax = c.sizemax, !.processor = c.processor,
                              !.tmax = c.tmax, !.inst = c.inst, !.udp = c.udp],
             io' = [io EXCEPT !.pc = IF io.reopenasap THEN "tmax" ELSE "get", !.reopenasap = FALSE],
             Through(trace)
      PROVE  Keeps
  <2>1. /\ IoRec(io') /\ io'.pc \in {"tmax", "get"} /\ io'.ret = io.ret /\ io'.data = io.data /\ io'.line = io.line
        /\ io'.b = io.b /\ io'.out = io.out
    BY <1>0, <1>6 DEF IoRec
  <2>2. /\ LogInv' /\ KilledInv' /\ OldLimit' /\ WithinSize /\ DeletesSurplus /\ Via(disk, disk', emitted)
        /\ disk' = Last(trace) /\ bound' = bound /\ stream' = stream
    BY <1>3, <1>6, <2>1, ThroughStep DEF Through
  <2>. DEFINE n == Len(Last(trace).cur)
  <2>3. disk'.cur # NoFile /\ disk'.cur \in Seq(Byte) /\ Len(disk'.cur) = n /\ n \in Nat
    BY <1>2, <1>3, <2>2, ViaDisk DEF DiskType
  <2>4. c.sizemax \in 0..(Wide - 1)
    BY SvlogdAssumption
  <2>. HIDE DEF n
  <2>5. LdRec(ld') /\ ld'.size = n /\ ld'.found = n /\ ld'.open /\ ld'.sizemax = c.sizemax
    BY <1>0, <1>6 DEF LdRec, n
  <2>6. TypeInv'
    BY <1>0, <2>1, <2>2, <2>3, <2>4, <2>5 DEF TypeInv, Pcs
  <2>7. BufInv'
    BY <1>0, <2>1 DEF BufInv, Writing
  <2>8. SizeInv' /\ LineInv'
    BY <2>1, <2>3, <2>5 DEF SizeInv, LineInv
  <2>. QED  BY <2>2, <2>6, <2>7, <2>8 DEF Keeps, SvlogdInv
<1>. QED  BY <1>4, <1>5, <1>6 DEF logdirs_reopen, d, trace

LEMMA WideNat == Wide \in Nat /\ \A m \in 0..(Wide - 1) : m \in Nat /\ (m + Wide) % Wide = m
<1>1. Wide \in Nat
  BY DEF Wide
<1>2. \A m, w \in Nat : m < w => (m + w) % w = m
  OBVIOUS
<1>. QED  BY <1>1, <1>2

LEMMA WideGap == \A a \in 0..(Wide - 1), b \in Nat : a > b => (a - b + Wide) % Wide = a - b
<1>1. \A w, a, b \in Nat : a \in 0..(w - 1) /\ a > b => a - b \in 0..(w - 1)
  OBVIOUS
<1>2. \A a \in 0..(Wide - 1), b \in Nat : a > b => a - b \in 0..(Wide - 1)
  BY <1>1, WideNat
<1>. QED  BY <1>2, WideNat

LEMMA Room ==
  ASSUME ld.sizemax \in Nat, ld.size \in Nat, Len(io.out) \in Nat \ {0}, ~(ld.sizemax > 0 /\ ld.size >= ld.sizemax)
  PROVE  room \in 1..Len(io.out) /\ (ld.sizemax > 0 => ld.size + room <= ld.sizemax)
<1>1. ASSUME NEW a \in Nat, NEW b \in Nat PROVE Min({a, b}) \in {a, b} /\ Min({a, b}) <= a /\ Min({a, b}) <= b
  <2>1. \E x \in {a, b} : \A y \in {a, b} : x <= y
    OBVIOUS
  <2>. QED  BY <2>1 DEF Min
<1>2. CASE ld.sizemax = 0
  BY <1>2 DEF room
<1>3. CASE ld.sizemax > 0
  <2>. DEFINE a == Len(io.out)
              b == ld.sizemax - ld.size
              m == Min({a, b})
  <2>1. a \in Nat /\ b \in Nat /\ a > 0 /\ b > 0
    BY <1>3
  <2>2. room = m
    BY <1>3 DEF room
  <2>3. m \in {a, b} /\ m <= a /\ m <= b
    <3>. HIDE DEF a, b
    <3>. QED  BY <1>1, <2>1
  <2>. HIDE DEF m
  <2>. QED  BY <1>3, <2>1, <2>2, <2>3
<1>. QED  BY <1>2, <1>3

LEMMA PwriteStep ==
  ASSUME SvlogdInv, buffer_pwrite
  PROVE  Keeps
<1>0. /\ Sound(disk, emitted) /\ disk \in DiskType /\ LdRec(ld) /\ IoRec(io) /\ io.pc = "pwrite"
      /\ TypeInv /\ BufInv /\ LineInv /\ LogInv /\ KilledInv /\ OldLimit
  BY DEF SvlogdInv, LogInv, Log, Sound, TypeInv, buffer_pwrite
<1>1. /\ ld.open /\ disk.cur # NoFile /\ ld.size = Len(disk.cur) /\ disk.cur \in Seq(Byte) /\ ld.size \in Nat
      /\ ld.sizemax \in 0..(Wide - 1) /\ ld.sizemax \in Nat /\ ld.found \in Nat
  <2>1. ld.sizemax \in 0..(Wide - 1) /\ ld.size \in Nat /\ ld.found \in Nat
    BY <1>0 DEF TypeInv
  <2>2. ld.open /\ disk.cur # NoFile /\ ld.size = Len(disk.cur)
    BY <1>0 DEF SvlogdInv, SizeInv
  <2>3. disk.cur \in Seq(Byte)
    BY <1>0, <2>2 DEF DiskType
  <2>4. ld.sizemax \in Nat
    BY <2>1, WideNat
  <2>. QED  BY <2>1, <2>2, <2>3, <2>4
<1>2. io.b = <<>> /\ io.out # <<>> /\ io.out \in Seq(Byte) /\ Len(io.out) \in Nat \ {0}
  BY <1>0 DEF BufInv, Writing, TypeInv
<1>3. CASE ld.sizemax > 0 /\ ld.size >= ld.sizemax
  <2>1. io' = [io EXCEPT !.pc = "full"] /\ UNCHANGED <<disk, ld, stream, child, emitted, bound>>
    BY <1>3 DEF buffer_pwrite
  <2>2. /\ IoRec(io') /\ io'.pc = "full" /\ io'.ret = io.ret /\ io'.data = io.data /\ io'.line = io.line
        /\ io'.b = io.b /\ io'.out = io.out
    BY <1>0, <2>1 DEF IoRec
  <2>3. TypeInv'
    BY <1>0, <2>1, <2>2 DEF TypeInv, Pcs
  <2>4. BufInv'
    BY <1>0, <2>2 DEF BufInv, Writing
  <2>5. SizeInv' /\ LineInv' /\ LogInv'
    BY <1>0, <1>3, <2>1, <2>2 DEF SvlogdInv, SizeInv, LineInv, LogInv
  <2>6. KilledInv' /\ OldLimit' /\ WithinSize /\ DeletesSurplus
    BY <1>0, <2>1, StillDisk DEF BoundSame
  <2>. QED  BY <2>3, <2>4, <2>5, <2>6 DEF Keeps, SvlogdInv
<1>4. CASE ~(ld.sizemax > 0 /\ ld.size >= ld.sizemax)
  <2>. DEFINE n == room
              w == SubSeq(io.out, 1, n)
              o == SubSeq(io.out, n + 1, Len(io.out))
              i == [io EXCEPT !.out = SubSeq(@, n + 1, Len(@))]
              Rotates == /\ ld.sizemax > 0 /\ io.out[n] = NL
                         /\ ld'.size >= (ld.sizemax - linemax + Wide) % Wide
  <2>1. /\ disk' = [disk EXCEPT !.cur = @ \o w]
        /\ ld' = [ld EXCEPT !.size = @ + n]
        /\ io' = IF Rotates THEN [i EXCEPT !.pc = "written"]
                 ELSE [i EXCEPT !.pc = IF i.out = <<>> THEN i.ret ELSE "pwrite"]
        /\ UNCHANGED <<stream, child, emitted, bound>>
    BY <1>4, Zenon DEF buffer_pwrite
  <2>2. n \in 1..Len(io.out) /\ (ld.sizemax > 0 => ld.size + n <= ld.sizemax)
    BY <1>1, <1>2, <1>4, Room
  <2>. HIDE DEF n
  <2>3. w \in Seq(Byte) /\ Len(w) = n /\ o \in Seq(Byte) /\ Len(o) = Len(io.out) - n /\ n \in Nat \ {0}
    BY <1>2, <2>2
  <2>4. /\ \A j \in 1..n : w[j] = io.out[j]
        /\ \A j \in 1..Len(o) : o[j] = io.out[j + n]
    BY <1>2, <2>2, <2>3
  <2>5. LdRec(ld') /\ ld'.size = ld.size + n /\ ld'.found = ld.found /\ ld'.open = ld.open /\ ld'.sizemax = ld.sizemax
    BY <1>0, <2>1 DEF LdRec
  <2>6. /\ IoRec(i) /\ i.out = o /\ i.ret = io.ret /\ i.data = io.data /\ i.line = io.line /\ i.b = io.b
    <3>1. i = [io EXCEPT !.out = o]
      OBVIOUS
    <3>. HIDE DEF o, i
    <3>. QED  BY <1>0, <3>1 DEF IoRec
  <2>. HIDE DEF o, w
  <2>7. /\ IoRec(io') /\ io'.ret = io.ret /\ io'.data = io.data /\ io'.line = io.line
        /\ io'.b = io.b /\ io'.out = o
        /\ io'.pc = IF Rotates THEN "written" ELSE IF o = <<>> THEN io.ret ELSE "pwrite"
    <3>. HIDE DEF i, Rotates
    <3>1. CASE Rotates
      BY <2>1, <2>6, <3>1 DEF IoRec
    <3>2. CASE ~Rotates
      BY <2>1, <2>6, <3>2 DEF IoRec
    <3>. QED  BY <3>1, <3>2
  <2>8. Log(disk', emitted, o, io.b)
    <3>1. n \in 0..Len(io.out)
      BY <2>2
    <3>2. Log(disk, emitted, io.out, io.b)
      BY <1>0 DEF LogInv
    <3>. QED  BY <1>1, <2>1, <3>1, <3>2, LogWrite DEF o, w
  <2>9. LogInv'
    BY <2>1, <2>7, <2>8 DEF LogInv
  <2>10. /\ disk'.cur = disk.cur \o w /\ disk'.old = disk.old /\ disk'.cur \in Seq(Byte)
         /\ Len(disk'.cur) = ld.size + n /\ disk'.cur # NoFile
    <3>1. disk'.cur = disk.cur \o w /\ disk'.old = disk.old
      BY <1>0, <2>1 DEF DiskType
    <3>2. \A a, c \in Seq(Byte) : a \o c \in Seq(Byte) /\ Len(a \o c) = Len(a) + Len(c)
      OBVIOUS
    <3>3. disk.cur \o w \in Seq(Byte) /\ Len(disk.cur \o w) = Len(disk.cur) + Len(w)
      BY <1>1, <2>3, <3>2, Zenon
    <3>. QED  BY <1>1, <2>3, <3>1, <3>3, NoFileApart
  <2>18. KilledInv'
    BY <1>0, <2>1, <2>10 DEF KilledInv
  <2>11. OldLimit' /\ DeletesSurplus
    <3>1. Logs(disk') = Logs(disk)
      BY <2>10 DEF Logs
    <3>2. disk'.t = disk.t
      BY <1>0, <2>1 DEF DiskType
    <3>3. Starts(disk') = Starts(disk)
      BY <3>1, <3>2 DEF Starts
    <3>. QED  BY <1>0, <2>1, <3>1, <3>3 DEF OldLimit, DeletesSurplus, Logs
  <2>12. WithinSize
    BY <1>1, <2>2, <2>10 DEF WithinSize
  <2>13. io.ret \notin Writing \cup {"reopen", "down", "dead", "gone"} /\ io.ret \in Pcs
    BY <1>0 DEF TypeInv, Writing, Pcs
  <2>. HIDE DEF Rotates, i
  <2>14. TypeInv'
    <3>1. ld.size + n \in Nat
      BY <1>1, <2>3
    <3>2. io'.pc \in Pcs
      BY <2>7, <2>13 DEF Pcs
    <3>. QED  BY <1>0, <2>1, <2>3, <2>5, <2>7, <3>1, <3>2 DEF TypeInv
  <2>15. BufInv'
    <3>1. \A j \in 1..(Len(o) - 1) : o[j] # NL
      <4>. TAKE j \in 1..(Len(o) - 1)
      <4>1. j \in 1..Len(o) /\ j + n \in 1..(Len(io.out) - 1)
        BY <1>2, <2>2, <2>3
      <4>2. io.out[j + n] # NL
        BY <1>0, <4>1 DEF BufInv
      <4>. QED  BY <2>4, <4>1, <4>2
    <3>2. o # <<>> \/ io'.pc \notin {"pwrite", "full"}
      BY <2>7, <2>13 DEF Writing
    <3>3. io'.pc \notin Writing => o = <<>>
      BY <2>7 DEF Writing
    <3>. QED  BY <1>2, <2>7, <3>1, <3>2, <3>3 DEF BufInv
  <2>16. SizeInv'
    <3>1. io'.pc # "full"
      BY <2>7, <2>13 DEF Writing
    <3>. QED  BY <1>1, <2>5, <2>7, <2>10, <2>13, <3>1 DEF SizeInv
  <2>17. LineInv'
    <3>. SUFFICES ASSUME ld.sizemax > linemax, NEW j \in (ld.found + 1)..(ld.size + n), disk'.cur[j] = NL
                  PROVE  j < ld.sizemax - linemax \/ (io'.pc = "written" /\ j = ld.size + n)
      BY <2>5, <2>10 DEF LineInv
    <3>1. CASE j <= ld.size
      <4>1. disk.cur[j] = NL /\ j \in (ld.found + 1)..Len(disk.cur)
        BY <1>1, <2>3, <2>10, <3>1
      <4>. QED  BY <1>0, <1>1, <4>1 DEF LineInv
    <3>2. CASE j > ld.size
      <4>. DEFINE q == j - ld.size
      <4>1. q \in 1..n /\ disk'.cur[j] = w[q]
        BY <1>1, <2>3, <2>10, <3>2
      <4>2. io.out[q] = NL /\ q \in 1..Len(io.out)
        BY <1>2, <2>2, <2>4, <4>1
      <4>3. q = Len(io.out)
        BY <1>0, <1>2, <4>2 DEF BufInv
      <4>4. q = n /\ io.out[n] = NL /\ j = ld.size + n
        <5>1. q = n
          BY <1>2, <2>2, <4>1, <4>3
        <5>2. j = ld.size + q
          BY <1>1, <2>3
        <5>. QED  BY <4>2, <5>1, <5>2
      <4>5. (ld.sizemax - linemax + Wide) % Wide = ld.sizemax - linemax
        <5>1. ld.sizemax \in 0..(Wide - 1)
          BY <1>1
        <5>2. linemax \in Nat
          BY Numbers
        <5>. QED  BY <5>1, <5>2, WideGap
      <4>6. ld.sizemax > 0
        BY <1>1, Numbers
      <4>7. CASE ld.size + n >= ld.sizemax - linemax
        <5>1. Rotates
          BY <2>5, <4>4, <4>5, <4>6, <4>7 DEF Rotates
        <5>. QED  BY <2>7, <4>4, <5>1
      <4>8. CASE ld.size + n < ld.sizemax - linemax
        BY <4>4, <4>8
      <4>. QED  BY <1>1, <2>3, <4>7, <4>8, Numbers
    <3>. QED  BY <1>1, <3>1, <3>2
  <2>. QED  BY <2>9, <2>11, <2>12, <2>14, <2>15, <2>16, <2>17, <2>18 DEF Keeps, SvlogdInv
<1>. QED  BY <1>3, <1>4

LEMMA NoSpaceStep ==
  ASSUME SvlogdInv, NoSpace
  PROVE  Keeps
<1>. DEFINE deletes == nmin < nmax /\ Cardinality(disk.old) > nmin
<1>0. /\ Sound(disk, emitted) /\ disk \in DiskType /\ BoundRec(bound) /\ IoRec(io) /\ io.pc = "pwrite"
      /\ TypeInv /\ BufInv /\ LogInv /\ OldLimit /\ bound.crashes \in Nat /\ bound.isfull
      /\ IsFiniteSet(disk.old)
  BY DEF SvlogdInv, LogInv, Log, Sound, OldOK, TypeInv, NoSpace
<1>1. /\ disk' = IF deletes THEN [disk EXCEPT !.old = @ \ {oldest(@)}] ELSE disk
      /\ io' = [io EXCEPT !.cwd = IF nmin < nmax /\ ~deletes THEN "log" ELSE "init"]
      /\ bound' = [bound EXCEPT !.isfull = ~deletes]
      /\ UNCHANGED <<ld, stream, child, emitted>>
  BY DEF NoSpace
<1>2. /\ IoRec(io') /\ io'.pc = io.pc /\ io'.ret = io.ret /\ io'.data = io.data /\ io'.line = io.line
      /\ io'.b = io.b /\ io'.out = io.out
  BY <1>0, <1>1 DEF IoRec
<1>3. BoundRec(bound') /\ BoundSame
  BY <1>0, <1>1 DEF BoundRec, BoundSame
<1>4. TypeInv'
  BY <1>0, <1>1, <1>2, <1>3 DEF TypeInv
<1>5. BufInv'
  BY <1>0, <1>2 DEF BufInv
<1>6. CASE ~deletes
  <2>1. disk' = disk /\ LdSame /\ emitted' = emitted
    BY <1>1, <1>6 DEF LdSame
  <2>. QED  BY <1>2, <1>3, <1>4, <2>1, IdleStep
<1>7. CASE deletes
  <2>. DEFINE r == [disk EXCEPT !.old = @ \ {oldest(@)}]
  <2>1. disk' = r
    BY <1>1, <1>7
  <2>2. disk.old # {}
    BY <1>0, <1>7, FS_EmptySet, Numbers
  <2>3. Log(r, emitted, io.out, io.b) /\ Cardinality(Logs(r)) <= Cardinality(Logs(disk)) /\ Kept(disk, r)
    BY <1>0, <2>2, LogGiveUp DEF LogInv
  <2>4. r.cur = disk.cur /\ r.t = disk.t
    BY <1>0 DEF DiskType
  <2>. HIDE DEF r
  <2>5. LogInv'
    BY <1>1, <1>2, <2>1, <2>3 DEF LogInv
  <2>6. SizeInv' /\ LineInv'
    BY <1>1, <1>2, <2>1, <2>4 DEF SvlogdInv, SizeInv, LineInv
  <2>7. Cardinality(Logs(disk)) \in Nat /\ Cardinality(Logs(r)) \in Nat
    BY <1>0, <2>3, LogsFinite DEF Sound, Log
  <2>8. nmax > 0 => Cardinality(Logs(r)) <= nmax + bound'.crashes
    BY <1>0, <1>3, <2>3, <2>7, Numbers DEF OldLimit, BoundSame
  <2>9. OldLimit'
    BY <2>1, <2>8 DEF OldLimit, Logs
  <2>10. DeletesSurplus
    BY <1>0 DEF DeletesSurplus
  <2>11. WithinSize
    <3>1. Current(disk') = Current(disk) /\ Len(Current(disk)) \in Nat
      BY <1>0, <2>1, <2>4, CurrentType DEF Current
    <3>. QED  BY <3>1 DEF WithinSize
  <2>12. KilledInv'
    BY <1>3, <2>1, <2>3, KeptKilled DEF SvlogdInv, BoundSame
  <2>. QED  BY <1>4, <1>5, <2>5, <2>6, <2>9, <2>10, <2>11, <2>12 DEF Keeps, SvlogdInv
<1>. QED  BY <1>6, <1>7

LEMMA ProcessorStep ==
  ASSUME SvlogdInv, ProcessorOpens \/ ProcessorEnds \/ ProcessorKilled
  PROVE  Keeps
<1>0. Sound(disk, emitted) /\ BoundRec(bound) /\ bound.crashes \in Nat /\ OldLimit /\ LogInv /\ TypeInv /\ KilledInv
  BY DEF SvlogdInv, LogInv, Log, TypeInv
<1>1. CASE ProcessorEnds
  <2>1. UNCHANGED <<disk, ld, io, stream, emitted>>
    BY <1>1 DEF ProcessorEnds
  <2>2. bound' = bound \/ bound' = [bound EXCEPT !.fails = @ + 1]
    BY <1>1 DEF ProcessorEnds
  <2>3. BoundRec(bound') /\ BoundSame
    BY <1>0, <2>2 DEF BoundRec, BoundSame
  <2>4. TypeInv' /\ LdSame
    BY <1>0, <2>1, <2>3 DEF TypeInv, LdSame, BoundSame
  <2>. QED  BY <2>1, <2>3, <2>4, IdleStep
<1>2. CASE ProcessorOpens
  <2>1. PICK c \in child :
          /\ IF Has(disk, c.t, "u")
             THEN disk' = Written(disk, c.t, Len(File(disk, c.t, "u").c))
             ELSE disk' = disk
          /\ UNCHANGED <<ld, io, stream, emitted, bound>>
    BY <1>2 DEF ProcessorOpens
  <2>2. TypeInv' /\ LdSame /\ BoundSame
    BY <1>0, <2>1 DEF TypeInv, LdSame, BoundSame
  <2>3. CASE ~Has(disk, c.t, "u")
    BY <2>1, <2>2, <2>3, IdleStep
  <2>4. CASE Has(disk, c.t, "u")
    <3>1. Via(disk, disk', emitted) /\ Ends(disk, disk') /\ disk'.cur = disk.cur /\ disk'.t = disk.t
      BY <1>0, <2>1, <2>4, ViaWritten
    <3>2. LogInv'
      BY <1>0, <2>1, <3>1, LogMoves DEF LogInv, Via
    <3>3. KilledInv' /\ OldLimit' /\ WithinSize /\ DeletesSurplus
      BY <1>0, <2>1, <3>1, KeptKilled, MovesLimits, EndsLimit DEF Via
    <3>4. BufInv' /\ SizeInv' /\ LineInv'
      BY <2>1, <3>1 DEF SvlogdInv, BufInv, SizeInv, LineInv
    <3>. QED  BY <2>2, <3>2, <3>3, <3>4 DEF Keeps, SvlogdInv
  <2>. QED  BY <2>3, <2>4
<1>3. CASE ProcessorKilled
  <2>1. PICK c \in child :
          /\ bound' = [bound EXCEPT !.fails = @ + 1, !.killed = @ \cup {c.t}]
          /\ IF c.st = "run" /\ Has(disk, c.t, "t")
             THEN \E n \in 0..Len(File(disk, c.t, "t").c) : disk' = Written(disk, c.t, n)
             ELSE disk' = disk
          /\ UNCHANGED <<ld, io, stream, emitted>>
    BY <1>3 DEF ProcessorKilled
  <2>2. BoundRec(bound') /\ bound'.crashes = bound.crashes /\ bound'.killed = bound.killed \cup {c.t}
    BY <1>0, <2>1 DEF BoundRec
  <2>3. TypeInv' /\ LdSame /\ BoundSame
    BY <1>0, <2>1, <2>2 DEF TypeInv, LdSame, BoundSame
  <2>4. CASE disk' = disk
    BY <2>1, <2>3, <2>4, IdleStep
  <2>5. CASE Has(disk, c.t, "t") /\ \E n \in 0..Len(File(disk, c.t, "t").c) : disk' = Written(disk, c.t, n)
    <3>1. PICK n \in 0..Len(File(disk, c.t, "t").c) : disk' = Written(disk, c.t, n)
      BY <2>5
    <3>2. n \in Nat
      BY <1>0, <2>5, FileThere DEF Sound, DiskType, OldFile
    <3>3. Has(disk, c.t, "u")
      BY <1>0, <2>5 DEF Has, Sound, OldOK
    <3>4. /\ Moves(disk, disk', emitted) /\ Ends(disk, disk') /\ disk'.cur = disk.cur /\ disk'.t = disk.t
          /\ \A g \in disk'.old : g \in disk.old \/ g.t = c.t
      BY <1>0, <3>1, <3>2, <3>3, WrittenMoves, SMTT(40)
    <3>5. LogInv'
      BY <1>0, <2>1, <3>4, LogMoves DEF LogInv
    <3>6. OldLimit' /\ WithinSize /\ DeletesSurplus
      BY <1>0, <2>2, <3>4, MovesLimits, EndsLimit
    <3>7. KilledInv'
      BY <1>0, <2>2, <3>4 DEF KilledInv
    <3>8. BufInv' /\ SizeInv' /\ LineInv'
      BY <2>1, <3>4 DEF SvlogdInv, BufInv, SizeInv, LineInv
    <3>. QED  BY <2>3, <3>5, <3>6, <3>7, <3>8 DEF Keeps, SvlogdInv
  <2>. QED  BY <2>1, <2>4, <2>5
<1>. QED  BY <1>1, <1>2, <1>3

LEMMA EdgeStep ==
  ASSUME SvlogdInv, Exit \/ Start \/ Crash \/ DiskFull \/ DiskFreed
  PROVE  Keeps
<1>0. /\ Sound(disk, emitted) /\ BoundRec(bound) /\ bound.crashes \in Nat /\ OldLimit /\ LogInv /\ TypeInv /\ KilledInv
      /\ LdRec(ld) /\ IoRec(io)
  BY DEF SvlogdInv, LogInv, Log, TypeInv
<1>1. CASE Exit
  <2>1. /\ io' = [io EXCEPT !.pc = "gone"] /\ disk' = Closed(disk) /\ ld' = [ld EXCEPT !.open = FALSE]
        /\ io.pc = "exit" /\ UNCHANGED <<stream, child, emitted, bound>>
    BY <1>1 DEF Exit
  <2>2. /\ IoRec(io') /\ io'.pc = "gone" /\ io'.ret = io.ret /\ io'.data = io.data /\ io'.line = io.line
        /\ io'.b = io.b /\ io'.out = io.out
    BY <1>0, <2>1 DEF IoRec
  <2>3. LdRec(ld') /\ ld'.size = ld.size /\ ld'.found = ld.found /\ ~ld'.open /\ ld'.sizemax = ld.sizemax
    BY <1>0, <2>1 DEF LdRec
  <2>4. Via(disk, disk', emitted) /\ Ends(disk, disk')
    BY <1>0, <2>1, ViaClosed
  <2>5. LogInv'
    BY <1>0, <2>1, <2>2, <2>4, LogMoves DEF LogInv, Via
  <2>6. KilledInv' /\ OldLimit' /\ WithinSize /\ DeletesSurplus
    BY <1>0, <2>1, <2>4, KeptKilled, MovesLimits, EndsLimit DEF Via
  <2>7. TypeInv'
    BY <1>0, <2>1, <2>2, <2>3 DEF TypeInv, Pcs
  <2>8. BufInv' /\ SizeInv' /\ LineInv'
    BY <2>1, <2>2, <2>3 DEF SvlogdInv, BufInv, SizeInv, LineInv, Writing
  <2>. QED  BY <2>5, <2>6, <2>7, <2>8 DEF Keeps, SvlogdInv
<1>2. CASE Start
  <2>1. io' = Fresh /\ ld' = NoDir /\ io.pc = "down" /\ UNCHANGED <<disk, stream, child, emitted, bound>>
    BY <1>2 DEF Start
  <2>2. /\ IoRec(io') /\ io'.pc = "reopen" /\ io'.ret = "get" /\ io'.data = 0 /\ io'.line = <<>>
        /\ io'.b = <<>> /\ io'.out = <<>>
    BY <2>1 DEF IoRec, Fresh
  <2>3. LdRec(ld') /\ ld'.size = 0 /\ ld'.found = 0 /\ ~ld'.open /\ ld'.sizemax = 0
    BY <2>1 DEF LdRec, NoDir
  <2>4. TypeInv'
    <3>1. <<>> \in Seq(Text) /\ <<>> \in Seq(Byte) /\ 0 \in 0..Len(stream)
      BY <1>0 DEF TypeInv
    <3>2. 0 \in 0..(Wide - 1)
      BY DEF Wide
    <3>. QED  BY <1>0, <2>1, <2>2, <2>3, <3>1, <3>2 DEF TypeInv, Pcs
  <2>5. BufInv' /\ SizeInv' /\ LineInv'
    BY <2>2, <2>3, SMTT(40) DEF BufInv, SizeInv, LineInv, Writing
  <2>6. LogInv'
    <3>1. io.out = <<>> /\ io.b = <<>>
      BY <2>1 DEF SvlogdInv, BufInv, Writing
    <3>. QED  BY <1>0, <2>1, <2>2, <3>1 DEF LogInv
  <2>7. KilledInv' /\ OldLimit' /\ WithinSize /\ DeletesSurplus
    BY <1>0, <2>1, StillDisk DEF BoundSame
  <2>. QED  BY <2>4, <2>5, <2>6, <2>7 DEF Keeps, SvlogdInv
<1>3. CASE Crash
  <2>1. Vias(<<disk>>, disk, emitted)
    BY <1>0, TraceOne, Zenon
  <2>. QED  BY <1>3, <2>1, CrashStep DEF Crash
<1>4. CASE DiskFull \/ DiskFreed
  <2>1. UNCHANGED <<disk, ld, io, stream, emitted>>
    BY <1>4 DEF DiskFull, DiskFreed
  <2>2. BoundRec(bound') /\ BoundSame
    BY <1>0, <1>4 DEF BoundRec, BoundSame, DiskFull, DiskFreed
  <2>3. TypeInv' /\ LdSame
    BY <1>0, <2>1, <2>2 DEF TypeInv, LdSame, BoundSame
  <2>. QED  BY <2>1, <2>2, <2>3, IdleStep
<1>. QED  BY <1>1, <1>2, <1>3, <1>4

LEMMA TextIsByte == /\ \A x \in Text : x \in Byte /\ x # NL
                    /\ NL \in Byte /\ \A s \in Seq(Text) : s \in Seq(Byte)
<1>1. \A x \in Text : x \in Byte /\ x # NL
  BY Numbers DEF Text, Byte, NL
<1>2. NL \in Byte
  BY Numbers DEF Byte, NL
<1>. QED  BY <1>1, <1>2

LEMMA CalmStep ==
  ASSUME SvlogdInv, io.pc \in Calm \ {"reopen"}, TypeInv', disk' = disk, LdSame, BoundSame,
         emitted' = emitted, io'.out = io.out, io'.b = io.b, io'.pc \in Calm
  PROVE  Keeps
<1>1. io.out = <<>>
  BY DEF SvlogdInv, BufInv, Calm, Writing
<1>2. Log(disk, emitted', <<>>, io.b)
  BY <1>1 DEF SvlogdInv, LogInv
<1>. QED  BY <1>1, <1>2, PutStep

LEMMA FlushFields ==
  ASSUME NEW i, IoRec(i), NEW next0
  PROVE  /\ IoRec(Flush(i, next0)) /\ Flush(i, next0).data = i.data /\ Flush(i, next0).line = i.line
         /\ Flush(i, next0).b = <<>>
         /\ i.b = <<>> => /\ Flush(i, next0).pc = next0 /\ Flush(i, next0).ret = i.ret
                          /\ Flush(i, next0).out = i.out
         /\ i.b # <<>> => /\ Flush(i, next0).pc = "pwrite" /\ Flush(i, next0).ret = next0
                          /\ Flush(i, next0).out = i.b
<1>1. CASE i.b = <<>>
  BY <1>1 DEF Flush, IoRec
<1>2. CASE i.b # <<>>
  BY <1>2 DEF Flush, IoRec
<1>. QED  BY <1>1, <1>2

LEMMA FlushStep ==
  ASSUME SvlogdInv, io.pc \in Calm \ {"reopen"}, disk' = disk, LdSame, LdRec(ld'), stream' = stream, bound' = bound,
         NEW i, IoRec(i), i.ret = io.ret, i.out = <<>>, i.data \in 0..Len(stream), i.line \in Seq(Text),
         NEW next0 \in {"get", "put", "newline", "alarm", "flags"}, io' = Flush(i, next0),
         i.b \in Seq(Byte), \A j \in 1..(Len(i.b) - 1) : i.b[j] # NL, Log(disk, emitted', <<>>, i.b)
  PROVE  Keeps
<1>1. /\ IoRec(io') /\ io'.data = i.data /\ io'.line = i.line /\ io'.b = <<>>
      /\ i.b = <<>> => io'.pc = next0 /\ io'.ret = i.ret /\ io'.out = i.out
      /\ i.b # <<>> => io'.pc = "pwrite" /\ io'.ret = next0 /\ io'.out = i.b
  BY FlushFields, SMTT(40)
<1>2. next0 \in Pcs /\ next0 \in Calm /\ "pwrite" \in Pcs
  BY DEF Pcs, Calm
<1>3. <<>> \in Seq(Text) /\ <<>> \in Seq(Byte)
  OBVIOUS
<1>4. TypeInv'
  <2>1. TypeInv
    BY DEF SvlogdInv
  <2>2. io'.pc \in Pcs /\ io'.ret \in {"get", "put", "newline", "alarm", "flags"} /\ io'.out \in Seq(Byte)
    BY <1>1, <1>2, <1>3, <2>1 DEF TypeInv
  <2>3. ld'.sizemax = ld.sizemax /\ ld'.size = ld.size /\ ld'.found = ld.found
    BY DEF LdSame
  <2>. QED  BY <1>1, <1>3, <2>1, <2>2, <2>3 DEF TypeInv
<1>5. CASE i.b = <<>>
  BY <1>1, <1>2, <1>4, <1>5, PutStep DEF BoundSame
<1>6. CASE i.b # <<>>
  BY <1>1, <1>4, <1>6, PutStep DEF BoundSame
<1>. QED  BY <1>5, <1>6

\* buffer_pread() between its system calls.
LEMMA PreadStep ==
  ASSUME SvlogdInv, Pread \/ PreadFlags \/ PreadYoung \/ ReadNothing \/ Eof \/ Leave
  PROVE  Keeps
<1>0. TypeInv /\ IoRec(io) /\ LdRec(ld) /\ BoundRec(bound) /\ BufInv /\ LogInv
  BY DEF SvlogdInv, TypeInv
<1>1. UNCHANGED quiet
  BY DEF Pread, PreadFlags, PreadYoung, ReadNothing, Eof, Leave
<1>2. disk' = disk /\ LdSame /\ ld' = ld /\ stream' = stream /\ bound' = bound /\ emitted' = emitted
  BY <1>1 DEF quiet, LdSame
<1>3. CASE Pread
  <2>. DEFINE n == IF io.rotateasap THEN "alarm" ELSE "flags"
  <2>1. io.pc = "pread" /\ io' = Flush(io, n) /\ n \in {"get", "put", "newline", "alarm", "flags"}
    BY <1>3 DEF Pread
  <2>. HIDE DEF n
  <2>2. io.pc \in Calm \ {"reopen"} /\ io.pc \notin Writing \cup {"stuck"}
    BY <2>1 DEF Calm, Writing
  <2>3. io.out = <<>> /\ io.b \in Seq(Text) /\ io.b \in Seq(Byte)
    BY <1>0, <2>2, TextIsByte DEF BufInv, TypeInv
  <2>4. \A j \in 1..(Len(io.b) - 1) : io.b[j] # NL
    BY <2>3, TextIsByte
  <2>5. Log(disk, emitted', <<>>, io.b)
    BY <1>0, <1>2, <2>3 DEF LogInv
  <2>6. io.data \in 0..Len(stream) /\ io.line \in Seq(Text)
    BY <1>0 DEF TypeInv
  <2>. QED  BY <1>0, <1>2, <2>1, <2>2, <2>3, <2>4, <2>5, <2>6, FlushStep
<1>4. CASE PreadFlags \/ PreadYoung \/ ReadNothing \/ Eof \/ Leave
  <2>1. io.pc \in {"flags", "tmax", "pause", "eof", "line"}
    BY <1>4 DEF PreadFlags, PreadYoung, ReadNothing, Eof, Leave
  <2>2. PICK p \in {"eof", "reopen", "tmax", "pause", "pread", "newline", "line", "exit"} :
          \E x : io' = [io EXCEPT !.pc = p, !.exitasap = x]
    <3>1. CASE PreadFlags \/ PreadYoung \/ ReadNothing \/ Leave
      <4>1. \E p \in {"eof", "reopen", "tmax", "pause", "pread", "newline", "line", "exit"} : io' = [io EXCEPT !.pc = p]
        BY <3>1 DEF PreadFlags, PreadYoung, ReadNothing, Leave
      <4>2. \A p : [io EXCEPT !.pc = p] = [io EXCEPT !.pc = p, !.exitasap = io.exitasap]
        BY <1>0 DEF IoRec
      <4>. QED  BY <4>1, <4>2
    <3>2. CASE Eof
      <4>1. io' = [io EXCEPT !.exitasap = TRUE, !.pc = IF io.long THEN "newline" ELSE "line"]
        BY <3>2 DEF Eof
      <4>2. \A p, x : [io EXCEPT !.exitasap = x, !.pc = p] = [io EXCEPT !.pc = p, !.exitasap = x]
        BY <1>0 DEF IoRec
      <4>3. (IF io.long THEN "newline" ELSE "line") \in {"newline", "line"}
        OBVIOUS
      <4>. QED  BY <4>1, <4>2, <4>3, ZenonT(40)
    <3>. QED  BY <1>4, <3>1, <3>2
  <2>3. /\ IoRec(io') /\ io'.pc = p /\ io'.ret = io.ret /\ io'.data = io.data /\ io'.line = io.line
        /\ io'.b = io.b /\ io'.out = io.out
    BY <1>0, <2>2 DEF IoRec
  <2>4. TypeInv'
    BY <1>0, <1>2, <2>3 DEF TypeInv, Pcs
  <2>5. io.pc \in Calm \ {"reopen"} /\ io'.pc \in Calm
    BY <2>1, <2>3 DEF Calm
  <2>. QED  BY <1>2, <2>3, <2>4, <2>5, CalmStep DEF BoundSame
<1>. QED  BY <1>3, <1>4

\* Signals.
LEMMA SignalStep ==
  ASSUME SvlogdInv, Signals
  PROVE  Keeps
<1>0. TypeInv /\ IoRec(io) /\ BoundRec(bound)
  BY DEF SvlogdInv, TypeInv
<1>1. UNCHANGED <<disk, ld, stream, emitted>>
  BY DEF Signals, sig_term_handler, sig_alarm_handler, sig_hangup_handler, quiet
<1>2. bound' = bound \/ bound' = [bound EXCEPT !.signals = @ + 1]
  BY DEF Signals, sig_term_handler, sig_alarm_handler, sig_hangup_handler, quiet
<1>3. BoundRec(bound') /\ BoundSame
  BY <1>0, <1>2 DEF BoundRec, BoundSame
<1>4. \/ io' = [io EXCEPT !.exitasap = TRUE]
      \/ io' = [io EXCEPT !.rotateasap = TRUE]
      \/ io' = [io EXCEPT !.reopenasap = TRUE]
  BY DEF Signals, sig_term_handler, sig_alarm_handler, sig_hangup_handler
<1>5. /\ IoRec(io') /\ io'.pc = io.pc /\ io'.ret = io.ret /\ io'.data = io.data /\ io'.line = io.line
      /\ io'.b = io.b /\ io'.out = io.out
  BY <1>0, <1>4 DEF IoRec
<1>6. TypeInv' /\ LdSame
  BY <1>0, <1>1, <1>3, <1>5 DEF TypeInv, LdSame, BoundSame
<1>. QED  BY <1>1, <1>3, <1>5, <1>6, IdleStep

\* read()
LEMMA ReadStep ==
  ASSUME SvlogdInv, Read \/ ReadOnTerm \/ ReadEnd
  PROVE  Keeps
<1>0. TypeInv /\ IoRec(io) /\ BoundRec(bound) /\ io.pc = "pause" /\ io.pc \in Calm \ {"reopen"}
  BY DEF SvlogdInv, TypeInv, Read, ReadOnTerm, ReadEnd, Calm
<1>1. CASE ReadEnd
  <2>1. io' = [io EXCEPT !.pc = "eof"] /\ bound' = [bound EXCEPT !.closed = TRUE]
        /\ UNCHANGED <<disk, ld, stream, child, emitted>>
    BY <1>1 DEF ReadEnd
  <2>2. /\ IoRec(io') /\ io'.pc = "eof" /\ io'.ret = io.ret /\ io'.data = io.data /\ io'.line = io.line
        /\ io'.b = io.b /\ io'.out = io.out
    BY <1>0, <2>1 DEF IoRec
  <2>3. BoundRec(bound') /\ BoundSame
    BY <1>0, <2>1 DEF BoundRec, BoundSame
  <2>4. TypeInv' /\ LdSame /\ io'.pc \in Calm
    BY <1>0, <2>1, <2>2, <2>3 DEF TypeInv, LdSame, Pcs, Calm
  <2>. QED  BY <1>0, <2>1, <2>2, <2>3, <2>4, CalmStep
<1>2. CASE Read \/ ReadOnTerm
  <2>0. buflen \in Nat /\ stream \in Seq(BOOLEAN) /\ Len(stream) \in Nat
    BY <1>0, Numbers DEF TypeInv
  <2>8. PICK n \in Nat \ {0} : \E s \in [1..n -> BOOLEAN] :
          /\ Len(stream) + n <= MaxBytes /\ stream' = stream \o s
          /\ \E x : io' = [io EXCEPT !.pc = "get", !.data = n, !.linecomplete = s[n], !.exitasap = x]
    <3>1. CASE Read
      <4>1. PICK n \in 1..(IF io.exitasap THEN 1 ELSE buflen) : \E s \in [1..n -> BOOLEAN] :
              /\ Len(stream) + n <= MaxBytes /\ stream' = stream \o s
              /\ io' = [io EXCEPT !.pc = "get", !.data = n, !.linecomplete = s[n]]
        BY <3>1 DEF Read
      <4>2. n \in Nat \ {0}
        BY <2>0
      <4>3. \A y : [io EXCEPT !.pc = "get", !.data = n, !.linecomplete = y]
                   = [io EXCEPT !.pc = "get", !.data = n, !.linecomplete = y, !.exitasap = io.exitasap]
        BY <1>0 DEF IoRec
      <4>4. PICK s \in [1..n -> BOOLEAN] :
              /\ Len(stream) + n <= MaxBytes /\ stream' = stream \o s
              /\ io' = [io EXCEPT !.pc = "get", !.data = n, !.linecomplete = s[n]]
        BY <4>1
      <4>5. io' = [io EXCEPT !.pc = "get", !.data = n, !.linecomplete = s[n], !.exitasap = io.exitasap]
        BY <4>3, <4>4
      <4>. QED  BY <4>2, <4>4, <4>5
    <3>2. CASE ReadOnTerm
      <4>1. PICK n \in 1..buflen : \E s \in [1..n -> BOOLEAN] :
              /\ Len(stream) + n <= MaxBytes /\ stream' = stream \o s
              /\ io' = [io EXCEPT !.pc = "get", !.data = n, !.linecomplete = s[n], !.exitasap = TRUE]
        BY <3>2 DEF ReadOnTerm
      <4>2. n \in Nat \ {0}
        BY <2>0
      <4>. QED  BY <4>1, <4>2
    <3>. QED  BY <1>2, <3>1, <3>2
  <2>1. PICK s \in [1..n -> BOOLEAN] :
          /\ Len(stream) + n <= MaxBytes /\ stream' = stream \o s
          /\ \E x : io' = [io EXCEPT !.pc = "get", !.data = n, !.linecomplete = s[n], !.exitasap = x]
    BY <2>8
  <2>2. UNCHANGED <<disk, ld, emitted, bound>>
    BY <1>2 DEF Read, ReadOnTerm
  <2>3. s \in Seq(BOOLEAN) /\ Len(s) = n
    OBVIOUS
  <2>4. stream' \in Seq(BOOLEAN) /\ Len(stream') = Len(stream) + n
    <3>1. \A a, c \in Seq(BOOLEAN) : a \o c \in Seq(BOOLEAN) /\ Len(a \o c) = Len(a) + Len(c)
      OBVIOUS
    <3>. QED  BY <2>0, <2>1, <2>3, <3>1, Zenon
  <2>5. /\ IoRec(io') /\ io'.pc = "get" /\ io'.ret = io.ret /\ io'.data = n /\ io'.line = io.line
        /\ io'.b = io.b /\ io'.out = io.out
    BY <1>0, <2>1 DEF IoRec
  <2>6. n \in 0..Len(stream') /\ Len(stream') <= MaxBytes
    BY <2>0, <2>1, <2>4, Numbers
  <2>7. TypeInv' /\ LdSame /\ io'.pc \in Calm
    BY <1>0, <2>2, <2>4, <2>5, <2>6 DEF TypeInv, LdSame, Pcs, Calm
  <2>. QED  BY <1>0, <2>2, <2>5, <2>7, CalmStep DEF BoundSame
<1>. QED  BY <1>1, <1>2

LEMMA NextByte ==
  ASSUME TypeInv, io.data > 0
  PROVE  next \in Text /\ io.data - 1 \in 0..Len(stream)
<1>1. /\ stream \in Seq(BOOLEAN) /\ MaxBytes \in Nat
      /\ Len(stream) <= MaxBytes /\ io.data \in 0..Len(stream)
  BY Numbers DEF TypeInv
<1>2. Len(stream) \in Nat
  BY <1>1, LenProperties
<1>. DEFINE n == Len(stream)
            d == io.data
<1>3. n \in Nat /\ d \in 0..n /\ d > 0 /\ n <= MaxBytes /\ MaxBytes \in Nat
  BY <1>1, <1>2
<1>. HIDE DEF n, d
<1>4. n - d + 1 \in 1..(MaxBytes + 1) /\ d - 1 \in 0..n
  BY <1>3
<1>. QED  BY <1>4 DEF next, Text, n, d

LEMMA TextJoin ==
  /\ \A a, c \in Seq(Text) : a \o c \in Seq(Text)
  /\ \A a \in Seq(Text), x \in Text : Append(a, x) \in Seq(Text)
  /\ \A a \in Seq(Byte), c \in Seq(Byte) : a \o c \in Seq(Byte)
OBVIOUS

\* A line with its newline holds no other.
LEMMA NewlineLast ==
  ASSUME NEW a \in Seq(Text)
  PROVE  Append(a, NL) \in Seq(Byte) /\ \A j \in 1..(Len(Append(a, NL)) - 1) : Append(a, NL)[j] # NL
<1>1. a \in Seq(Byte) /\ NL \in Byte
  BY TextIsByte
<1>2. \A j \in 1..(Len(Append(a, NL)) - 1) : Append(a, NL)[j] \in Text
  OBVIOUS
<1>. QED  BY <1>1, <1>2, TextIsByte

LEMMA GetLineStep ==
  ASSUME SvlogdInv, GetLine
  PROVE  Keeps
<1>0. TypeInv /\ IoRec(io) /\ io.pc = "get" /\ io.pc \in Calm \ {"reopen"} /\ io.data \in Nat /\ io.line \in Seq(Text)
  BY DEF SvlogdInv, TypeInv, GetLine, Calm
<1>1. disk' = disk /\ LdSame /\ ld' = ld /\ stream' = stream /\ bound' = bound /\ emitted' = emitted
  BY DEF GetLine, quiet, LdSame
<1>2. /\ IoRec(io') /\ io'.pc \in {"pread", "line", "get"} /\ io'.ret = io.ret
      /\ io'.data \in 0..Len(stream) /\ io'.line \in Seq(Text)
      /\ io'.b = io.b /\ io'.out = io.out
  <2>1. CASE io.data = 0
    <3>1. io' = [io EXCEPT !.pc = "pread"]
      BY <2>1 DEF GetLine
    <3>. QED  BY <1>0, <3>1 DEF IoRec, TypeInv
  <2>2. CASE io.data > 0 /\ stream[next]
    <3>. DEFINE n == io.data - 1
    <3>1. io' = [io EXCEPT !.data = n, !.pc = "line", !.newline = TRUE]
      BY <2>2 DEF GetLine
    <3>2. n \in 0..Len(stream)
      BY <1>0, <2>2, NextByte
    <3>. HIDE DEF n
    <3>. QED  BY <1>0, <3>1, <3>2 DEF IoRec
  <2>3. CASE io.data > 0 /\ ~stream[next]
    <3>. DEFINE n == io.data - 1
                l == Append(io.line, next)
                p == IF Len(io.line) + 1 = linemax THEN "line" ELSE "get"
    <3>1. io' = [io EXCEPT !.data = n, !.line = l, !.pc = p]
      BY <1>0, <2>3 DEF GetLine
    <3>2. n \in 0..Len(stream) /\ l \in Seq(Text) /\ p \in {"line", "get"}
      BY <1>0, <2>3, NextByte, TextJoin
    <3>. HIDE DEF n, l, p
    <3>. QED  BY <1>0, <3>1, <3>2 DEF IoRec
  <2>. QED  BY <1>0, <2>1, <2>2, <2>3
<1>3. TypeInv' /\ io'.pc \in Calm
  BY <1>0, <1>1, <1>2 DEF TypeInv, Pcs, Calm
<1>. QED  BY <1>0, <1>1, <1>2, <1>3, CalmStep DEF BoundSame

LEMMA ConcatAppend ==
  ASSUME NEW a \in Seq(Byte), NEW c \in Seq(Byte), NEW x \in Byte
  PROVE  a \o Append(c, x) = Append(a \o c, x)
<1>1. <<x>> \in Seq(Byte) /\ a \o c \in Seq(Byte)
  OBVIOUS
<1>2. Append(c, x) = c \o <<x>> /\ Append(a \o c, x) = (a \o c) \o <<x>>
  BY <1>1, AppendIsConcat
<1>3. (a \o c) \o <<x>> = a \o (c \o <<x>>)
  BY <1>1, ConcatAssociative
<1>. QED  BY <1>2, <1>3

LEMMA LineStep ==
  ASSUME SvlogdInv, Line
  PROVE  Keeps
<1>0. /\ TypeInv /\ IoRec(io) /\ LdRec(ld) /\ io.pc \in Calm \ {"reopen"} /\ io.out = <<>> /\ LogInv
      /\ io.line \in Seq(Text) /\ io.b \in Seq(Text) /\ io.data \in 0..Len(stream)
  BY DEF SvlogdInv, TypeInv, Line, Calm, BufInv, Writing
<1>. DEFINE warning == <<Warn>> \o io.line \o <<NL>>
<1>1. PICK l \in logmatch, sent \in BOOLEAN :
        /\ ld' = l
        /\ IF l.match = "+" /\ l.udp # "no" /\ ~sent
           THEN io' = Flush([io EXCEPT !.b = @ \o warning], "put") /\ emitted' = emitted \o warning
           ELSE io' = [io EXCEPT !.pc = "put"] /\ UNCHANGED emitted
  BY DEF Line
<1>2. disk' = disk /\ stream' = stream /\ bound' = bound
  BY DEF Line
<1>3. LdRec(ld') /\ LdSame
  <2>1. ld' = ld \/ \E m : ld' = [ld EXCEPT !.match = m]
    BY <1>1 DEF logmatch
  <2>. QED  BY <1>0, <2>1 DEF LdRec, LdSame
<1>4. CASE io' = [io EXCEPT !.pc = "put"] /\ UNCHANGED emitted
  <2>1. /\ IoRec(io') /\ io'.pc = "put" /\ io'.ret = io.ret /\ io'.data = io.data /\ io'.line = io.line
        /\ io'.b = io.b /\ io'.out = io.out
    BY <1>0, <1>4 DEF IoRec
  <2>2. TypeInv' /\ io'.pc \in Calm
    BY <1>0, <1>2, <1>3, <2>1 DEF TypeInv, LdSame, Pcs, Calm
  <2>. QED  BY <1>0, <1>2, <1>3, <1>4, <2>1, <2>2, CalmStep DEF BoundSame
<1>5. CASE io' = Flush([io EXCEPT !.b = @ \o warning], "put") /\ emitted' = emitted \o warning
  <2>. DEFINE text == <<Warn>> \o io.line
              all == io.b \o text
              i == [io EXCEPT !.b = @ \o warning]
  <2>1. Warn \in Text /\ NL \in Byte
    BY Numbers DEF Warn, Text, Byte, NL
  <2>2. <<Warn>> \in Seq(Text)
    BY <2>1
  <2>3. text \in Seq(Text) /\ all \in Seq(Text)
    <3>1. text \in Seq(Text)
      BY <1>0, <2>2, TextJoin, Zenon
    <3>. HIDE DEF text
    <3>. QED  BY <1>0, <3>1, TextJoin, Zenon
  <2>. HIDE DEF text
  <2>4. warning = Append(text, NL) /\ warning \in Seq(Byte)
    <3>1. text \in Seq(Byte) /\ NL \in Byte
      BY <2>1, <2>3, TextIsByte
    <3>2. Append(text, NL) = text \o <<NL>> /\ Append(text, NL) \in Seq(Byte)
      BY <3>1, AppendIsConcat
    <3>3. warning = text \o <<NL>>
      BY Zenon DEF text
    <3>. QED  BY <3>2, <3>3
  <2>. HIDE DEF warning
  <2>5. io.b \o warning = Append(all, NL)
    <3>1. io.b \in Seq(Byte) /\ text \in Seq(Byte) /\ NL \in Byte
      BY <1>0, <2>1, <2>3, TextIsByte
    <3>. QED  BY <2>4, <3>1, ConcatAppend
  <2>. HIDE DEF all
  <2>6. IoRec(i) /\ i.ret = io.ret /\ i.out = <<>> /\ i.data = io.data /\ i.line = io.line /\ i.b = Append(all, NL)
    <3>. DEFINE B == Append(all, NL)
    <3>1. i = [io EXCEPT !.b = B]
      BY <2>5
    <3>. HIDE DEF B, i
    <3>. QED  BY <1>0, <3>1 DEF IoRec, B
  <2>7. Log(disk, emitted', <<>>, i.b)
    <3>1. Log(disk, emitted \o warning, io.out, io.b \o warning)
      BY <1>0, <2>4, LogEmit DEF LogInv
    <3>. QED  BY <1>0, <1>5, <2>5, <2>6, <3>1
  <2>8. i.b \in Seq(Byte) /\ \A j \in 1..(Len(i.b) - 1) : i.b[j] # NL
    BY <2>3, <2>6, NewlineLast
  <2>. HIDE DEF i
  <2>9. io' = Flush(i, "put") /\ i.data \in 0..Len(stream) /\ i.line \in Seq(Text)
    BY <1>0, <1>5, <2>6 DEF i
  <2>. QED  BY <1>0, <1>2, <1>3, <2>6, <2>7, <2>8, <2>9, FlushStep
<1>. QED  BY <1>1, <1>4, <1>5

LEMMA PutsStep ==
  ASSUME SvlogdInv, Put
  PROVE  Keeps
<1>0. /\ TypeInv /\ IoRec(io) /\ io.pc \in Calm \ {"reopen"} /\ io.out = <<>> /\ LogInv
      /\ io.line \in Seq(Text) /\ io.b \in Seq(Text) /\ io.data \in 0..Len(stream)
  BY DEF SvlogdInv, TypeInv, Put, Calm, BufInv, Writing
<1>1. disk' = disk /\ ld' = ld /\ LdSame /\ stream' = stream /\ bound' = bound
  BY DEF Put, LdSame
<1>. DEFINE B == IF Selected THEN io.b \o io.line ELSE io.b
            p == IF io.newline THEN "newline" ELSE "get"
            n == ~io.newline
<1>2. io' = [io EXCEPT !.b = B, !.long = n, !.pc = p]
  BY <1>0 DEF Put
<1>3. B \in Seq(Text) /\ p \in {"newline", "get"}
  BY <1>0, TextJoin, Zenon
<1>4. Log(disk, emitted', <<>>, B)
  <2>1. CASE Selected
    <3>1. io.line \in Seq(Byte)
      BY <1>0, TextIsByte
    <3>2. Log(disk, emitted \o io.line, io.out, io.b \o io.line)
      BY <1>0, <3>1, LogEmit DEF LogInv
    <3>. QED  BY <1>0, <2>1, <3>2 DEF Put
  <2>2. CASE ~Selected
    BY <1>0, <2>2 DEF Put, LogInv
  <2>. QED  BY <2>1, <2>2
<1>. HIDE DEF B, p, n
<1>5. /\ IoRec(io') /\ io'.pc = p /\ io'.ret = io.ret /\ io'.data = io.data /\ io'.line = io.line
      /\ io'.b = B /\ io'.out = <<>>
  BY <1>0, <1>2 DEF IoRec
<1>6. p \in Pcs /\ p \in Calm
  BY <1>3 DEF Pcs, Calm
<1>7. TypeInv'
  BY <1>0, <1>1, <1>3, <1>5, <1>6 DEF TypeInv
<1>. QED  BY <1>0, <1>1, <1>4, <1>5, <1>6, <1>7, PutStep DEF BoundSame

\* What the buffer holds before the newline holds no newline.
LEMMA TextNoNewline ==
  ASSUME NEW a \in Seq(Text)
  PROVE  a \in Seq(Byte) /\ \A j \in 1..(Len(a) - 1) : a[j] # NL
<1>1. a \in Seq(Byte) /\ NL \notin Text
  BY TextIsByte
<1>2. \A j \in 1..(Len(a) - 1) : a[j] \in Text
  OBVIOUS
<1>. QED  BY <1>1, <1>2

LEMMA LogAppend ==
  ASSUME LogInv, io.out = <<>>, io.b \in Seq(Text), emitted \in Seq(Byte), NEW x \in Byte
  PROVE  Log(disk, Append(emitted, x), <<>>, Append(io.b, x))
<1>1. io.b \in Seq(Byte) /\ <<x>> \in Seq(Byte)
  BY TextIsByte
<1>2. Append(emitted, x) = emitted \o <<x>> /\ Append(io.b, x) = io.b \o <<x>>
  BY <1>1, AppendIsConcat
<1>3. Log(disk, emitted \o <<x>>, <<>>, io.b \o <<x>>)
  BY <1>1, LogEmit, Zenon DEF LogInv
<1>. QED  BY <1>2, <1>3

LEMMA GetLongStep ==
  ASSUME SvlogdInv, GetLong
  PROVE  Keeps
<1>0. /\ TypeInv /\ IoRec(io) /\ LdRec(ld) /\ io.pc = "get" /\ io.pc \in Calm \ {"reopen"} /\ io.out = <<>> /\ LogInv
      /\ io.line \in Seq(Text) /\ io.b \in Seq(Text) /\ io.data \in 0..Len(stream) /\ io.data \in Nat
      /\ emitted \in Seq(Byte)
  BY DEF SvlogdInv, TypeInv, GetLong, Calm, BufInv, Writing, LogInv, Log
<1>1. disk' = disk /\ ld' = ld /\ LdSame /\ stream' = stream /\ bound' = bound
  BY DEF GetLong, LdSame
<1>2. Log(disk, emitted, <<>>, io.b)
  BY <1>0 DEF LogInv
<1>3. ASSUME emitted' = emitted, IoRec(io'), io'.pc \in {"pread", "newline"}, io'.ret = io.ret,
             io'.data \in 0..Len(stream), io'.line = io.line, io'.b = io.b, io'.out = io.out
      PROVE  Keeps
  <2>1. TypeInv' /\ io'.pc \in Calm
    BY <1>0, <1>1, <1>3 DEF TypeInv, Pcs, Calm
  <2>. QED  BY <1>0, <1>1, <1>3, <2>1, CalmStep DEF BoundSame
<1>4. CASE io.data = 0
  <2>1. io' = [io EXCEPT !.pc = "pread"] /\ emitted' = emitted
    BY <1>4 DEF GetLong
  <2>. QED  BY <1>0, <1>3, <2>1 DEF IoRec
<1>5. CASE io.data > 0 /\ stream[next]
  <2>. DEFINE n == io.data - 1
  <2>1. io' = [io EXCEPT !.data = n, !.pc = "newline"] /\ emitted' = emitted
    BY <1>5 DEF GetLong
  <2>2. n \in 0..Len(stream)
    BY <1>0, <1>5, NextByte
  <2>. HIDE DEF n
  <2>. QED  BY <1>0, <1>3, <2>1, <2>2 DEF IoRec
<1>6. CASE io.data > 0 /\ ~stream[next] /\ Selected /\ Len(io.b) = buflen
  <2>1. io' = Flush(io, "get") /\ emitted' = emitted
    BY <1>6 DEF GetLong
  <2>2. io.b \in Seq(Byte) /\ \A j \in 1..(Len(io.b) - 1) : io.b[j] # NL
    BY <1>0, TextNoNewline
  <2>. QED  BY <1>0, <1>1, <1>2, <2>1, <2>2, FlushStep
<1>7. CASE io.data > 0 /\ ~stream[next] /\ ~(Selected /\ Len(io.b) = buflen)
  <2>. DEFINE n == io.data - 1
              B == IF Selected THEN Append(io.b, next) ELSE io.b
  <2>1. io' = [io EXCEPT !.data = n, !.b = B] /\ emitted' = IF Selected THEN Append(emitted, next) ELSE emitted
    BY <1>0, <1>7 DEF GetLong
  <2>2. n \in 0..Len(stream) /\ next \in Text /\ next \in Byte
    BY <1>0, <1>7, NextByte, TextIsByte
  <2>3. B \in Seq(Text)
    BY <1>0, <2>2, TextJoin, Zenon
  <2>4. Log(disk, emitted', <<>>, B)
    BY <1>0, <1>2, <2>1, <2>2, LogAppend
  <2>. HIDE DEF n, B
  <2>5. /\ IoRec(io') /\ io'.pc = "get" /\ io'.ret = io.ret /\ io'.data = n /\ io'.line = io.line
        /\ io'.b = B /\ io'.out = <<>>
    BY <1>0, <2>1 DEF IoRec
  <2>6. TypeInv' /\ io'.pc \in Calm
    BY <1>0, <1>1, <2>2, <2>3, <2>5 DEF TypeInv, Pcs, Calm
  <2>. QED  BY <1>0, <1>1, <2>4, <2>5, <2>6, PutStep DEF BoundSame
<1>. QED  BY <1>0, <1>4, <1>5, <1>6, <1>7

LEMMA NewlineStep ==
  ASSUME SvlogdInv, Newline
  PROVE  Keeps
<1>0. /\ TypeInv /\ IoRec(io) /\ LdRec(ld) /\ io.pc = "newline" /\ io.pc \in Calm \ {"reopen"} /\ io.out = <<>> /\ LogInv
      /\ io.line \in Seq(Text) /\ io.b \in Seq(Text) /\ io.data \in 0..Len(stream)
      /\ emitted \in Seq(Byte)
  BY DEF SvlogdInv, TypeInv, Newline, Calm, BufInv, Writing, LogInv, Log
<1>1. disk' = disk /\ ld' = ld /\ LdSame /\ stream' = stream /\ bound' = bound
  BY DEF Newline, LdSame
<1>2. Log(disk, emitted, <<>>, io.b)
  BY <1>0 DEF LogInv
<1>3. io.b \in Seq(Byte) /\ \A j \in 1..(Len(io.b) - 1) : io.b[j] # NL
  BY <1>0, TextNoNewline
<1>4. CASE Selected /\ Len(io.b) = buflen
  <2>1. io' = Flush(io, "newline") /\ emitted' = emitted
    BY <1>4 DEF Newline
  <2>. QED  BY <1>0, <1>1, <1>2, <1>3, <2>1, FlushStep
<1>5. CASE ~(Selected /\ Len(io.b) = buflen)
  <2>. DEFINE B == IF Selected THEN Append(io.b, NL) ELSE io.b
              i == [io EXCEPT !.b = B, !.line = <<>>, !.long = FALSE, !.newline = FALSE]
  <2>1. io' = Flush(i, "get") /\ emitted' = IF Selected THEN Append(emitted, NL) ELSE emitted
    BY <1>0, <1>5 DEF Newline
  <2>2. NL \in Byte
    BY TextIsByte
  <2>3. B \in Seq(Byte) /\ \A j \in 1..(Len(B) - 1) : B[j] # NL
    BY <1>0, <1>3, NewlineLast
  <2>4. Log(disk, emitted', <<>>, B)
    BY <1>0, <1>2, <2>1, <2>2, LogAppend
  <2>. HIDE DEF B
  <2>5. IoRec(i) /\ i.ret = io.ret /\ i.out = <<>> /\ i.data = io.data /\ i.line = <<>> /\ i.b = B
    <3>. DEFINE e == <<>>
                f == FALSE
    <3>1. i = [io EXCEPT !.b = B, !.line = e, !.long = f, !.newline = f]
      OBVIOUS
    <3>. HIDE DEF i, e, f
    <3>2. IoRec(i) /\ i.ret = io.ret /\ i.out = io.out /\ i.data = io.data /\ i.line = e /\ i.b = B
      BY <1>0, <3>1 DEF IoRec
    <3>. QED  BY <1>0, <3>2 DEF e
  <2>6. <<>> \in Seq(Text)
    OBVIOUS
  <2>. HIDE DEF i
  <2>. QED  BY <1>0, <1>1, <2>1, <2>3, <2>4, <2>5, <2>6, FlushStep
<1>. QED  BY <1>4, <1>5

-----------------------------------------------------------------------------
(* Every step *)

LEMMA InitInv == SvlogdInit => SvlogdInv
<1>. SUFFICES ASSUME SvlogdInit PROVE SvlogdInv
  OBVIOUS
<1>. USE DEF SvlogdInit
<1>0. /\ <<>> \in Seq(Text) /\ <<>> \in Seq(Byte) /\ <<>> \in Seq(BOOLEAN) /\ Len(<<>>) = 0
      /\ MaxBytes \in Nat /\ nmax \in Nat /\ 0 \in 0..(Wide - 1)
  <2>1. \A S : <<>> \in Seq(S) /\ Len(<<>>) = 0
    OBVIOUS
  <2>2. 0 \in 0..(Wide - 1)
    BY DEF Wide
  <2>. QED  BY <2>1, <2>2, Numbers, Zenon
<1>1. TypeInv
  <2>1. /\ IoRec(io) /\ io.pc \in Pcs /\ io.ret = "get" /\ io.data = 0
        /\ io.line = <<>> /\ io.b = <<>> /\ io.out = <<>>
    BY DEF Fresh, IoRec, Pcs
  <2>2. LdRec(ld) /\ ld.sizemax = 0 /\ ld.size = 0 /\ ld.found = 0
    BY DEF NoDir, LdRec
  <2>3. BoundRec(bound) /\ bound.crashes = 0
    BY DEF BoundRec
  <2>. QED  BY <1>0, <2>1, <2>2, <2>3, SMTT(40) DEF TypeInv
<1>2. BufInv
  BY SMTT(40) DEF BufInv, Fresh, Writing
<1>3. SizeInv /\ LineInv
  BY DEF SizeInv, LineInv, Fresh, NoDir
<1>4. Current(disk) = <<>> /\ disk.t = 1 /\ disk.old = {} /\ disk \in DiskType
  BY SMTT(40) DEF Current, DiskType
<1>5. OldOK({}, 1, <<>>)
  BY FS_EmptySet DEF OldOK
<1>6. LogInv
  <2>1. Reads(<<>>, 1, <<>>) /\ Pos(disk) = 1
    BY <1>0, <1>4 DEF Reads, Pos
  <2>2. Sound(disk, <<>>)
    BY <1>0, <1>4, <1>5, <2>1, SMTT(40) DEF Sound
  <2>3. io.out = <<>> /\ io.b = <<>> /\ emitted = <<>>
    BY DEF Fresh
  <2>4. Log(disk, <<>>, <<>>, <<>>)
    BY <1>0, <2>1, <2>2, SMTT(40) DEF Log
  <2>. QED  BY <2>3, <2>4, Zenon DEF LogInv
<1>7. OldLimit
  <2>1. Logs(disk) = {} /\ Cardinality({}) = 0 /\ bound.crashes = 0
    BY FS_EmptySet DEF Logs
  <2>2. Cardinality(Logs(disk)) = 0
    BY <2>1, Zenon
  <2>. HIDE DEF SvlogdInit
  <2>. QED  BY <1>0, <2>1, <2>2 DEF OldLimit
<1>8. KilledInv
  BY <1>4 DEF KilledInv
<1>. QED  BY <1>1, <1>2, <1>3, <1>6, <1>7, <1>8 DEF SvlogdInv

LEMMA NextKeeps == SvlogdInv /\ SvlogdNext => Keeps
<1>. SUFFICES ASSUME SvlogdInv, SvlogdNext PROVE Keeps
  OBVIOUS
<1>1. CASE AwaitProcessor \/ sig_child_handler
  <2>1. PICK c \in child : Collect(c) /\ io.pc \in {"alarm", "full", "written", "exit", "tmax", "pause"}
    BY <1>1 DEF AwaitProcessor, Awaits, sig_child_handler
  <2>. QED  BY <2>1, CollectStep
<1>2. CASE Rotating("alarm", "flags")
  BY <1>2, RotatingStep
<1>3. CASE Rotating("full", "pwrite")
  BY <1>3, RotatingStep
<1>4. CASE Rotating("written", IF io.out = <<>> THEN io.ret ELSE "pwrite")
  <2>. DEFINE p == IF io.out = <<>> THEN io.ret ELSE "pwrite"
  <2>1. Rotating("written", p)
    BY <1>4
  <2>2. p = IF io.out = <<>> THEN io.ret ELSE "pwrite"
    OBVIOUS
  <2>. HIDE DEF p
  <2>. QED  BY <2>1, <2>2, RotatingStep
<1>5. CASE Rotating("tmax", "pause")
  BY <1>5, RotatingStep
<1>6. CASE buffer_pwrite \/ NoSpace \/ logdirs_reopen
  BY <1>6, PwriteStep, NoSpaceStep, ReopenStep
<1>7. CASE Pread \/ PreadFlags \/ PreadYoung \/ Eof \/ Leave \/ ReadNothing
  BY <1>7, PreadStep
<1>8. CASE GetLine \/ Line \/ Put \/ GetLong \/ Newline
  BY <1>8, GetLineStep, LineStep, PutsStep, GetLongStep, NewlineStep
<1>9. CASE Exit \/ Start \/ Crash \/ DiskFull \/ DiskFreed
  BY <1>9, EdgeStep
<1>10. CASE Read \/ ReadOnTerm \/ ReadEnd
  BY <1>10, ReadStep
<1>11. CASE Signals
  BY <1>11, SignalStep
<1>12. CASE ProcessorOpens \/ ProcessorEnds \/ ProcessorKilled
  BY <1>12, ProcessorStep
<1>. QED
  BY <1>1, <1>2, <1>3, <1>4, <1>5, <1>6, <1>7, <1>8, <1>9, <1>10, <1>11, <1>12
  DEF SvlogdNext, SvlogdStep, Stdin

LEMMA StutterKeeps == SvlogdInv /\ UNCHANGED lvars => SvlogdInv'
BY DEF SvlogdInv, lvars, TypeInv, BufInv, SizeInv, LineInv, LogInv, KilledInv, OldLimit, Logs

\* The inductive invariant holds: what svlogd reads, buffers, writes, rotates, processes
\* and opens again stays one log, whatever signals, crashes and full disks do, and only a
\* file whose processor was killed misses bytes.
THEOREM SvlogdInvariant == SvlogdSpec => []SvlogdInv
<1>1. SvlogdInv /\ [SvlogdNext]_lvars => SvlogdInv'
  BY NextKeeps, StutterKeeps DEF Keeps
<1>. QED  BY InitInv, <1>1, PTL DEF SvlogdSpec

\* The limits of the configuration hold in any order of rotations, processors, crashes and
\* full disks, for every input and configuration: buffer_pwrite keeps current within sizemax,
\* and rmoldest deletes the surplus and no more.
THEOREM LimitsKept == SvlogdSpec => WithinLimits
<1>1. SvlogdInv /\ [SvlogdNext]_lvars => [WithinSize /\ OldLimit' /\ DeletesSurplus]_lvars
  BY NextKeeps DEF Keeps, SvlogdInv
<1>. QED  BY SvlogdInvariant, <1>1, PTL DEF SvlogdSpec, WithinLimits

LEMMA InvComplete == SvlogdInv => LogComplete
<1>. SUFFICES ASSUME SvlogdInv PROVE LogComplete
  OBVIOUS
<1>. DEFINE cur == Current(disk)
            e == emitted
            t == disk.t
<1>0. /\ disk \in DiskType /\ OldOK(disk.old, t, e) /\ Reads(e, t, cur)
      /\ io.out \in Seq(Byte) /\ io.b \in Seq(Byte)
      /\ Reads(e, Pos(disk), io.out) /\ Reads(e, Pos(disk) + Len(io.out), io.b)
      /\ Pos(disk) + Len(io.out) + Len(io.b) = Len(e) + 1
  BY DEF SvlogdInv, LogInv, Log, Sound
<1>1. cur \in Seq(Byte) /\ Len(cur) \in Nat /\ t \in Nat \ {0} /\ Pos(disk) = t + Len(cur)
  BY <1>0, PosNat, CurrentType DEF Pos
<1>2. \A f \in Logs(disk) : f \in disk.old /\ f \in OldFile /\ f.t \in Nat /\ f.t > 0
  BY <1>0, EndNat DEF Logs, OldOK
<1>3. \A f \in Logs(disk) : End(f) <= t /\ Reads(e, f.t, f.c)
  BY <1>0, <1>2 DEF OldOK
<1>4. \A f, g \in Logs(disk) : IF f.t = g.t THEN f.c = g.c ELSE End(f) <= g.t \/ End(g) <= f.t
  BY <1>0, <1>2 DEF OldOK
<1>5. \A f \in Logs(disk) : \A p \in f.t..(t - 1) : \E g \in Logs(disk) : g.t <= p /\ p < End(g)
  <2>. TAKE f \in Logs(disk)
  <2>. TAKE p \in f.t..(t - 1)
  <2>1. p \in 1..t /\ f.t <= p /\ p < t
    BY <1>1, <1>2
  <2>2. PICK g \in disk.old : g.k # "t" /\ g.t <= p /\ p < End(g)
    BY <1>0, <1>2, <2>1 DEF OldOK
  <2>. QED  BY <2>2 DEF Logs
<1>14. \A f \in Logs(disk) : f.n = Len(f.c) \/ f.t \in bound.killed
  BY <1>2 DEF SvlogdInv, KilledInv
<1>. HIDE DEF cur, e, t
<1>. DEFINE c == cur \o io.out
<1>6. \A a, d \in Seq(Byte) : a \o d \in Seq(Byte) /\ Len(a \o d) = Len(a) + Len(d) /\ Len(a) \in Nat
  OBVIOUS
<1>7. c \in Seq(Byte) /\ Len(c) = Len(cur) + Len(io.out) /\ Len(io.out) \in Nat /\ Len(io.b) \in Nat
  BY <1>0, <1>1, <1>6, Zenon
<1>8. Reads(e, t, c)
  <2>1. Reads(e, t, cur) /\ Reads(e, t + Len(cur), io.out)
    BY <1>0, <1>1
  <2>. QED  BY <1>0, <1>1, <2>1, ReadsJoin, Zenon
<1>. HIDE DEF c
<1>. DEFINE lc == Len(cur)
            lo == Len(io.out)
            lb == Len(io.b)
            l == Len(c)
            p == Pos(disk)
            n == Len(e)
<1>. HIDE DEF lc, lo, lb, l, p, n
<1>9a. /\ l = lc + lo /\ p = t + lc /\ p + lo + lb = n + 1
      /\ lc \in Nat /\ lo \in Nat /\ lb \in Nat /\ t \in Nat
  BY <1>0, <1>1, <1>7 DEF lc, lo, lb, l, p, n
<1>9b. t + l = p + lo /\ t + (l + lb) = n + 1
  BY <1>9a
<1>9. t + Len(c) = Pos(disk) + Len(io.out)
  BY <1>9b DEF l, p, lo
<1>10. Reads(e, t, c \o io.b)
  <2>1. Reads(e, t + Len(c), io.b)
    BY <1>0, <1>9
  <2>. QED  BY <1>0, <1>1, <1>7, <1>8, <2>1, ReadsJoin, Zenon
<1>11. Len(c \o io.b) = Len(c) + Len(io.b)
  BY <1>0, <1>6, <1>7, Zenon
<1>12. t + Len(c \o io.b) = Len(e) + 1
  BY <1>9b, <1>11 DEF l, lb, n
<1>13. c \o io.b = Current(disk) \o io.out \o io.b
  BY Zenon DEF c, cur
<1>. QED  BY <1>3, <1>4, <1>5, <1>10, <1>12, <1>13, <1>14, Zenon DEF LogComplete, e, t

\* svlogd neither loses nor repeats nor reorders a byte by rotation, processing, reopening or
\* a restart, for every input, configuration and number of faults, but for the end of a file
\* whose processor a signal ended (rotate, processorstop, logdir_open, buffer_pwrite).
THEOREM LogIsComplete == SvlogdSpec => []LogComplete
BY SvlogdInvariant, InvComplete, PTL

LEMMA InvIntact == SvlogdInv => LineIntact
<1>. SUFFICES ASSUME SvlogdInv, io.pc = "full", ld.sizemax > linemax, ld.found < ld.sizemax - linemax
              PROVE  LET end == IF Last(emitted) = NL THEN Len(emitted) - 1 ELSE Len(emitted)
                     IN  end > linemax /\ \A i \in (end - linemax)..end : emitted[i] # NL
  BY DEF LineIntact
<1>. DEFINE e == emitted
            c == disk.cur
            o == io.out
            t == disk.t
            m == ld.sizemax
            n == Len(e)
            lc == Len(c)
            lo == Len(o)
            end == IF e[n] = NL THEN n - 1 ELSE n
<1>0. /\ disk \in DiskType /\ Reads(e, t, Current(disk)) /\ o \in Seq(Byte) /\ e \in Seq(Byte)
      /\ Reads(e, Pos(disk), o) /\ Pos(disk) + Len(o) + Len(io.b) = Len(e) + 1
      /\ LdRec(ld) /\ m \in 0..(Wide - 1) /\ ld.found \in Nat
  BY DEF SvlogdInv, LogInv, Log, Sound, TypeInv
<1>1. c # NoFile /\ ld.size = lc /\ ld.size >= m /\ ld.open
  BY DEF SvlogdInv, SizeInv
<1>2. Current(disk) = c /\ c \in Seq(Byte) /\ lc \in Nat /\ t \in Nat \ {0} /\ Pos(disk) = t + lc
  BY <1>0, <1>1, PosNat, CurrentType DEF Pos
<1>3. io.b = <<>> /\ o # <<>> /\ \A j \in 1..(lo - 1) : o[j] # NL
  BY DEF SvlogdInv, BufInv, Writing
<1>4. lo \in Nat \ {0} /\ Len(io.b) = 0 /\ n \in Nat
  BY <1>0, <1>3
<1>5. m \in Nat /\ linemax \in Nat
  BY <1>0, WideNat, Numbers
<1>6. \A j \in (ld.found + 1)..lc : c[j] = NL => j < m - linemax
  BY <1>1 DEF SvlogdInv, LineInv
<1>7. /\ \A j \in 1..lc : c[j] = e[t + j - 1]
      /\ \A j \in 1..lo : o[j] = e[t + lc + j - 1]
  BY <1>0, <1>2 DEF Reads
<1>8. t + lc + lo = n + 1
  BY <1>0, <1>2, <1>4, SMTT(40)
<1>9. m > linemax /\ ld.found < m - linemax /\ lc >= m /\ ld.found \in Nat
  BY <1>0, <1>1
<1>. HIDE DEF e, c, o, t, m, n, lc, lo
<1>10. end \in Int /\ end >= t + lc - 1 /\ end > linemax
  BY <1>2, <1>4, <1>5, <1>8, <1>9
<1>11. ASSUME NEW i \in (end - linemax)..end PROVE e[i] # NL
  <2>1. i \in Int /\ i >= t + (m - linemax) - 1 /\ i <= n
    BY <1>2, <1>4, <1>5, <1>8, <1>9, <1>10
  <2>2. CASE i < t + lc
    <3>. DEFINE j == i - t + 1
    <3>1. j \in 1..lc /\ j \in (ld.found + 1)..lc /\ j >= m - linemax /\ t + j - 1 = i
      BY <1>2, <1>5, <1>9, <2>1, <2>2
    <3>. HIDE DEF j
    <3>2. c[j] # NL /\ c[j] = e[t + j - 1]
      BY <1>5, <1>6, <1>7, <1>9, <3>1
    <3>. QED  BY <3>1, <3>2
  <2>3. CASE i >= t + lc /\ i < n
    <3>. DEFINE j == i - t - lc + 1
    <3>1. j \in 1..lo /\ j \in 1..(lo - 1) /\ t + lc + j - 1 = i
      BY <1>2, <1>4, <1>8, <2>1, <2>3
    <3>. HIDE DEF j
    <3>2. o[j] # NL /\ o[j] = e[t + lc + j - 1]
      BY <1>3, <1>7, <3>1
    <3>. QED  BY <3>1, <3>2
  <2>4. CASE i = n
    BY <1>4, <2>4
  <2>. QED  BY <1>2, <1>4, <2>1, <2>2, <2>3, <2>4
<1>12. end = IF Last(emitted) = NL THEN Len(emitted) - 1 ELSE Len(emitted)
  BY DEF Last, e, n
<1>. HIDE DEF end
<1>. QED  BY <1>10, <1>11, <1>12 DEF e

\* Rotation cuts no line of at most linemax bytes, for every input and configuration with
\* sizemax larger than linemax (svlogd.c:363).
THEOREM LinesIntact == SvlogdSpec => []LineIntact
BY SvlogdInvariant, InvIntact, PTL
=============================================================================

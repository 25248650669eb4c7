------------------------------- MODULE Svlogd -------------------------------
(***************************************************************************)
(* svlogd(8), src/runit/src/svlogd.c, with one log directory: lines from   *)
(* standard input to current, rotation, the processor, restarts.           *)
(*                                                                         *)
(* A byte is its position in the input; stream says which are newlines. In *)
(* the log NL is a newline and Warn the warning that UDP did not work. A   *)
(* time stamp is modelled by the position in the log at which the file     *)
(* begins: like the time it grows with every renaming.                     *)
(* Signals are blocked except in iopause() (and HUP while waiting for the  *)
(* processor), so the steps between are atomic for everybody but a crash:  *)
(* an action that changes the directory in several system calls gives the  *)
(* sequence of states of the directory, and a crash keeps one of them.     *)
(***************************************************************************)
EXTENDS Naturals, Sequences, FiniteSets, FiniteSetsExt

CONSTANTS
  linemax, buflen,
  nmax, nmin,
  Configs,      \* what log/config may say: [sizemax, processor, tmax, inst, udp]
  MaxBytes,     \* bound: bytes of input
  MaxFaults     \* bound: ALRM and HUP signals, deaths of svlogd by SIGKILL, times
                \* the file system gets full and processors that fail or are killed,
                \* together

NoFile == <<MaxBytes + 2>>  \* current is not there
Last(s) == s[Len(s)]
NL == 0
Warn == MaxBytes + 1
Wide == 65536   \* an unsigned long, wide enough for the sizes here

ASSUME SvlogdAssumption ==
  /\ linemax \in Nat /\ linemax < Wide /\ buflen \in Nat /\ nmax \in Nat /\ nmin \in Nat
  /\ MaxBytes \in Nat /\ MaxFaults \in Nat
  /\ Configs \subseteq [sizemax : 0..(Wide - 1), processor : BOOLEAN, tmax : BOOLEAN,
                        inst : BOOLEAN, udp : {"no", "u", "U"}]

VARIABLES
  disk,     \* [cur, x, old, t]: current (bytes), its execute bit, the files @*,
            \* and the position in the log of the first byte of current. A file @*
            \* is [t, k, c, n]: of the piece c of the log its first n bytes are there
  ld,       \* struct logdir; history: found, the size current had when it was opened
  io,       \* the buffers and flags of the process, and pc
  stream,   \* stream[i] = TRUE iff byte i of the input was a newline
  child,    \* processors not collected: [t (their file), st, mine (not orphaned)]
  emitted,  \* history: bytes put into the log, but for those a crash lost with the buffers
  bound     \* how often the bounded things happened; history: killed, the files
            \* whose processor was ended by a signal

lvars == <<disk, ld, io, stream, child, emitted, bound>>

Faults == bound.signals + bound.crashes + bound.full + bound.fails

-----------------------------------------------------------------------------
(* The log directory *)

\* Old files are compared by name: time stamp first, then s < t < u.
Rank(f) == 3 * f.t + CASE f.k = "s" -> 0 [] f.k = "t" -> 1 [] f.k = "u" -> 2
oldest(S) == CHOOSE f \in S : \A g \in S : Rank(f) <= Rank(g)
File(d, t, k) == CHOOSE f \in d.old : f.t = t /\ f.k = k
Has(d, t, k) == \E f \in d.old : f.t = t /\ f.k = k
Drop(d, t, k) == [d EXCEPT !.old = {f \in @ : ~(f.t = t /\ f.k = k)}]

Current(d) == IF d.cur = NoFile THEN <<>> ELSE d.cur

\* The old files without the leftovers of processors.
Logs(d) == {f \in d.old : f.k # "t"}

\* Mutation: one file below the limit goes.
rmoldest_Early(d) ==
  LET S == Logs(d)
  IN  [d EXCEPT !.old = IF nmax > 0 /\ Cardinality(S) >= nmax THEN S \ {oldest(S)} ELSE S]

\* rmoldest(): leftovers of processors go, and one file above the limit.
rmoldest(d) ==
  LET S == Logs(d)
  IN  [d EXCEPT !.old = IF nmax > 0 /\ Cardinality(S) > nmax THEN S \ {oldest(S)} ELSE S]

\* The renaming of current and its successor, in rotate() and logdir_open().
Renamed(d, k) ==
  LET d1 == [d EXCEPT !.cur = NoFile, !.t = @ + Len(d.cur),
                      !.old = @ \cup {[t |-> d.t, k |-> k, c |-> d.cur, n |-> Len(d.cur)]}]
      d2 == [d1 EXCEPT !.cur = <<>>, !.x = FALSE]
  IN  <<d1, d2>>

-----------------------------------------------------------------------------
(* Steps and crashes *)

\* The process as main() finds it.
Fresh == [pc |-> "reopen", ret |-> "get", data |-> 0, line |-> <<>>, long |-> FALSE, newline |-> FALSE,
          b |-> <<>>, out |-> <<>>, cwd |-> "init", exitasap |-> FALSE, rotateasap |-> FALSE,
          reopenasap |-> FALSE, linecomplete |-> TRUE]

\* A step that takes the directory through the states trace and sets the rest.
Through(trace) ==
  /\ disk' = Last(trace)
  /\ UNCHANGED <<stream, emitted, bound>>

\* svlogd is killed in the middle of it: unwritten bytes are lost. Processors go on.
CrashIn(trace) ==
  /\ Faults < MaxFaults
  /\ bound' = [bound EXCEPT !.crashes = @ + 1]
  /\ disk' \in {trace[i] : i \in DOMAIN trace}
  /\ emitted' = SubSeq(emitted, 1, Len(emitted) - Len(io.out) - Len(io.b))
  /\ io' = [Fresh EXCEPT !.pc = "down"]
  /\ child' = {[c EXCEPT !.mine = FALSE] : c \in {d \in child : d.st \in {"fork", "run"}}}
  /\ UNCHANGED <<ld, stream>>

-----------------------------------------------------------------------------
(* The processor *)

\* processorstart(): fork() is repeated until it succeeds. The name fnsave is the
\* one of the last rotation, and changes only while no processor is known.
processorstart(c, t) == IF ld.processor THEN c \cup {[t |-> t, st |-> "fork", mine |-> TRUE]} ELSE c

Become(c, st) == (child \ {c}) \cup IF st = "run" \/ c.mine THEN {[c EXCEPT !.st = st]} ELSE {}

\* @stamp.t with the first n bytes of what @stamp.u holds.
Written(d, t, n) ==
  [d EXCEPT !.old = Drop(d, t, "t").old \cup {[t |-> t, k |-> "t", c |-> File(d, t, "u").c, n |-> n]}]

\* The child opens @stamp.u and creates @stamp.t, or exits 111. Nobody looks into
\* @stamp.t before the processor has ended: it has the bytes of a good end at once.
ProcessorOpens ==
  \E c \in child :
    /\ c.st = "fork"
    /\ IF Has(disk, c.t, "u")
       THEN /\ disk' = Written(disk, c.t, Len(File(disk, c.t, "u").c))
            /\ child' = Become(c, "run")
       ELSE disk' = disk /\ child' = Become(c, "fail")
    /\ UNCHANGED <<ld, io, stream, emitted, bound>>

ProcessorEnds ==
  \E c \in child :
    /\ c.st = "run"
    /\ \/ child' = Become(c, "ok") /\ UNCHANGED bound
       \/ /\ Faults < MaxFaults /\ bound' = [bound EXCEPT !.fails = @ + 1]
          /\ child' = Become(c, "fail")
    /\ UNCHANGED <<disk, ld, io, stream, emitted>>

\* A signal ends it, with a part of its output written, if .t is there by then.
ProcessorKilled ==
  \E c \in child :
    /\ c.st \in {"fork", "run"} /\ Faults < MaxFaults
    /\ bound' = [bound EXCEPT !.fails = @ + 1, !.killed = @ \cup {c.t}]
    /\ child' = Become(c, "killed")
    /\ IF c.st = "run" /\ Has(disk, c.t, "t")
       THEN \E n \in 0..Len(File(disk, c.t, "t").c) : disk' = Written(disk, c.t, n)
       ELSE disk' = disk
    /\ UNCHANGED <<ld, io, stream, emitted>>

\* processorstop() behind the wait: a failed processor is started again, the
\* output of a good one takes the place of its input. The exit code of one that
\* was killed is 0 as well. Gives the states of the directory.
Processed(t) ==
  LET out == [File(disk, t, "t") EXCEPT !.k = "s"]
      d1  == [disk EXCEPT !.old = Drop(disk, t, "t").old \cup {out}]
  IN  <<disk, d1, Drop(d1, t, "u")>>
processorstop(c) ==
  IF ~ld.open THEN <<disk>>
  ELSE IF c.st = "fail" THEN <<disk, Drop(disk, c.t, "t")>>
  ELSE Processed(c.t)

\* The end of a child is seen: ppid is cleared, or set again by a restart.
\* rename() is repeated until it succeeds: svlogd is stuck if .t is not there.
Ended(c) == c \in child /\ c.mine /\ c.st \in {"ok", "fail", "killed"}
Stuck(c) == c.t = ld.ppid /\ c.st # "fail" /\ ld.open /\ ~Has(disk, c.t, "t")
Collect(c) ==
  LET known == c.t = ld.ppid
      restart == known /\ c.st = "fail" /\ ld.open /\ ld.processor
      trace == IF known /\ ~Stuck(c) THEN processorstop(c) ELSE <<disk>>
  IN  /\ Ended(c)
      /\ \/ /\ Stuck(c)
            /\ io' = [io EXCEPT !.pc = "stuck"]
            /\ ld' = [ld EXCEPT !.ppid = 0]
            /\ child' = child \ {c}
            /\ UNCHANGED <<disk, stream, emitted, bound>>
         \/ /\ ~Stuck(c)
            /\ child' = IF restart THEN processorstart(child \ {c}, c.t) ELSE child \ {c}
            /\ ld' = [ld EXCEPT !.ppid = IF known /\ ~restart THEN 0 ELSE @]
            /\ io' = [io EXCEPT !.cwd = IF known /\ ld.open THEN "init" ELSE @]
            /\ Through(trace)
         \/ CrashIn(trace)

\* rotate() and the end of main() wait for the processor.
Awaits ==
  /\ ld.ppid # 0
  /\ \/ io.pc \in {"alarm", "full", "written", "exit"}
     \/ io.pc = "tmax" /\ ld.tmax
AwaitProcessor == Awaits /\ \E c \in child : c.t = ld.ppid /\ Collect(c)

\* sig_child_handler(): whichever child ended.
sig_child_handler == io.pc = "pause" /\ \E c \in child : Collect(c)

-----------------------------------------------------------------------------
(* rotate() and the writing of a buffer *)

rotate ==
  LET full == [disk EXCEPT !.x = TRUE]
      new  == Renamed(full, IF ld.processor THEN "u" ELSE "s")
  IN  IF ld.size = 0 THEN <<disk>> ELSE <<disk, full>> \o new \o <<rmoldest(Last(new))>>

\* The call of rotate() at pc, behind which the program goes on at next.
Rotating(pc, next) ==
  /\ io.pc = pc /\ ld.ppid = 0
  /\ \/ /\ ld' = [ld EXCEPT !.size = 0, !.found = 0, !.ppid = IF ld.size > 0 /\ ld.processor THEN disk.t ELSE 0]
        /\ child' = IF ld.size > 0 THEN processorstart(child, disk.t) ELSE child
        /\ io' = [io EXCEPT !.pc = next, !.cwd = "init",
                            !.rotateasap = IF pc = "alarm" THEN FALSE ELSE @]
        /\ Through(rotate)
     \/ CrashIn(rotate)

\* buffer_flush(): its bytes go through buffer_pwrite(), then pc is next.
Flush(i, next) ==
  IF i.b = <<>> THEN [i EXCEPT !.pc = next]
  ELSE [i EXCEPT !.pc = "pwrite", !.ret = next, !.out = i.b, !.b = <<>>]

\* buffer_pwrite(): rotation before the write, as much as fits, the write.
room == IF ld.sizemax = 0 THEN Len(io.out) ELSE Min({Len(io.out), ld.sizemax - ld.size})
\* Mutation: a short write is taken for a complete one.
buffer_pwrite_Short ==
  /\ io.pc = "pwrite"
  /\ IF ld.sizemax > 0 /\ ld.size >= ld.sizemax
     THEN io' = [io EXCEPT !.pc = "full"] /\ UNCHANGED <<disk, ld>>
     ELSE /\ ~bound.isfull
          /\ disk' = [disk EXCEPT !.cur = @ \o SubSeq(io.out, 1, room)]
          /\ ld' = [ld EXCEPT !.size = @ + room]
          /\ io' = [io EXCEPT !.out = <<>>, !.pc = io.ret]
  /\ UNCHANGED <<stream, child, emitted, bound>>
\* Mutation: current is rotated when it is full only.
buffer_pwrite_Full ==
  /\ io.pc = "pwrite"
  /\ IF ld.sizemax > 0 /\ ld.size >= ld.sizemax
     THEN io' = [io EXCEPT !.pc = "full"] /\ UNCHANGED <<disk, ld>>
     ELSE /\ ~bound.isfull
          /\ disk' = [disk EXCEPT !.cur = @ \o SubSeq(io.out, 1, room)]
          /\ ld' = [ld EXCEPT !.size = @ + room]
          /\ LET i == [io EXCEPT !.out = SubSeq(@, room + 1, Len(@))]
             IN  io' = [i EXCEPT !.pc = IF i.out = <<>> THEN i.ret ELSE "pwrite"]
  /\ UNCHANGED <<stream, child, emitted, bound>>
buffer_pwrite ==
  /\ io.pc = "pwrite"
  /\ IF ld.sizemax > 0 /\ ld.size >= ld.sizemax
     THEN io' = [io EXCEPT !.pc = "full"] /\ UNCHANGED <<disk, ld>>
     ELSE /\ ~bound.isfull
          /\ disk' = [disk EXCEPT !.cur = @ \o SubSeq(io.out, 1, room)]
          /\ ld' = [ld EXCEPT !.size = @ + room]
          /\ LET i == [io EXCEPT !.out = SubSeq(@, room + 1, Len(@))]
             IN  io' = IF /\ ld.sizemax > 0 /\ io.out[room] = NL
                          /\ ld'.size >= (ld.sizemax - linemax + Wide) % Wide
                       THEN [i EXCEPT !.pc = "written"]
                       ELSE [i EXCEPT !.pc = IF i.out = <<>> THEN i.ret ELSE "pwrite"]
  /\ UNCHANGED <<stream, child, emitted, bound>>

\* write() fails with ENOSPC: an old file is given up if more than nmin are there
\* (t files count). Otherwise svlogd stays in the log directory and tries again.
NoSpace ==
  /\ io.pc = "pwrite" /\ bound.isfull /\ ~(ld.sizemax > 0 /\ ld.size >= ld.sizemax)
  /\ LET deletes == nmin < nmax /\ Cardinality(disk.old) > nmin
     IN  /\ disk' = IF deletes THEN [disk EXCEPT !.old = @ \ {oldest(@)}] ELSE disk
         /\ io' = [io EXCEPT !.cwd = IF nmin < nmax /\ ~deletes THEN "log" ELSE "init"]
         /\ bound' = [bound EXCEPT !.isfull = ~deletes]
  /\ UNCHANGED <<ld, stream, child, emitted>>

-----------------------------------------------------------------------------
(* logdir_close(), logdir_open(), logdirs_reopen() *)

Closed(d) == [d EXCEPT !.x = TRUE]

Opened(d) ==
  IF d.cur # NoFile /\ d.cur # <<>> /\ ~d.x
  THEN LET new == Renamed(d, "u") IN <<Head(new), rmoldest(Head(new)), rmoldest(new[2])>>
  ELSE <<[d EXCEPT !.cur = Current(d), !.x = FALSE]>>

\* The name of the directory is relative: opening fails if the cwd is elsewhere.
\* Without a directory left svlogd exits.
logdirs_reopen ==
  /\ io.pc = "reopen"
  /\ LET d == IF ld.open THEN Closed(disk) ELSE disk
         trace == IF ld.open THEN <<disk, d>> \o Opened(d) ELSE <<disk>> \o Opened(d)
     IN  IF io.cwd = "log"
         THEN /\ io' = [io EXCEPT !.pc = "dead"]
              /\ ld' = [ld EXCEPT !.open = FALSE, !.processor = FALSE]
              /\ Through(<<d>>) /\ UNCHANGED child
         ELSE \/ \E c \in Configs :
                   /\ ld' = [ld EXCEPT !.open = TRUE, !.ppid = 0, !.match = "+",
                                       !.size = Len(Last(trace).cur), !.found = Len(Last(trace).cur),
                                       !.sizemax = c.sizemax, !.processor = c.processor,
                                       !.tmax = c.tmax, !.inst = c.inst, !.udp = c.udp]
                   /\ io' = [io EXCEPT !.pc = IF io.reopenasap THEN "tmax" ELSE "get", !.reopenasap = FALSE]
                   /\ Through(trace) /\ UNCHANGED child
              \/ CrashIn(trace)

-----------------------------------------------------------------------------
(* buffer_pread() *)

quiet == <<disk, ld, stream, child, emitted, bound>>

Pread ==
  /\ io.pc = "pread"
  /\ io' = Flush(io, IF io.rotateasap THEN "alarm" ELSE "flags")
  /\ UNCHANGED quiet

\* The flags behind the rotation: exit at the end of a line, then reopen.
PreadFlags ==
  /\ io.pc = "flags"
  /\ io' = CASE io.exitasap /\ io.linecomplete -> [io EXCEPT !.pc = "eof"]
             [] ~(io.exitasap /\ io.linecomplete) /\ io.reopenasap -> [io EXCEPT !.pc = "reopen"]
             [] OTHER -> [io EXCEPT !.pc = "tmax"]
  /\ UNCHANGED quiet

\* The age of current is not modelled: with tmax it may be reached or not.
PreadYoung ==
  /\ io.pc = "tmax"
  /\ io' = [io EXCEPT !.pc = "pause"]
  /\ UNCHANGED quiet

\* read() behind iopause(): bytes (one at most when exiting), nothing yet, or the
\* end of the input.
Read ==
  /\ io.pc = "pause"
  /\ \E n \in 1..(IF io.exitasap THEN 1 ELSE buflen) : \E s \in [1..n -> BOOLEAN] :
       /\ Len(stream) + n <= MaxBytes /\ ~bound.closed
       /\ stream' = stream \o s
       /\ io' = [io EXCEPT !.pc = "get", !.data = n, !.linecomplete = s[n]]
  /\ UNCHANGED <<disk, ld, child, emitted, bound>>
\* A signal that arrives in iopause() does not keep read() from finding bytes.
ReadOnTerm ==
  /\ io.pc = "pause" /\ ~io.exitasap
  /\ \E n \in 1..buflen : \E s \in [1..n -> BOOLEAN] :
       /\ Len(stream) + n <= MaxBytes /\ ~bound.closed
       /\ stream' = stream \o s
       /\ io' = [io EXCEPT !.pc = "get", !.data = n, !.linecomplete = s[n], !.exitasap = TRUE]
  /\ UNCHANGED <<disk, ld, child, emitted, bound>>
ReadNothing ==
  /\ io.pc = "pause" /\ ~bound.closed
  /\ io' = [io EXCEPT !.pc = "pread"]
  /\ UNCHANGED quiet
ReadEnd ==
  /\ io.pc = "pause"
  /\ io' = [io EXCEPT !.pc = "eof"]
  /\ bound' = [bound EXCEPT !.closed = TRUE]
  /\ UNCHANGED <<disk, ld, stream, child, emitted>>

sig_term_handler ==
  /\ io.pc = "pause" /\ ~io.exitasap
  /\ io' = [io EXCEPT !.exitasap = TRUE]
  /\ UNCHANGED quiet
sig_alarm_handler ==
  /\ io.pc = "pause" /\ ~io.rotateasap /\ Faults < MaxFaults
  /\ io' = [io EXCEPT !.rotateasap = TRUE]
  /\ bound' = [bound EXCEPT !.signals = @ + 1]
  /\ UNCHANGED <<disk, ld, stream, child, emitted>>
\* In iopause(), and in processorstop() while a processor runs.
sig_hangup_handler ==
  /\ \/ io.pc = "pause"
     \/ Awaits
  /\ ~io.reopenasap /\ Faults < MaxFaults
  /\ io' = [io EXCEPT !.reopenasap = TRUE]
  /\ bound' = [bound EXCEPT !.signals = @ + 1]
  /\ UNCHANGED <<disk, ld, stream, child, emitted>>

-----------------------------------------------------------------------------
(* main() *)

next == Len(stream) - io.data + 1    \* the byte buffer_GETC() returns

\* The bytes of a line, as long as the data buffer has some.
GetLine ==
  /\ io.pc = "get" /\ ~io.long
  /\ io' = CASE io.data = 0 -> [io EXCEPT !.pc = "pread"]
             [] io.data > 0 /\ stream[next] -> [io EXCEPT !.data = @ - 1, !.pc = "line", !.newline = TRUE]
             [] OTHER -> [io EXCEPT !.data = @ - 1, !.line = Append(@, next),
                           !.pc = IF Len(io.line) + 1 = linemax THEN "line" ELSE "get"]
  /\ UNCHANGED quiet
\* Mutation: the end of the input is not remembered.
Eof_Forgets ==
  /\ io.pc = "eof"
  /\ io' = [io EXCEPT !.pc = IF io.long THEN "newline" ELSE "line"]
  /\ UNCHANGED quiet

\* GETC found no more: exitasap, and on with the line as it is.
Eof ==
  /\ io.pc = "eof"
  /\ io' = [io EXCEPT !.exitasap = TRUE, !.pc = IF io.long THEN "newline" ELSE "line"]
  /\ UNCHANGED quiet

\* The line is there. When svlogd is to exit and the buffer is empty it is not
\* looked at; otherwise it is matched, sent, and put into the buffer.
Leave ==
  /\ io.pc = "line" /\ io.exitasap /\ io.data = 0
  /\ io' = [io EXCEPT !.pc = "exit"]
  /\ UNCHANGED quiet
logmatch ==
  IF ld.inst THEN {[ld EXCEPT !.match = m] : m \in {"+", "-"}} ELSE {ld}
Line ==
  /\ io.pc = "line" /\ ~(io.exitasap /\ io.data = 0)
  /\ \E l \in logmatch, sent \in BOOLEAN :
       /\ ld' = l
       /\ LET warning == <<Warn>> \o io.line \o <<NL>>
          IN  IF l.match = "+" /\ l.udp # "no" /\ ~sent
              THEN /\ io' = Flush([io EXCEPT !.b = @ \o warning], "put")
                   /\ emitted' = emitted \o warning
              ELSE io' = [io EXCEPT !.pc = "put"] /\ UNCHANGED emitted
  /\ UNCHANGED <<disk, stream, child, bound>>
Selected == ld.match = "+" /\ ld.udp # "U"
Put ==
  /\ io.pc = "put"
  /\ io' = [io EXCEPT !.b = IF Selected THEN @ \o io.line ELSE @,
                      !.long = ~io.newline, !.pc = IF io.newline THEN "newline" ELSE "get"]
  /\ emitted' = IF Selected THEN emitted \o io.line ELSE emitted
  /\ UNCHANGED <<disk, ld, stream, child, bound>>

\* The rest of a long line, byte by byte, and the newline; a full buffer is
\* flushed before it takes one more.
GetLong ==
  /\ io.pc = "get" /\ io.long
  /\ IF io.data = 0 THEN io' = [io EXCEPT !.pc = "pread"] /\ UNCHANGED emitted
     ELSE IF stream[next]
     THEN io' = [io EXCEPT !.data = @ - 1, !.pc = "newline"] /\ UNCHANGED emitted
     ELSE IF Selected /\ Len(io.b) = buflen THEN io' = Flush(io, "get") /\ UNCHANGED emitted
     ELSE /\ io' = [io EXCEPT !.data = @ - 1, !.b = IF Selected THEN Append(@, next) ELSE @]
          /\ emitted' = IF Selected THEN Append(emitted, next) ELSE emitted
  /\ UNCHANGED <<disk, ld, stream, child, bound>>
Newline ==
  /\ io.pc = "newline"
  /\ IF Selected /\ Len(io.b) = buflen THEN io' = Flush(io, "newline") /\ UNCHANGED emitted
     ELSE /\ io' = Flush([io EXCEPT !.b = IF Selected THEN Append(@, NL) ELSE @,
                                    !.line = <<>>, !.long = FALSE, !.newline = FALSE], "get")
          /\ emitted' = IF Selected THEN Append(emitted, NL) ELSE emitted
  /\ UNCHANGED <<disk, ld, stream, child, bound>>

\* The end: current gets its execute bit.
Exit ==
  /\ io.pc = "exit" /\ ld.ppid = 0
  /\ io' = [io EXCEPT !.pc = "gone"]
  /\ disk' = Closed(disk) /\ ld' = [ld EXCEPT !.open = FALSE]
  /\ UNCHANGED <<stream, child, emitted, bound>>

-----------------------------------------------------------------------------
(* The process and its surroundings *)

NoDir == [open |-> FALSE, size |-> 0, found |-> 0, ppid |-> 0, match |-> "+", sizemax |-> 0,
          processor |-> FALSE, tmax |-> FALSE, inst |-> FALSE, udp |-> "no"]

SvlogdInit ==
  /\ disk = [cur |-> NoFile, x |-> FALSE, old |-> {}, t |-> 1]
  /\ ld = NoDir /\ io = Fresh
  /\ stream = <<>> /\ child = {}
  /\ emitted = <<>>
  /\ bound = [signals |-> 0, crashes |-> 0, full |-> 0, isfull |-> FALSE, fails |-> 0, closed |-> FALSE,
              killed |-> {}]

\* runsv starts the log service again.
Start ==
  /\ io.pc = "down"
  /\ io' = Fresh /\ ld' = NoDir
  /\ UNCHANGED <<disk, stream, child, emitted, bound>>

Crash == io.pc \notin {"down", "dead", "gone"} /\ CrashIn(<<disk>>)

DiskFull ==
  /\ ~bound.isfull /\ Faults < MaxFaults
  /\ bound' = [bound EXCEPT !.full = @ + 1, !.isfull = TRUE]
  /\ UNCHANGED <<disk, ld, io, stream, child, emitted>>
DiskFreed ==
  /\ bound.isfull
  /\ bound' = [bound EXCEPT !.isfull = FALSE]
  /\ UNCHANGED <<disk, ld, io, stream, child, emitted>>

SvlogdStep ==
  \/ AwaitProcessor \/ sig_child_handler
  \/ Rotating("alarm", "flags") \/ Rotating("full", "pwrite")
  \/ Rotating("written", IF io.out = <<>> THEN io.ret ELSE "pwrite")
  \/ ld.tmax /\ Rotating("tmax", "pause")
  \/ buffer_pwrite \/ NoSpace \/ logdirs_reopen \/ Pread \/ PreadFlags \/ PreadYoung
  \/ GetLine \/ Eof \/ Leave \/ Line \/ Put \/ GetLong \/ Newline \/ Exit \/ Start
Stdin == Read \/ ReadOnTerm \/ ReadNothing \/ ReadEnd
Signals == sig_term_handler \/ sig_alarm_handler \/ sig_hangup_handler
SvlogdNext ==
  \/ SvlogdStep \/ Stdin \/ Signals
  \/ ProcessorOpens \/ ProcessorEnds \/ ProcessorKilled \/ Crash \/ DiskFull \/ DiskFreed

SvlogdSpec == SvlogdInit /\ [][SvlogdNext]_lvars

\* The kernel runs svlogd, its processors end, and read() returns at the end of
\* the input.
SvlogdFair ==
  /\ WF_lvars(SvlogdStep) /\ WF_lvars(ReadEnd /\ bound.closed)
  /\ WF_lvars(ProcessorOpens) /\ WF_lvars(ProcessorEnds) /\ WF_lvars(DiskFreed)
SvlogdFairSpec == SvlogdSpec /\ SvlogdFair

-----------------------------------------------------------------------------
(* Properties *)

\* The log reads c from its byte t on, in the history e of the log.
Reads(e, t, c) == \A i \in 1..Len(c) : c[i] = e[t + i - 1]
End(f) == f.t + Len(f.c)

\* Rotation, processing, reopening and restarts neither lose nor repeat nor
\* reorder a byte: what was put into the log is, in order, in the old files, in
\* current and in the buffers, except for whole old files deleted from the front; a
\* file is there twice only under the names .s and .u of one time stamp, and misses
\* bytes at its end only if its processor was ended by a signal, which processorstop()
\* takes for a success (rotate, processorstop, logdir_open, buffer_pwrite).
LogComplete ==
  LET rest == Current(disk) \o io.out \o io.b
  IN  /\ \A f \in Logs(disk) : End(f) <= disk.t /\ Reads(emitted, f.t, f.c)
      /\ \A f, g \in Logs(disk) : IF f.t = g.t THEN f.c = g.c ELSE End(f) <= g.t \/ End(g) <= f.t
      /\ \A f \in Logs(disk) : \A p \in f.t..(disk.t - 1) :
           \E g \in Logs(disk) : g.t <= p /\ p < End(g)
      /\ \A f \in Logs(disk) : f.n = Len(f.c) \/ f.t \in bound.killed
      /\ Reads(emitted, disk.t, rest) /\ disk.t + Len(rest) = Len(emitted) + 1

\* current is cut inside a line only if the line is longer than linemax: rotation at
\* a newline leaves room for a line of that length (svlogd.c:363), if sizemax is
\* larger than linemax and current, when it was opened, left such room too (a HUP
\* may have lowered sizemax). A warning counts as a part of its line.
LineIntact ==
  LET end == IF Last(emitted) = NL THEN Len(emitted) - 1 ELSE Len(emitted)
  IN  io.pc = "full" /\ ld.sizemax > linemax /\ ld.found < ld.sizemax - linemax =>
        \/ Last(disk.cur) = NL
        \/ end > linemax /\ \A i \in (end - linemax)..end : emitted[i] # NL

\* A write never makes current larger than sizemax, also where sizemax - linemax
\* wraps around (svlogd.c:314-317, 363).
WithinSize ==
  Len(Current(disk')) > Len(Current(disk)) /\ disk.cur # NoFile
    => ld.sizemax = 0 \/ Len(disk'.cur) <= ld.sizemax

\* One call of rmoldest() deletes one file, and a crash before it, or between the
\* rename of .t and the removal of .u, leaves one more for good: there are never
\* more old files than nmax plus the number of crashes (svlogd.c:247, 294-302).
OldLimit == nmax > 0 => Cardinality(Logs(disk)) <= nmax + bound.crashes

\* Where the pieces of the log begin that are in the directory.
Starts(d) == {f.t : f \in Logs(d)} \cup {d.t}

\* Log data, what was current before included, is deleted only if nmax files remain, or
\* for lack of space.
DeletesSurplus ==
  ~(Starts(disk) \subseteq Starts(disk')) /\ ~bound.isfull => Cardinality(Logs(disk')) >= nmax

\* The limits of the configuration hold in any order of rotations, processors, crashes
\* and full disks: the size of current, the number of old files, and that no more than
\* the surplus is deleted (buffer_pwrite, rmoldest).
WithinLimits == [][WithinSize /\ OldLimit' /\ DeletesSurplus]_lvars

\* Once the input has ended svlogd exits, whatever processors fail, whatever HUP or
\* ALRM arrives while it waits for one, also when it is killed and started again
\* (processorstop(), svlogd.c:846-849), as long as the disk does not get full and no
\* processor is killed before it has created its output.
EofExits == bound.closed ~> io.pc \in {"gone", "dead"} \/ bound.full > 0 \/ (io.pc = "stuck" /\ bound.killed # {})
=============================================================================

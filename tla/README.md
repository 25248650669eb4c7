# AQJ OS: a TLA+ model of how the machine boots, supervises and stops

AQJ OS is a small Linux distribution. Its own code is a set of shell scripts
(`configs/`, `scripts/`); it carries two collections of C programs: the runit init
system (`runit/src`) and the Limine boot loader (`limine/`). This directory holds
TLA+ modules that are translated from that source, TLC configurations that
check them on small instances, and proofs that TLAPS checks.

Two parts: the supervision system (process 1, the watcher of the services
directory, the watcher of one service, its control program and its logger), and
the boot loader (menu, configuration, disks, installer; memory, executables,
boot protocols, processors).

## The system

    firmware --> Limine: disks -> configuration file -> menu, editor
                    |       memory map, executable, modules, page tables,
                    |       processors  (Limine protocol, Multiboot 1 and 2)
                    v
                 kernel
                    v
    runit (process 1) --- stage 1, 2, 3 ---> /etc/runit/{1,2,3}
      ^   ^                                     |
      |   +-- SIGINT (Ctrl-Alt-Del)             | stage 2 executes
      +-- SIGCONT + /etc/runit/stopit           v
          (runit-init: "init 0", "init 6")   runsvdir  <-- services directory, a link
                                                |          switched by runsvchdir
                                                | one per subdirectory
                                                v
     sv, runsvctrl -- control fifo -->        runsv  --> ./run, ./finish
     sv, svwait*   <- status file ---           |  pipe
                                                +-----> ./log/run (svlogd)

| Part | Source | Model |
|---|---|---|
| runit, runit-init, stage 3, ctrlaltdel | `runit.c`, `runit-init.c`, `configs/runit` | `Runit` |
| runsvdir, the switch of runsvchdir | `runsvdir.c`, `runsvchdir.c` | `Runsvdir` |
| runsv | `runsv.c` | `Runsv`, `ServiceLife` |
| sv, svwaitup, svwaitdown | `sv.c`, `svwaitup.c`, `svwaitdown.c` | `SvControl` (with `Runsv`) |
| svlogd | `svlogd.c` | `Svlogd` |
| Limine menu and editor | `menu.c` | `Menu`, `Editor` |
| Limine configuration file | `lib/config.c` | `Config` |
| Limine partitions, disks | `lib/part.s2.c`, `drivers/disk.s2.c` | `PartTable`, `DiskIndex` |
| Limine host tool | `host/limine.c` | `HostInstall`, `PartTable` |
| Limine memory map | `mm/pmm.s2.c` | `Pmm` |
| Limine ELF and PE loading | `lib/elf.c`, `lib/pe.c` | `Executable` |
| Limine protocol | `protos/limine.c` | `LimineReq`, `LimineMap`, `Smp` |
| Limine processors | `sys/smp.c`, `sys/lapic.c`, `sys/cpu_riscv.c` | `Smp` |
| Multiboot 1 and 2 | `protos/multiboot*.c`, `lib/elsewhere.c` | `Multiboot` |

`PROJECT.json` lists every part with what is left out of it, and maps every
definition to the lines it models.

## Modules of the supervision system

* `Runsv`: the loop of `main()` in `runsv.c`. `svd` is the array `svd[2]`
  (`pid`, `state`, `ctrl`, `want`), `sup` the files `supervise/pid` and
  `supervise/status` of both services together with the global `pidchanged`,
  `fifo` the two control fifos, `pending`, `selfpipe` and `sigterm` the way a
  signal takes. `pc` names the places of the loop between which other processes
  can act: `startlog`, `start`, `pause` (iopause, the only place where signals
  are unblocked), `reap`, `ctl`, `ctllog`, `term`, `exit`. A byte of a fifo is
  handled in one action (`ctrl`), with all the calls it makes: `update_status`,
  `stopservice`, `startservice`. Children, users and the kernel are the actions
  `ChildExit`, `UserControl`, `UserTerm`.
* `ServiceLife`: the abstract specification, the life of the programs of one
  service in seven transitions.
* `Runit`: `main()` of `runit.c` with `pc`, the child of the current stage in
  `kid`, the steps of `init 0` and `init 6` (one system call each) in `init`, the
  script of stage 3 in `script`, and the two request files. `asked` and `granted`
  are history variables: what users asked for and which requests were carried
  out to their last system call.
* `Runsvdir`: the table `sv`, the flag `check`, and the stamps. A stamp (inode,
  device, modification time) is modelled by the directory it stands for, or
  `None` once that directory changed in a later second; `recent` holds the
  directories changed in the current second, which a stamp cannot tell from an
  earlier change of the same second. `missing` is a history variable for
  `KeepsPresent`.
* `SvControl` extends `Runsv` by a client: `sv.pc` walks through `control()`,
  the check and the wait loop, and the forced kill of `sv.c`, or the polling of
  `svwaitup` and `svwaitdown`. The client sees only the status file, the clock
  in whole seconds and the start time in the file; runsv, the service and other
  bytes in the fifo go on between any two of its steps.
* `Svlogd`: one log directory. `disk` is what survives a crash (`current`, its
  execute bit, the files `@*`), `ld` the `struct logdir`, `io` the buffers, flags and
  place of the process, `child` the processors not yet collected. The time stamp in
  the name of a file is modelled by the position in the log of the file's first
  byte: both grow from rotation to rotation. The input is
  the sequence `stream` of bytes, of which only whether they are newlines matters.
  Signals, processors that fail or are killed, crashes and a full disk are actions. The
  field `n` of a file says how much of it was written: less than all for the output of a
  processor that was killed.
* `RunsvProofs`, `RunitProofs`, `RunsvdirProofs`, `SvControlProofs`,
  `SvlogdFilesProofs`, `SvlogdProofs`: theorems.

## Modules of the boot loader

* `Menu`: `_menu` and what it calls. `menu` holds its locals (selection, index,
  window, expanded directories), `nv` the EFI variables, `kept` what a failed boot
  leaves behind. Selection by one-shot, remembered and default variable, by
  path and by index, keys, mouse, countdown, boot and its failure.
* `Config`: trimming, macros, where the file is found, the menu tree and lookups
  as operators; four actions in the order of `init_config`.
* `Editor`: the buffer, the cursor, the window and the redraw. `DrawEditor` is one
  pass of the refresh with its jump back, so that a redraw that never ends would
  be a cycle.
* `PartTable`: finding a GPT in the loader (with its two memos) and in the host
  tool, MBR, the resumed walk over logical partitions, reads through the cache.
* `DiskIndex`: one drive per step is indexed; then firmware handles are matched to
  volumes by unique sectors.
* `HostInstall`: `limine bios-install`. `dv` is the device with the one-block
  write-back cache, `plan` the writes to come, `undo` the record of overwritten data.
  Every transfer may fail, and a failed write may have reached the disk.
* `Pmm`: the memory map as a sequence of entries; sanitising, allocating, freeing
  and reallocating, the BIOS and the UEFI set-up, leaving boot services with its
  retries while the firmware still takes pages, and the map handed over.
* `Executable`: `elf64_load` with KASLR retries, segments and relocations in file
  order, sections, the loading "elsewhere" for Multiboot, `pe64_load`.
* `LimineReq`: base revision and request scan, paging mode, direct map offset,
  modules, device tree, framebuffers, the TPM event log, the firmware tables told.
* `LimineMap`: which memory the direct map holds, the rounding of tables and
  framebuffers to pages, `map_pages` with large pages and splitting, the final map.
* `Smp`: the boot processor hands one static mailbox to one processor after the
  other; each processor is a process of its own from the moment it is kicked
  (`Setup`, `TakeSlot`, `Report`) and may be prompt, late or dead.
* `Multiboot`: header, image, the search for places (`elsewhere_append`), modules,
  the information structure, and the stub that copies everything at the end.
* `EditorProofs`, `SmpProofs`: theorems.
* `MCBootManager` (menu to installer) and `MCBootProtocols` (memory to
  processors) run one component at a time, named by `comp`; the others rest in an
  initial state. The components share no state in the code either, apart from
  what their input sets describe.

Definitions named `X_Something` that stand before `X` are mutated forms of it:
plausible mistakes, each of which TLC refutes with the property it belongs to.

### What is abstracted

* Time: the one-second throttle of `runsv` and the `sleep` calls of `runit`
  delay steps that any interleaving may delay anyway. Only the second of the
  directory's modification time matters to a property and is kept (`Tick`); in
  `SvControl` the clock of whole seconds is kept, since sv compares start times.
* The commands a, h, i, q, 1 and 2 send a signal and leave no trace in runsv: one
  value stands for them. A control script may take over any command or not.
* `supervise/stat` is written together with `status` and has its content.
* A failing write below `supervise/` ends `update_status` at `pid.new` or between
  `pid` and `status`; nothing else of the call depends on the reason.
* A service that was started executes `./run`, or, when the log pipe is closed,
  fails before. Its pid can be reused only after it was waited for.
* The root file system is writable from power on. The kill step of stage 3 ends
  every running init process. When stage 3 returns, runit decides in one step.
* Two links to the same subdirectory are one entry (the table is keyed by inode);
  the text log in runsvdir's argument is left out.
* Boot loader: memory, disks and files are counted in small units (pages, blocks,
  words) whose size keeps the roundings of the code distinguishable; contents are
  tags of where they came from. Checksums and signatures are either right or wrong.
  A panic is a state (`"panic"`) that ends the component.

## Runs that hold

Related claims are one property of a run; each claim is a definition of its own with
a comment, and the tables name them. Type invariants are proved (below) and
not run.

| Run | Instance | Distinct states | Property: its claims |
|---|---|---|---|
| `runsv` | 3 pids, all commands but k, log commands d u, control scripts | 1.9 M | `ChildrenKept`: `NoOrphan`, `NoLostChild`, `CleanExit`. `StatusFresh`. `FollowsLifeCycle` (refinement of `ServiceLife`) |
| `runsv_kill` | 3 pids, d u x k, log k x | 2.8 M | `SafeUnderKill`: `OwnChild`, `StatusFreshButState` |
| `runsv_live` | 2 pids, d u x p, fair | 0.4 M | `UpRuns`, `DownStops`, `ExitLeaves` |
| `runit` | 2 init processes, 1 round of waiting, failing exec, fair | 0.4 M | `ShutdownOrderly`: `OneStage`, `RebootReboots`. `RequestHonoured`, `ShutdownEnds` |
| `runsvdir` | 2 directories, 2 services, 3 pids, 2 changes, 1 failing call of any kind | 2.7 M | `TableSound`: `OwnRunsv`, `NoStray`, `HupStopsAll`. `KeepsPresent` |
| `runsvdir_live` | 1 directory, 2 services, table of 1, fair | 0.3 M | `Supervised`, `Unsupervised` |
| `svlogd` | lines of 2, buffer of 2, size limits 0, 1 and 3, nmax 1, nmin 0, 4 bytes of input, 1 fault, fair | 1.1 M | `LogComplete`, `LineIntact`. `WithinLimits`: `WithinSize`, `OldLimit`, `DeletesSurplus`. `EofExits` |
| `sv` | 2 pids, eight sequences of one or two clients, fair | 1.2 M | `SkipsOnlyDone`, `RestartReplaces`, `ReportHolds`, `ClientEnds` |
| `boot_manager` | six components, one at a time | 0.1 M | the first table below |
| `boot_protocols` | six components, one at a time | 0.2 M | the second table below |

`boot_manager`; the comments of `MCBootManager` give the instance of each component.

| Component | Property: its claims | What they say |
|---|---|---|
| `Menu` | `SelectionTrue`: `SelectionShown`, `RecordedFinds`. `VariableDecides`, `CountdownEnds` | What Enter acts on is what is highlighted; the path recorded for a boot leads back to that entry only; which source decides the selection; an unattended machine boots |
| `Config` | `ConfigFaithful`: `TrimExactButCr`, `MacrosExact`, `TreeFaithful`, `TupleOwn`, `OnePanic`, `ConfigOnBootVolume` | Each pass against its definition in one formula; a module never takes the next one's string; a file that panics is tried once; the boot volume is the file's |
| `Editor` | `EditorTrue`: `CursorInBuffer`, `OneLineMoves`, `ScreenTrue`. `EditorRefreshEnds` | Cursor, text and screen agree, and a redraw ends |
| `PartTable` | `TableFound`: `LocateAgrees`, `LastBlockWins`, `PartContained`. `CachesFresh`: `MemoFresh`, `WalkFresh`, `ReadExact` | Loader and installer find the same table; a partition lies on the medium, a logical one in an extended one; memos and the resumed walk answer what a fresh search would; reads are of the sector asked for |
| `DiskIndex` | `VolumesTold`: `CoordsUnique`, `HashNamesOne`, `HandleOfVolume` | Names and firmware handles denote one volume, also with cloned disks |
| `HostInstall` | `InstallSafe`: `UndoRestoresButTorn`, `RejectedUntouched`, `SuccessComplete`, `PartitionsKept`, `NoGptLeft`, `RoundTrip` | All or nothing under failing transfers; partitions survive; uninstall restores |

`boot_protocols`; likewise in `MCBootProtocols`.

| Component | Property: its claims | What they say |
|---|---|---|
| `Pmm` | `MemoryExact`: `PoolExact`, `MapExact`, `BlocksKept`, `RangeCheckExact`, `MemInfoExact`. `MapHandedOver`: `HandoverExact`, `CopyFits`, `FinalWellFormed` | No byte lost or handed out twice through carving, merging and retries; the map handed over is that of the moment boot services ended |
| `Executable` | `LoadedExact`: `ImageExact`, `RangesSound`, `SectionAgrees`, `ElsewhereExact` | The image is the file at the slide it ends up with; permissions never share a page |
| `LimineReq` | `ToldExact`: `RevisionTold`, `RequestsExact`, `ModeExact`, `HhdmBelowKernel`, `TableTold`, `ModulesExact`, `EventLogWhole`, `FipExact`, `AttributeTight` | What the executable is told is so |
| `LimineMap` | `MappedExact`: `HhdmExact`, `FbCaching`, `KernelExact`, `TablesReachable`, `PaddingHarmless`, `SpanHolds` | What is mapped is what the base revision promises, with the right caching and permissions |
| `Smp` | `HandoffExact`: `SlotsFit`, `ListExact`, `LapicHandoff`, `ModeTold`, `RevertKeeps`. `SmpBringUpEnds` | One mailbox for all processors, with dead and slow ones; the list told matches those that wait |
| `Multiboot` | `HandedExact`: `FirstFit`, `HandedWhole`, `StubSurvives`, `HeaderAtAddress`, `RelocExact`, `InfoFits`, `RequestsServed` | Places are found if there are any; no copy of the stub destroys a source or a result |

Why the bounds are enough. Three pids let service and log run while a third
process is being started, which is the most runsv can have without `k`; a
fourth would only be one more orphan. A fifo of one byte already makes every
order of commands possible, since a new byte may follow each one handled. In
`Runsvdir` two subdirectories and a table of two reach the moved last entry and
the skipped index, and a table of one reaches its limit; two changes are what it
takes to switch the link and back, or to add and remove within one second. The
liveness run leaves out the failures after which `Supervised` does not hold.
Failing writes (`FsFaults`) multiply the states of `Runsv` without touching what
its other properties speak of; they are covered by the theorems, which hold for
both values of that constant. `Polls` of `Runit` is five in the source; only
whether the waiting ends matters, and the theorems hold for every value. Four bytes, lines
of two and one old file take `Svlogd` through rotation, processing and deletion
in one behaviour, with a fault (a crash, a failing or killed processor, a full disk) at
any step; a size limit below the length of a line makes `sizemax - linemax` wrap.
One client after the other is what a stale status takes: the first one's byte
is still in the fifo when the second looks. With a second pid a process may be
replaced while the first is a zombie. The inputs of the boot components
are all those of a small shape (entries, segments, tables, ranges: two or three of
each), chosen so that neighbouring, overlapping and page-sharing cases all occur.

Deadlock is not checked for `Runsv`, `SvControl`, `Svlogd` and the boot components:
they really stop, with runsv gone and nobody there to write a command, at the end
of the input, or when the kernel is entered. `Runit` and `Runsvdir` never stop
(power comes back, time passes).

### Fairness

* runsv, runit, runsvdir and the stage scripts are ordinary processes that the
  scheduler does not starve: weak fairness of their steps. `Timeout` of runsv
  has none: nothing depends on the one-hour deadline.
* A signal that is pending while the process unblocks it is delivered. In
  `Runit` the loop passes through `poll` again and again, so delivery is strongly
  fair; the kernel delivers an unblocked pending signal before the call returns.
* A child ends after SIGKILL; after SIGTERM, if it is not stopped; a log program
  at the end of its input; `./finish` ends. These are the assumptions runit makes
  of services. `./run` need not end, and nobody need send a command.
* `EofExits`: svlogd is scheduled, its processors end, `read()` returns at the end
  of the input, and a full disk is freed. `ClientEnds`: the client is scheduled
  and time passes; nothing is asked of runsv or of the service.
* `CountdownEnds` and `EditorRefreshEnds`: the loader goes on drawing and counting
  (weak fairness of the menu's own steps and of the redraw), no key need be pressed.
* `SmpBringUpEnds`: the boot processor goes on, its polling is bounded, and the
  trampoline of a prompt processor goes on. Late and dead processors have none.

## Runs that show a disagreement

Each states what a manual page, a comment or a script says, and TLC finds a
behaviour of the code that does not have it. The quoted lines are in
`PROJECT.json`.

* `runit_crash`: a stage ended by a signal has exit code 0 in `wait_exitcode`, and the
  code for crashed stages is not reached.
* `runit_halt`: `/etc/runit/3` tests for the existence of the reboot file, not only for
  its execute bit, so `init 0` may reboot.

## Provisos and known deviations

Provisos in the properties that hold mark behaviours of the same kind.

Supervision:

* `UpRuns` excepts a closed log pipe: with a log service, `u` after `x` starts
  children that fail. `NoOrphan`, `CleanExit` and `FollowsLifeCycle` exclude `k`: it
  sets the state to down before the process is collected, so that a following `u`
  enters `startservice` with a child, on the path its comment says "should never
  happen" (runsv.c:282), and it makes runsv forget a `./finish` that runs.
* `RequestHonoured` excepts a stage 2 that exits 111 for ever, because the end of a
  stage is looked at before the requests. `ctrlaltdel` prepares a reboot but sets no
  `stopit`: runit stays in stage 2. If stage 3 cannot execute `reboot` it has removed
  the file before, and runit behind it powers off.
* `KeepsPresent` excepts an entry whose `stat` fails, since it counts as removed.
  `runsvdir_live` has one directory, because `stat` and `chdir` may see two when the
  link is switched, and no failing `opendir` and no failing `stat` of a new entry,
  neither of which is retried. A `fork` that fails (runsvdir.c:60) leaves `errno` set
  until the end of the scan, where it passes for a failed `readdir`: there is no sweep,
  and the directory is looked at again (runsvdir.c:122). A failing `stat` of a later
  entry of the same scan resets `errno`, and the known service whose fork failed then
  waits for the next change.
* `SkipsOnlyDone`, `ReportHolds` and `RestartReplaces` speak of clients that find no
  earlier byte in the fifo. `RestartReplaces` also excepts a process started in the
  second in which sv is, since sv compares whole seconds, and a process that a
  forced kill has left uncollected: runsv takes it for down, and a restart is
  reported while it is still there.
* svlogd drops a complete line on TERM or at the end of the input when its buffer is
  empty (svlogd.c:769). A processor that is ended by a signal has exit code 0 in
  `wait_exitcode` (svlogd.c:194): the part of its output that it has written is kept as the
  `.s` file and its input is removed, while svlogd.8:115-127 keeps the input for a processor
  that did not succeed. `LogComplete` lets the file of such a processor miss
  bytes at its end, and no other. If it was killed before it had created its output, the
  `rename` that follows fails for ever: svlogd stays there (`"stuck"`), and `EofExits`
  excepts that and a full disk. `LineIntact` excepts a
  `sizemax` lowered by HUP, and counts a warning as a part of the line behind it. After a failed
  attempt to free space the working directory stays in the log directory, and a
  HUP with a relative name is then fatal. HUP forgets a running processor.

Boot manager:

* `default_entry` is not used when a stale variable names a missing entry. `quiet` with
  `timeout: no` or a directory as default waits with an empty screen. After a
  failed boot of an edited entry with a directory as default the saved text may be
  opened on another entry, and the path recorded after a second edit is that of the
  default selection. An entry with an empty name cannot be found by path.
* Trimming leaves a blank that stands before a carriage return (`TrimExactButCr`).
  Global options behind the first entry are found only if the file opens with a
  top-level entry. A nameless entry ends the tree without a message, and a first
  entry deeper than the top is dropped. Braces of a macro that span lines are
  treated differently by the loader and the expander. A file whose first line is empty
  and whose second defines a macro `${X}` stores it under the name `{X`
  (config.c:460, 511: `i += i ? 3 : 2`); `MacrosExact` excepts it (`EmptyFirst`).
* The redraw of the editor need not end with tabs, with a line of more rows than the
  window, or with the cursor at the end of the text above the window (`Tame`).
* `LocateAgrees` excepts unreadable sectors; chains of logical partitions longer
  than MAX_LOGICAL_PARTITIONS are left out. Nothing in the loader keeps a partition off
  the table that lists it (part.s2.c:528-554, 913-923): `PartContained` asks only that it
  is on the medium. A GPT that could not be read once is remembered as absent;
  `CachesFresh` takes sectors that are readable always or never.
* A disk that cannot be read while it is
  indexed but later can, and that has a clone, is matched to the clone. A device path
  matches every path it is a prefix of (disk.s2.c:506-543), so a device below another
  one may be taken for it, and a partition that starts at sector 0 for its whole disk
  (disk.s2.c:574); `HandleOfVolume` excepts nested devices and that partition.
* `VariableDecides` is about paths that fit the buffer they are recorded in.
* The conversion of a GPT skips an alternate header that it cannot read
  (host/limine.c:1269-1273) and goes on: it may succeed with that header left on the
  disk, which `NoGptLeft` excepts (`dv.skipped`). The undo of a failed installation leaves the blocks of a write of several blocks
  that failed in the middle (`UndoRestoresButTorn`). Failing to store the data for a
  later uninstall does not change the exit status.

Boot protocols:

* `Smp`: a processor that answers after it was given up may take the slot of the next
  one (`Late`, excepted). Firmware that enables x2APIC although its own DMAR forbids
  it is excepted. Identifiers in the MADT are unique; a RISC-V machine described by a
  device tree has no MADT. Without a local APIC (`lapic_check`) there is no response and
  no handoff state.
* `Pmm`: the memory between the EBDA and 1 MiB is taken out of usable entries of the BIOS
  that begin or end in it, but not out of one that spans it (pmm.s2.c:282-292);
  `PoolExact` says so.
* `LimineReq`: for base revisions 1 and 2 a table in reserved memory above 4 GiB is told by
  an address in the direct map that is not mapped (`InDirectMap`).
* `LimineMap`: framebuffers and page tables do not share a page; a table that begins in
  ACPI memory lies within it; UEFI maps are in whole pages. The span of the direct map
  is computed before framebuffers and reserved tables enter the map (limine.c:770), which
  `SpanHolds` excepts. An i386 build drops the upper half of an address of the XSDT
  or in it (acpi.c:333, 345), and marks what lies at the rest as a table (`Misread`).
* `Multiboot`: the array of ranges is allocated before the target of the kernel is
  reserved (multiboot1.c:253, 261) and may be overwritten by it; Multiboot 2 reserves the
  target once, before the old array is freed (multiboot2.c:500, 547), so that a page of
  that array within the target is usable again and may get the stub or the source of a
  later copy, which the kernel then overwrites, against the comment at
  multiboot2.c:498-499 (`FreedForStub`, `FreedForSource`); memory of kernels
  and modules counts as usable in `check_usable_memory`; a later optional request
  cancels an earlier required one; a required SMBIOS, EFI or network tag that is not
  there is not refused. These are excepted.
* `Executable` is in words: relocations do not overlap their own table, and images are
  below 2 GiB.

## Theorems

All of them hold for every value of the constants that meets the named
assumptions of the module: any set of pids, processes or services, any commands,
any lengths.

`RunsvProofs`

* `TypeCorrect`.
* `SignalsOwnChildren`: `[]OwnChild`. Not inductive as it stands: collecting a child
  must not leave a stored pid behind, so `OwnChildInv` adds that no process is
  both alive and a zombie, and that without a log service the second record
  never has a pid (the reap loop looks at it only if `haslog`).
* `ChildrenCollected`: `[]NoLostChild`. `WakeUpInv` says it of every place of
  the loop: while a zombie exists there is a SIGCHLD pending, a byte in the
  self-pipe, or runsv is in the reap loop, which it leaves only when none is left.
* `NoOrphans`, `ExitsClean`: assume `NoKill` (k is in neither command set; with k they
  do not hold, see above). `NoOrphanInv` ties state to pid: without k a service
  in state down has no pid, so `startservice` finds none. `AllChildrenKept` is the
  three together, `[]ChildrenKept`.
* `ImplementsLifeCycle`: `Spec => FollowsLifeCycle`, assuming `NoKill`. `LifeInv` adds
  that the child of the log service never executes `./run` or `./finish`; every
  step of `Runsv` is then a step of `ServiceLife` or a stutter.
* For files that can be written: `StatusTellsAllButState`, `StatusTellsAll` (the second
  with `NoKill`): what the status files say when runsv sleeps. `LagInv` says of every place of the loop that the
  file differs from the record in nothing but a state that k replaced; `ExactInv`
  that without k it does not differ; `FifoInv` that without k in the command sets
  there is none in a fifo. `KillTolerated` is `[]SafeUnderKill`.

`RunitProofs`

* `RunitTypeCorrect`, `StagesDoNotOverlap`, `ShutdownNotUndone`: from `Inv`, the type
  invariant together with `StageInv`, which says at which `pc` a child of the stage
  exists and in which stage the script of stage 3 may run.
* `GrantedRebootKept`: `[]RebootReboots`: a completed `init 6` is not followed by a
  power off of stage 3, whatever else is asked for. `RebootInv` follows the reboot
  file through the system calls of `init 6`: from the one that creates it on, the
  file exists until stage 3 has looked. `ShutdownsOrderly` is `[]ShutdownOrderly`.

`RunsvdirProofs`

* `RunsvdirTypeCorrect`: the table stays within MAXSERVICES, the index of the sweep
  within the table, also while an entry is removed and the last one moved to its place.
* `TableConsistent`, `NoRunsvLost`, `HupTellsAll`, together `TableAlwaysSound`
  (`[]TableSound`), from `TableInv`: entries are distinct in subdirectory and pid,
  every pid is a child that is not collected, every running runsv is entered for
  its own subdirectory or was told to exit.
* `SweepSparesPresent`: `KeepsPresent`, from `GoneInv` on the flags that the scan clears
  and the sweep reads.

`SvControlProofs`, for any sequences of invocations and any waiting times, for files
that can be written

* `SkipsAreDone`, `ReportsHold`: `[]SkipsOnlyDone`, `[]ReportHolds`. The invariant of
  the pair of processes: `RunsvInv` takes over `OwnChildInv` and `LagInv` of runsv
  (a client's steps are steps of a user of runsv) for a service without log;
  `ClientInv` follows the wish of a client: until it sends, its fifo is empty
  (`Untouched`) and the status it has read still says what runsv wants
  (`StatusKept`); from then on its byte is in the fifo, alone, or was obeyed
  (`AnswerInv`).
* `RestartsReplace`: `[]RestartReplaces`. `SameProcess` keeps the process found by
  the client and its start time in runsv's record as long as it is alive. It needs
  `KillInv`: a k is the last byte of a client that has ended, so no command meets
  a process marked down by it.

`SvlogdFilesProofs` and `SvlogdProofs`, for any input, configurations, lengths, limits and
number of signals, crashes and failing calls

* `SvlogdInvariant`. The first module is about the directory alone: `Log` says that the
  old files and `current`, with the bytes being written and buffered, are pieces of the
  history of the log without gap or overlap, up to the pair `.s` and `.u` of one file, and
  that each `.t` has its `.u`; its lemmas say which removals, renames and copies keep that,
  one system call at a time, so that a crash may come between any two. `SvlogdInv` adds the
  process: `BufInv` (nothing is buffered while a write is under way, and a newline is only
  at the end of what is written), `SizeInv` (`ld.size` is the length of `current`),
  `KilledInv` (only a file whose processor a signal ended misses bytes), and
  `LineInv`: a newline that svlogd wrote into `current` lies where a line of `linemax`
  bytes still fits behind it, or rotation is next.
* `LogIsComplete`, `LinesIntact`: `[]LogComplete`, `[]LineIntact`, consequences of it.
* `LimitsKept`: `WithinLimits`. Its claims about a step are shown together with the
  preservation of the invariant, action by action.

`EditorProofs`, for any size of the buffer and of the window, any text and any keys

* `EditorInvariant`. `EdInv` follows a pass of the refresh: the cells mapped so far are in
  the order of drawing, each shows an offset of the text, all lie before the position
  (`Drawn`), and a cursor that was drawn is in a mapped cell (`BetweenCells`). Inside the
  handling of one character the cursor may be drawn before its cell is mapped (`OnCell`).
* `EditorIsTrue`: `EditorTrue`. Moves by whole lines rest on lemmas about the set of line
  starts (`LineStartsFact`, `DownFact`, `UpFact`); the claim about clicks rests on the order of
  the cells.

`SmpProofs`, for any number of processors, any tables that list a processor at most once
(`SmpAssumption`), any firmware modes, and processors that are dead, refuse or are late

* `SmpInvariant`, and from it `SlotsAlwaysFit` (`[]SlotsFit`), `ListIsExact` (`[]ListExact`),
  `ModeIsTold` (`[]ModeTold`) and `RevertsKeep` (`[][RevertKeeps]_smpvars`): four of the five
  claims of `HandoffExact`. `SlotInv` leaves room in the array for the rest of the table;
  `WalksAgree` shows that the walk that counts, which has its own tests in the code, sees
  what the walk that starts sees. `OnceInv` keeps the processors in the slots and those
  still to be tried apart;
  `MailboxInv` says that every processor that was kicked is dead, parked on the slot that
  carries its identifier, or the one the boot processor waits for, which is then alone with
  the mailbox. That is what a late answer breaks, and `ListExact` excepts.

### Only model-checked

* All liveness properties: fairness and ENABLED are beyond the prover.
* `SkipsOnlyDone`, `ReportHolds`, `RestartReplaces`, `StatusFresh` with failing writes:
  the theorems assume files that can be written.
* The properties of the boot loader other than those of `Editor` and `Smp`. `Config`,
  `LimineMap`, `Menu`, `Multiboot`, `PartTable` and `Pmm` are built on recursive operators,
  `DiskIndex` and `HostInstall` on folds over sequences: what a recursion computes for every
  input takes an induction over data, which the prover cannot do. `LapicHandoff` of `Smp`
  compares two ways of selecting entries from a table of any length, and is of that kind.
  `Executable` and `LimineReq` compare an image or a response with its definition over
  whole files and tables; their steps hardly interact, and TLC covers the shapes that differ.

## Not modelled

* Stages 1 and 2 of the boot (what they mount and clean), a crash inside
  `runsvchdir`, the status text of `sv`, `runsvstat`, `runsvctrl`, `chpst`,
  `utmpset`: one process and straight-line system calls, or output only.
* The pattern match and the clock of svlogd: `Svlogd` takes either outcome of a match
  and of a comparison with the age of `current`.
* The libraries of both programs, used through their effect.
* Limine: file systems and network boot (readers without state between calls);
  Linux, chainload and EFI boot (fill a structure, jump; memory comes from `Pmm`);
  IOMMU, GDT, IDT, A20, MTRR and EFI page tables (registers written in order by
  one processor); terminals, graphics, checksums, compression; early boot code;
  `build_identity_map` of the 32-bit loader; the checksum of the configuration
  file; the video fields of Multiboot 1; `enroll-config` of the host tool.
* Installers, image build scripts and service scripts: lists of external commands.

## Running

    tlc -workers 2 -config MCRunsv.cfg MCRunsv
    tlapm RunsvProofs.tla

and likewise for the other MC modules with their configurations (`PROJECT.json`
lists them) and the other modules of proofs.

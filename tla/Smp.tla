-------------------------------- MODULE Smp --------------------------------
(***************************************************************************)
(* Bring-up of the application processors: sys/smp.c for its four          *)
(* architectures, the trampolines the processors run, the local APIC       *)
(* handling of sys/lapic.c, the RISC-V hart list of sys/cpu_riscv.c and    *)
(* the MP response of protos/limine.c.  The boot processor hands one       *)
(* mailbox (passed_info, static) to one processor after the other, waits   *)
(* for its flag and gives up after a while; every processor runs on its    *)
(* own from the moment it is kicked.                                       *)
(***************************************************************************)
EXTENDS Integers, Sequences, FiniteSets, Functions

CONSTANTS
  Boxes,      \* the machines: firmware tables, firmware modes, processors
  Cpus        \* processor identifiers (LAPIC id, MPIDR, hart id, core id)

VARIABLES
  box,        \* the machine this boot runs on
  spc,        \* where the boot processor is
  src,        \* the table being walked: "acpi", "dtb" or "harts"
  entries_left,  \* entries of the table still to be tried
  max_cpus,   \* length of the allocated array of limine_mp_info
  cpu_count,  \* entries of it that are in use
  infos,      \* the array: the processor each slot written so far describes
  mail,       \* passed_info: slot handed over, booted flag
  pending,    \* pending_lint0 and pending_lint1 of lapic.c
  x2apic,     \* the local x2apic of init_smp
  lapic,      \* per processor: mode of its local APIC and its LVT entries
  ap,         \* per processor: how far it is, and the slot it parked on
  mp_response \* what the kernel is told

smpvars == <<box, spc, src, entries_left, max_cpus, cpu_count, infos, mail, pending,
             x2apic, lapic, ap, mp_response>>

NoLint == [dm |-> "none", masked |-> FALSE, flags |-> 0]
NoResponse == [cpus |-> <<>>, x2 |-> FALSE, given |-> FALSE]
AllCpus == -1      \* processor UID 0xff / 0xffffffff: every processor
NoUid == -2        \* the UID used when the boot processor is not listed
Pins == {"lint0", "lint1"}
Lvts == {"timer", "cmci"} \cup Pins

(***************************************************************************)
(* Tables.  An entry whose length is zero or runs past the table ends the  *)
(* walk; one shorter than its structure is skipped.                        *)
(***************************************************************************)
Walk(t) ==
  SubSeq(t, 1, CHOOSE n \in 0..Len(t) :
                 /\ \A i \in 1..n : t[i].len # "broken"
                 /\ n = Len(t) \/ t[n + 1].len = "broken")

(* Every source is walked twice: the first walk counts the processors that
   may be started, the second starts them.  The two repeat their tests; only
   LoongArch has one function for its MADT entries. *)
lapic_counted(e, x2) ==
  e.len = "ok" /\ e.on /\ (e.kind = "lapic" \/ (e.kind = "x2apic" /\ x2))
lapic_startable(e, x2) ==
  e.len = "ok" /\ e.on /\ (e.kind = "lapic" \/ (e.kind = "x2apic" /\ x2))

gicc_counted(e) == e.len = "ok" /\ e.on /\ e.kind = "gicc"
gicc_startable(e) == e.len = "ok" /\ e.on /\ e.kind = "gicc"

core_pic_startable(e) ==
  e.len = "ok" /\ e.kind = "core_pic" /\ e.id \in Cpus /\ e.on

(* A node of /cpus with the right device_type and a complete reg; on
   LoongArch, one whose identifier fits. *)
dt_counted(b, e) ==
  e.kind = "cpu" /\ e.len = "ok" /\ (b.arch = "loong" => e.id \in Cpus)
dt_startable(b, e) ==
  e.kind = "cpu" /\ e.len = "ok" /\ (b.arch = "loong" => e.id \in Cpus)

madt_counted(b, e, x2) ==
  CASE b.arch = "x86"   -> lapic_counted(e, x2)
    [] b.arch = "arm"   -> gicc_counted(e)
    [] b.arch = "loong" -> core_pic_startable(e)
madt_startable(b, e, x2) ==
  CASE b.arch = "x86"   -> lapic_startable(e, x2)
    [] b.arch = "arm"   -> gicc_startable(e)
    [] b.arch = "loong" -> core_pic_startable(e)

(* hart_list: enabled harts with an ISA string, in reverse table order. *)
HartKnown(e) == e.len = "ok" /\ e.on /\ e.isa \in {"rv64i", "rv64g", "rv32"}
HartNode(e) == e.len = "ok" /\ e.isa \in {"rv64i", "rv64g", "rv32"}

(* Without ACPI, or with a device tree in the configuration, it comes from
   the device tree; such a machine has no MADT here. *)
HartList(b) ==
  LET harts == IF b.madt # <<>> THEN SelectSeq(Walk(b.madt), HartKnown)
               ELSE SelectSeq(b.dtb, HartNode)
  IN [i \in 1..Len(harts) |-> harts[Len(harts) + 1 - i]]

(* RISCV_HART_COPROC: a hart without the ISA of the boot hart. *)
Coproc(b, e) == e.isa # b.isa

init_riscv_panics ==
  \/ \E i \in 1..Len(Walk(box.madt)) :
       LET e == box.madt[i] IN e.len = "ok" /\ e.on /\ ~e.rhct
  \/ ~\E i \in 1..Len(HartList(box)) : HartList(box)[i].id = box.bsp
  \/ box.isa \notin {"rv64i", "rv64g"}

Counted(b, s, x2) == Len(
  CASE s = "acpi"  -> SelectSeq(Walk(b.madt), LAMBDA e : madt_counted(b, e, x2))
    [] s = "dtb"   -> SelectSeq(b.dtb, LAMBDA e : dt_counted(b, e))
    [] s = "harts" -> SelectSeq(HartList(b), LAMBDA e : ~Coproc(b, e)))

Entries(b, s, x2) ==
  CASE s = "acpi"  -> SelectSeq(Walk(b.madt), LAMBDA e : madt_startable(b, e, x2))
    [] s = "dtb"   -> SelectSeq(b.dtb, LAMBDA e : dt_startable(b, e))
    [] s = "harts" -> SelectSeq(HartList(b), LAMBDA e : ~Coproc(b, e))

CpuEntry == [kind : STRING, id : Cpus, uid : Int, on : BOOLEAN, len : STRING, pin : STRING,
          flags : Int, isa : STRING, rhct : BOOLEAN, go : STRING]

(* What is asked of a machine: a walk of its tables lists a processor at    *)
(* most once, a processor answers in time, late or never, and firmware can *)
(* only switch to x2APIC mode a local APIC that is there.                  *)
ASSUME SmpAssumption ==
  \A b \in Boxes :
    /\ b.bsp \in Cpus /\ b.speed \in [Cpus -> {"prompt", "late", "dead"}]
    /\ b.want \in BOOLEAN /\ b.fwx2 \in BOOLEAN /\ b.x2ok \in BOOLEAN
    /\ b.fwx2 => b.haslapic
    /\ \A s \in IF b.arch = "riscv" THEN {"harts"} ELSE {"acpi", "dtb"}, x2 \in BOOLEAN :
         LET t == Entries(b, s, x2)
         IN t \in Seq(CpuEntry) /\ \A i, j \in 1..Len(t) : t[i].id = t[j].id => i = j

(***************************************************************************)
(* Local APIC.                                                             *)
(***************************************************************************)
lapic_madt_nmi_flags_to_lvt(flags) ==
  [dm |-> "nmi", masked |-> TRUE, flags |-> flags]

NmiApplies(e, uid, x2) ==
  /\ e.len = "ok"
  /\ \/ e.kind = "nmi" /\ (e.uid = AllCpus \/ (e.uid = uid /\ uid \in 0..254))
     \/ e.kind = "x2nmi" /\ x2 /\ (e.uid = AllCpus \/ e.uid = uid)

(* The last matching entry of the table decides a pin. *)
Override(pin, uid, x2, old) ==
  LET hits == SelectSeq(Walk(box.madt),
                        LAMBDA e : NmiApplies(e, uid, x2) /\ e.pin = pin)
  IN IF hits = <<>> THEN old
     ELSE lapic_madt_nmi_flags_to_lvt(hits[Len(hits)].flags)

lapic_prep_lint(uid, x2) == [pin \in Pins |-> Override(pin, uid, x2, NoLint)]

lvt_should_mask(l) == l.dm \in {"fixed", "nmi", "extint"}

Present(r) == r = "cmci" => box.cmci

lapic_configure_handoff_state(l, pend) ==
  [l EXCEPT !.lvt = [r \in Lvts |->
     IF ~Present(r) \/ ~lvt_should_mask(l.lvt[r]) THEN l.lvt[r]
     ELSE IF r \in Pins /\ pend[r] # NoLint THEN pend[r]
     ELSE [l.lvt[r] EXCEPT !.masked = TRUE]]]

(* Clearing the enable bit resets every register. *)
ResetLvt == [r \in Lvts |-> [dm |-> "fixed", masked |-> TRUE, flags |-> 0]]
Saved(l) == [r \in Lvts |-> IF Present(r) THEN l.lvt[r] ELSE ResetLvt[r]]
x2apic_disable(l) == [mode |-> "x", lvt |-> Saved(l)]

lapic_check == box.haslapic
x2apic_check == box.x2ok
x2apic_enable(l) == [l EXCEPT !.mode = "x2"]

(***************************************************************************)
(* The boot processor: init_smp.                                           *)
(***************************************************************************)
SInit ==
  /\ box \in Boxes
  /\ spc = "init" /\ src = "none" /\ entries_left = <<>>
  /\ max_cpus = 0 /\ cpu_count = 0 /\ infos = <<>>
  /\ mail = [slot |-> 0, flag |-> 0]
  /\ pending = [pin \in Pins |-> NoLint]
  /\ x2apic = FALSE
  /\ lapic = [c \in Cpus |-> [mode |-> IF box.fwx2 THEN "x2" ELSE "x",
                              lvt |-> IF c = box.bsp THEN box.lvt ELSE ResetLvt]]
  /\ ap = [c \in Cpus |-> [st |-> "off", slot |-> 0]]
  /\ mp_response = NoResponse

(* Allocate the array for a source and start its second walk.  x86 and
   LoongArch return when nothing was counted. *)
Open(s, x2) ==
  /\ src' = s
  /\ max_cpus' = Counted(box, s, x2)
  /\ entries_left' = Entries(box, s, x2)
  /\ cpu_count' = 0 /\ infos' = <<>>
  /\ spc' = "walk"

Leave(where) ==
  /\ spc' = where
  /\ UNCHANGED <<src, entries_left, max_cpus, cpu_count, infos>>

Reverts == lapic[box.bsp].mode = "x2" /\ ~box.want

TryDtb == IF box.dtb # <<>> THEN Open("dtb", FALSE) ELSE Leave("none")

InitX86 ==
  LET base == IF Reverts THEN x2apic_disable(lapic[box.bsp]) ELSE lapic[box.bsp]
      x2 == box.want /\ x2apic_check
      keep == UNCHANGED <<x2apic, lapic>>
  IN /\ box.arch = "x86"
     /\ IF ~lapic_check
        THEN Leave("none") /\ keep
        ELSE IF Reverts /\ box.locked
        THEN Leave("panic") /\ keep
        ELSE IF box.madt = <<>>
        THEN Leave("none") /\ x2apic' = x2apic
             /\ lapic' = [lapic EXCEPT ![box.bsp] = base]
        ELSE /\ x2apic' = x2
             /\ lapic' = [lapic EXCEPT ![box.bsp] = IF x2 THEN x2apic_enable(base) ELSE base]
             /\ IF Counted(box, "acpi", x2) = 0 THEN Leave("none") ELSE Open("acpi", x2)

InitRiscv ==
  /\ box.arch = "riscv"
  /\ IF init_riscv_panics THEN Leave("panic") ELSE Open("harts", FALSE)
  /\ UNCHANGED <<x2apic, lapic>>

InitArm ==
  /\ box.arch = "arm"
  /\ IF box.madt # <<>> THEN Open("acpi", FALSE) ELSE TryDtb
  /\ UNCHANGED <<x2apic, lapic>>

InitLoong ==
  /\ box.arch = "loong"
  /\ IF box.madt # <<>> /\ Counted(box, "acpi", FALSE) # 0 THEN Open("acpi", FALSE) ELSE TryDtb
  /\ UNCHANGED <<x2apic, lapic>>

init_smp ==
  /\ spc = "init"
  /\ InitX86 \/ InitRiscv \/ InitArm \/ InitLoong
  /\ UNCHANGED <<box, mail, pending, ap, mp_response>>

(* The slot is written before it is known whether it will be used. *)
SlotOf(e) == IF cpu_count < Len(infos)
             THEN [infos EXCEPT ![cpu_count + 1] = e.id]
             ELSE Append(infos, e.id)

Handed_Stale(slot) == [slot |-> slot, flag |-> mail.flag]
Handed(slot) == [slot |-> slot, flag |-> 0]

(* The next entry, once its slot is written: the boot processor only takes
   the slot, another one is started. *)
Upcoming(e) == spc = "walk" /\ entries_left # <<>> /\ e = Head(entries_left)
Slotted(e, starts) ==
  /\ infos' = SlotOf(e)
  /\ IF e.id = box.bsp
     THEN cpu_count' = cpu_count + 1 /\ entries_left' = Tail(entries_left) /\ UNCHANGED <<spc, pending>>
     ELSE UNCHANGED cpu_count /\ starts
  /\ UNCHANGED <<box, src, max_cpus, mail, x2apic, lapic, ap, mp_response>>
Begin(p) == spc' = "kick" /\ pending' = p /\ UNCHANGED entries_left
Pass == entries_left' = Tail(entries_left) /\ UNCHANGED <<spc, pending>>

Lint(e, x2) == IF box.rev5 THEN lapic_prep_lint(e.uid, x2) ELSE pending

WalkLapic(e) == Upcoming(e) /\ e.kind = "lapic" /\ Slotted(e, Begin(Lint(e, x2apic)))
WalkX2apic(e) == Upcoming(e) /\ e.kind = "x2apic" /\ Slotted(e, Begin(Lint(e, TRUE)))
WalkGicc(e) == Upcoming(e) /\ e.kind = "gicc" /\ Slotted(e, Begin(pending))
WalkCorePic(e) == Upcoming(e) /\ e.kind = "core_pic" /\ Slotted(e, Begin(pending))
WalkHart(e) == Upcoming(e) /\ e.kind = "intc" /\ Slotted(e, Begin(pending))

(* A node of the device tree; on ARM without a usable enable-method it is
   passed over. *)
WalkDtArm(e) ==
  /\ Upcoming(e) /\ e.kind = "cpu" /\ box.arch = "arm"
  /\ Slotted(e, IF e.go = "bad" THEN Pass ELSE Begin(pending))
WalkDtLoong(e) == Upcoming(e) /\ e.kind = "cpu" /\ box.arch = "loong" /\ Slotted(e, Begin(pending))

WalkEntry ==
  \E e \in Range(entries_left) :
    \/ WalkLapic(e) \/ WalkX2apic(e) \/ WalkGicc(e) \/ WalkCorePic(e) \/ WalkHart(e)
    \/ WalkDtArm(e) \/ WalkDtLoong(e)

(* Starting one: the mailbox is filled, and the processor kicked.  A
   processor that already runs does not start again. *)
Kicked(c) == IF ap[c].st = "off" THEN [ap EXCEPT ![c].st = "kicked"] ELSE ap
Kick(refused, kicked) ==
  /\ spc = "kick"
  /\ mail' = Handed(cpu_count + 1)
  /\ IF refused THEN spc' = "walk" /\ entries_left' = Tail(entries_left) /\ UNCHANGED ap
     ELSE spc' = "poll" /\ ap' = kicked /\ UNCHANGED entries_left
  /\ UNCHANGED <<box, src, max_cpus, cpu_count, infos, pending, x2apic, lapic, mp_response>>

(* INIT and two SIPIs: nothing refuses, and a processor starts afresh. *)
StartX86 ==
  /\ box.arch = "x86"
  /\ Kick(FALSE, [ap EXCEPT ![Head(entries_left).id].st = "kicked"])

(* Spin table, or PSCI CPU_ON, which may refuse; ACPI parking is not
   supported. *)
StartArm ==
  LET e == Head(entries_left)
  IN /\ spc = "kick" /\ box.arch = "arm"
     /\ IF e.go = "park"
        THEN /\ spc' = "panic" /\ mail' = Handed(cpu_count + 1)
             /\ UNCHANGED <<box, src, entries_left, max_cpus, cpu_count, infos, pending, x2apic,
                            lapic, ap, mp_response>>
        ELSE Kick(e.go = "psci" /\ (e.id \in box.refuses \/ ap[e.id].st # "off"), Kicked(e.id))

StartRiscv ==
  /\ spc = "kick" /\ box.arch = "riscv"
  /\ Kick(Head(entries_left).id \in box.refuses \/ ap[Head(entries_left).id].st # "off", Kicked(Head(entries_left).id))

(* The entry point goes to the processor's mailbox, then the IPI. *)
StartLoong ==
  /\ spc = "kick" /\ box.arch = "loong"
  /\ Kick(FALSE, Kicked(Head(entries_left).id))

Started ==
  /\ spc = "poll" /\ mail.flag = 1
  /\ IF box.arch = "arm" /\ Head(entries_left).id \in box.otherEl
     THEN spc' = "panic" /\ UNCHANGED <<cpu_count, entries_left>>
     ELSE spc' = "walk" /\ cpu_count' = cpu_count + 1 /\ entries_left' = Tail(entries_left)
  /\ UNCHANGED <<box, src, max_cpus, infos, mail, pending, x2apic, lapic, ap,
                 mp_response>>

(* The last poll still reads zero: a prompt processor has answered by then. *)
Expired_Never(c) == FALSE
Expired(c) == box.speed[c] # "prompt"

GaveUp ==
  /\ spc = "poll" /\ mail.flag = 0
  /\ Expired(Head(entries_left).id)
  /\ spc' = "walk" /\ entries_left' = Tail(entries_left)
  /\ UNCHANGED <<box, src, max_cpus, cpu_count, infos, mail, pending, x2apic,
                 lapic, ap, mp_response>>

(* End of a walk: with nothing listed the device tree is the other chance. *)
WalkEnd ==
  /\ spc = "walk" /\ entries_left = <<>>
  /\ IF cpu_count # 0 THEN Leave("answer")
     ELSE IF src = "acpi" /\ box.arch # "x86" THEN TryDtb
     ELSE Leave("none")
  /\ UNCHANGED <<box, mail, pending, x2apic, lapic, ap, mp_response>>

(* limine.c: stacks for the slots in use, the response, and then the boot
   processor's own APIC. *)
BspUid ==
  LET Named(e) == e.len = "ok" /\ e.id = box.bsp
                  /\ (e.kind = "lapic" \/ (e.kind = "x2apic" /\ lapic[box.bsp].mode = "x2"))
      named == SelectSeq(Walk(box.madt), Named)
  IN IF named = <<>> THEN NoUid ELSE named[1].uid

Handoff ==
  /\ spc \in {"answer", "none"}
  /\ mp_response' = IF spc = "none" THEN NoResponse
                    ELSE [cpus |-> SubSeq(infos, 1, cpu_count),
                          x2 |-> box.arch = "x86" /\ box.want /\ x2apic_check,
                          given |-> TRUE]
  /\ IF box.arch = "x86" /\ box.rev5 /\ lapic_check
     THEN \E p \in {lapic_prep_lint(BspUid, lapic[box.bsp].mode = "x2")} :
            /\ pending' = p
            /\ lapic' = [lapic EXCEPT ![box.bsp] = lapic_configure_handoff_state(@, p)]
     ELSE UNCHANGED <<pending, lapic>>
  /\ spc' = "kernel"
  /\ UNCHANGED <<box, src, entries_left, max_cpus, cpu_count, infos, mail, x2apic, ap>>

(***************************************************************************)
(* A processor that was kicked runs the trampoline.                        *)
(***************************************************************************)
(* Its APIC follows the boot processor's mode, through "disabled" when it
   has to leave x2APIC mode, and takes the pending LINT values. *)
Setup(c) ==
  /\ ap[c].st = "kicked" /\ box.speed[c] # "dead"
  /\ ap' = [ap EXCEPT ![c].st = "up"]
  /\ lapic' = IF box.arch # "x86" THEN lapic
              ELSE LET l == [mode |-> lapic[box.bsp].mode, lvt |-> lapic[c].lvt]
                   IN [lapic EXCEPT ![c] =
                         IF box.rev5 THEN lapic_configure_handoff_state(l, pending) ELSE l]
  /\ UNCHANGED <<box, spc, src, entries_left, max_cpus, cpu_count, infos, mail, pending,
                 x2apic, mp_response>>

TakeSlot(c) ==
  /\ ap[c].st = "up"
  /\ ap' = [ap EXCEPT ![c] = [st |-> "told", slot |-> mail.slot]]
  /\ UNCHANGED <<box, spc, src, entries_left, max_cpus, cpu_count, infos, mail, pending,
                 x2apic, lapic, mp_response>>

Report(c) ==
  /\ ap[c].st = "told"
  /\ ap' = [ap EXCEPT ![c].st = "parked"]
  /\ mail' = [mail EXCEPT !.flag = 1]
  /\ UNCHANGED <<box, spc, src, entries_left, max_cpus, cpu_count, infos, pending, x2apic,
                 lapic, mp_response>>

Bsp ==
  \/ init_smp \/ WalkEntry \/ StartX86 \/ StartArm \/ StartRiscv \/ StartLoong \/ Started
  \/ WalkEnd \/ Handoff
Trampoline(c) == Setup(c) \/ TakeSlot(c) \/ Report(c)

SNext == Bsp \/ GaveUp \/ \E c \in Cpus : Trampoline(c)

SSpec == SInit /\ [][SNext]_smpvars

(* The boot processor runs, its polling is bounded, and a prompt processor
   reaches the parking loop in time. *)
SFairSpec ==
  /\ SSpec
  /\ WF_smpvars(Bsp) /\ WF_smpvars(GaveUp)
  /\ \A c \in Cpus : WF_smpvars(box.speed[c] = "prompt" /\ Trampoline(c))

(***************************************************************************)
(* Properties.                                                             *)
(***************************************************************************)
Late == \E c \in Cpus : box.speed[c] = "late"

(* The array is sized by one walk of the table and filled by another: no slot
   beyond it is ever written (smp.c:214, 240). *)
SlotsFit == Len(infos) <= max_cpus

(* Unless a processor answers after it was given up, the response lists the
   boot processor and every parked processor once, and each parked processor
   waits on the slot that carries its own identifier: setting goto_address of
   a listed processor starts that processor (smp.c:67, trampoline
   booted_flag, limine.c:1944). *)
ListExact ==
  spc = "kernel" /\ ~Late /\ mp_response.given =>
    LET l == mp_response.cpus
        parked == {c \in Cpus : ap[c].st = "parked"}
    IN /\ \A i, j \in 1..Len(l) : l[i] = l[j] => i = j
       /\ Range(l) \ {box.bsp} = parked
       /\ \A c \in parked : ap[c].slot \in 1..Len(l) /\ l[ap[c].slot] = c

UidOf(c) ==
  LET mine == SelectSeq(Walk(box.madt), LAMBDA e : lapic_startable(e, x2apic) /\ e.id = c)
  IN mine[1].uid

(* The pin overrides are statics shared by all processors: every processor
   still ends with the LINT values the table gives for its own UID, with its
   own where the table gives none, and with every maskable LVT entry masked
   (lapic.c:46, 127). *)
LapicHandoff ==
  spc = "kernel" /\ box.arch = "x86" /\ lapic_check /\ box.rev5 /\ ~Late =>
    \A c \in {box.bsp} \cup {d \in Cpus : ap[d].st = "parked"} :
      \A r \in Lvts :
        LET l == lapic[c].lvt[r]
            uid == IF c = box.bsp THEN BspUid ELSE UidOf(c)
            hits == {i \in 1..Len(Walk(box.madt)) :
                       NmiApplies(box.madt[i], uid, lapic[c].mode = "x2")
                       /\ box.madt[i].pin = r}
            last == CHOOSE i \in hits : \A j \in hits : j <= i
        IN Present(r) /\ lvt_should_mask(l) =>
             /\ l.masked
             /\ IF hits # {} THEN l.flags = box.madt[last].flags /\ l.dm = "nmi"
                ELSE l.dm = (IF c = box.bsp THEN box.lvt[r].dm ELSE "fixed")

(* The kernel finds the APIC in the mode it was told: x2APIC exactly when the
   response says so and never when it did not ask for it, and every parked
   processor is in the boot processor's mode (smp.c:133, limine.c:1974).
   Firmware that switched x2APIC on although its own DMAR forbids it is
   excluded. *)
ModeTold ==
  spc = "kernel" /\ box.arch = "x86" /\ (box.fwx2 => box.x2ok) =>
    /\ mp_response.given => (mp_response.x2 <=> lapic[box.bsp].mode = "x2")
    /\ lapic[box.bsp].mode = "x2" => box.want
    /\ \A c \in Cpus : ap[c].st = "parked" => lapic[c].mode = lapic[box.bsp].mode

(* Reverting to xAPIC mode resets the registers; what the firmware had put
   in them is there again afterwards (lapic.c:376). *)
RevertKeeps ==
  lapic[box.bsp].mode = "x2" /\ lapic'[box.bsp].mode = "x" =>
    \A r \in Lvts : Present(r) => lapic'[box.bsp].lvt[r] = lapic[box.bsp].lvt[r]

(* Bring-up ends: with dead, late or refused processors the kernel is still
   entered, or the boot stops with a message (smp.c:112, 452). *)
BringUpEnds == <>(spc \in {"kernel", "panic"})

(* The processors told to the executable are those that wait for it, each  *)
(* with its own slot, its interrupt pins and the APIC mode that is told,   *)
(* though all are started through one mailbox (smp.c, lapic.c).            *)
HandoffExact == [][SlotsFit' /\ ListExact' /\ LapicHandoff' /\ ModeTold' /\ RevertKeeps]_smpvars
=============================================================================

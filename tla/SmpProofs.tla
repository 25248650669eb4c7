------------------------------ MODULE SmpProofs -----------------------------
(***************************************************************************)
(* Proofs about the bring-up of processors in Smp: one mailbox serves all  *)
(* of them, for any number of processors, any tables and any firmware.     *)
(***************************************************************************)
EXTENDS Smp, TLAPS

-----------------------------------------------------------------------------
Distinct(t) == \A i, j \in 1..Len(t) : t[i].id = t[j].id => i = j

-----------------------------------------------------------------------------
(* The inductive invariant. *)
ApRec == [st : {"off", "kicked", "up", "told", "parked"}, slot : Nat]

SmpType ==
  /\ spc \in {"init", "walk", "kick", "poll", "answer", "none", "kernel", "panic"}
  /\ entries_left \in Seq(CpuEntry) /\ infos \in Seq(Cpus)
  /\ max_cpus \in Nat /\ cpu_count \in Nat
  /\ mail \in [slot : Nat, flag : {0, 1}] /\ ap \in [Cpus -> ApRec]
  /\ src = "acpi" => box.arch # "riscv"

Runs(c) == ap[c].st \in {"up", "told", "parked"}

(* The array: the slots in use, the next one, which may be written already, *)
(* and room for what is left of the table.                                 *)
SlotInv ==
  /\ cpu_count + Len(entries_left) <= max_cpus
  /\ cpu_count <= Len(infos) /\ Len(infos) <= cpu_count + 1 /\ Len(infos) <= max_cpus
  /\ spc \in {"kick", "poll"} =>
       /\ entries_left # <<>> /\ Head(entries_left).id # box.bsp
       /\ Len(infos) = cpu_count + 1 /\ infos[cpu_count + 1] = Head(entries_left).id
  /\ spc = "poll" => mail.slot = cpu_count + 1

(* No processor is in two slots, or in a slot and still to be tried. *)
OnceInv ==
  /\ Distinct(entries_left)
  /\ \A i, j \in 1..cpu_count : infos[i] = infos[j] => i = j
  /\ \A i \in 1..cpu_count, j \in 1..Len(entries_left) : infos[i] # entries_left[j].id

(* The boot processor is not kicked, and the dead do not run. *)
BspInv == ap[box.bsp].st = "off" /\ \A c \in Cpus : Runs(c) => box.speed[c] # "dead"

(* Every processor that was kicked is dead, parked on its slot, or the one *)
(* the boot processor waits for, alone with the mailbox.                   *)
MailboxInv ==
  ~Late =>
    /\ \A i \in 1..cpu_count :
         infos[i] # box.bsp => ap[infos[i]].st = "parked" /\ ap[infos[i]].slot = i
    /\ \A c \in Cpus : ap[c].st # "off" =>
         \/ ap[c].st = "kicked" /\ box.speed[c] = "dead"
         \/ ap[c].st = "parked" /\ ap[c].slot \in 1..cpu_count /\ infos[ap[c].slot] = c
         \/ /\ spc = "poll" /\ c = Head(entries_left).id
            /\ ap[c].st \in {"told", "parked"} => ap[c].slot = mail.slot
         \/ spc = "panic"
    /\ spc = "poll" /\ mail.flag = 1 => ap[Head(entries_left).id].st = "parked"

(* What the kernel is told. *)
ResponseInv ==
  /\ spc # "kernel" => mp_response = NoResponse
  /\ spc = "init" => cpu_count = 0
  /\ spc = "kernel" /\ mp_response.given =>
       /\ mp_response.cpus = SubSeq(infos, 1, cpu_count)
       /\ mp_response.x2 = (box.arch = "x86" /\ box.want /\ box.x2ok)

(* The local APIC of the boot processor is in the mode asked for once the  *)
(* tables are walked, and that of a processor that runs is in its mode.    *)
ModeInv ==
  /\ lapic = [c \in Cpus |-> [mode |-> lapic[c].mode, lvt |-> lapic[c].lvt]]
  /\ spc = "init" => /\ \A c \in Cpus : ap[c].st = "off"
                     /\ \A c \in Cpus : lapic[c].mode = IF box.fwx2 THEN "x2" ELSE "x"
  /\ box.arch = "x86" =>
       /\ spc \notin {"init", "panic"} /\ lapic[box.bsp].mode = "x2" => box.want
       /\ /\ spc \in {"walk", "kick", "poll", "answer"} \/ (spc = "kernel" /\ mp_response.given)
          /\ box.fwx2 => box.x2ok
          => (lapic[box.bsp].mode = "x2" <=> box.want /\ box.x2ok)
       /\ \A c \in Cpus : Runs(c) => lapic[c].mode = lapic[box.bsp].mode

SmpInv ==
  box \in Boxes /\ SmpType /\ SlotInv /\ OnceInv /\ BspInv /\ MailboxInv /\ ResponseInv /\ ModeInv

-----------------------------------------------------------------------------
(* Tables and slots. *)

(* What is left of a table after its first entry. *)
LEMMA TailFact ==
  ASSUME NEW t \in Seq(CpuEntry), t # <<>>, Distinct(t)
  PROVE  /\ Len(t) \in Nat /\ Len(t) >= 1 /\ Head(t) = t[1] /\ t[1].id \in Cpus
         /\ Tail(t) \in Seq(CpuEntry) /\ Len(Tail(t)) = Len(t) - 1 /\ Distinct(Tail(t))
         /\ \A i \in 1..Len(Tail(t)) :
              i + 1 \in 1..Len(t) /\ Tail(t)[i] = t[i + 1] /\ t[i + 1].id # t[1].id
<1>1. Len(t) \in Nat /\ Len(t) >= 1 /\ Head(t) = t[1] /\ t[1] \in CpuEntry
  OBVIOUS
<1>2. t[1].id \in Cpus
  BY <1>1 DEF CpuEntry
<1>3. Tail(t) \in Seq(CpuEntry) /\ Len(Tail(t)) = Len(t) - 1
  BY <1>1
<1>4. \A i \in 1..Len(Tail(t)) : i + 1 \in 1..Len(t) /\ Tail(t)[i] = t[i + 1]
  BY <1>1, <1>3
<1>5. \A i \in 1..Len(Tail(t)) : t[i + 1].id # t[1].id
  <2> TAKE i \in 1..Len(Tail(t))
  <2>1. i + 1 \in 1..Len(t) /\ 1 \in 1..Len(t) /\ i + 1 # 1
    BY <1>1, <1>4
  <2> QED
    BY <2>1 DEF Distinct
<1>6. Distinct(Tail(t))
  <2> SUFFICES ASSUME NEW i \in 1..Len(Tail(t)), NEW j \in 1..Len(Tail(t)),
                      Tail(t)[i].id = Tail(t)[j].id
               PROVE  i = j
    BY Zenon DEF Distinct
  <2>1. i + 1 = j + 1
    BY <1>4, Zenon DEF Distinct
  <2> QED
    BY <2>1, <1>3
<1> QED
  BY <1>1, <1>2, <1>3, <1>4, <1>5, <1>6

(* The two walks of a source agree. *)
LEMMA WalksAgree ==
  ASSUME NEW s, NEW x2
  PROVE  Counted(box, s, x2) = Len(Entries(box, s, x2))
BY DEF Counted, Entries, madt_counted, madt_startable, lapic_counted, lapic_startable,
       gicc_counted, gicc_startable, dt_counted, dt_startable

(* The array a source is given has one slot for each of its entries. *)
LEMMA OpenFact ==
  ASSUME box \in Boxes, NEW s, NEW x2 \in BOOLEAN,
         s \in IF box.arch = "riscv" THEN {"harts"} ELSE {"acpi", "dtb"}, Open(s, x2)
  PROVE  /\ spc' = "walk" /\ src' = s /\ cpu_count' = 0 /\ infos' = <<>>
         /\ entries_left' \in Seq(CpuEntry) /\ Distinct(entries_left')
         /\ max_cpus' = Len(entries_left') /\ max_cpus' \in Nat
<1>1. spc' = "walk" /\ src' = s /\ cpu_count' = 0 /\ infos' = <<>> /\ entries_left' = Entries(box, s, x2)
      /\ max_cpus' = Len(Entries(box, s, x2))
  BY WalksAgree DEF Open
<1>2. Entries(box, s, x2) \in Seq(CpuEntry) /\ Distinct(Entries(box, s, x2))
  BY SmpAssumption DEF Distinct
<1> QED
  BY <1>1, <1>2

(* Writing the next slot leaves the slots in use alone. *)
LEMMA SlotFact ==
  ASSUME SmpType, SlotInv, NEW e \in CpuEntry
  PROVE  /\ SlotOf(e) \in Seq(Cpus) /\ Len(SlotOf(e)) = cpu_count + 1
         /\ SlotOf(e)[cpu_count + 1] = e.id
         /\ \A i \in 1..cpu_count : SlotOf(e)[i] = infos[i]
<1>1. e.id \in Cpus /\ infos \in Seq(Cpus) /\ cpu_count \in Nat /\ Len(infos) \in Nat
      /\ cpu_count <= Len(infos) /\ Len(infos) <= cpu_count + 1
  BY DEF CpuEntry, SmpType, SlotInv
<1>2. CASE cpu_count < Len(infos)
  <2>1. SlotOf(e) = [infos EXCEPT ![cpu_count + 1] = e.id]
    BY <1>2 DEF SlotOf
  <2> QED
    BY <1>1, <1>2, <2>1
<1>3. CASE ~(cpu_count < Len(infos))
  <2>1. SlotOf(e) = Append(infos, e.id) /\ Len(infos) = cpu_count
    BY <1>1, <1>3 DEF SlotOf
  <2> QED
    BY <1>1, <2>1
<1> QED
  BY <1>2, <1>3

-----------------------------------------------------------------------------
(* The boot processor walks a table. *)

(* The slots in use stay, and those that are added are the boot processor's *)
(* or are those of a processor parked on them: the mailbox is at rest.      *)
LEMMA MailboxRests ==
  ASSUME SmpType, SmpType', MailboxInv, box' = box, ap' = ap, spc # "poll", spc' # "poll",
         spc = "panic" => spc' = "panic",
         cpu_count <= cpu_count', \A i \in 1..cpu_count : infos'[i] = infos[i],
         ~Late => \A i \in 1..cpu_count' : i > cpu_count => infos'[i] = box.bsp
  PROVE  MailboxInv'
<1> SUFFICES ASSUME ~Late PROVE MailboxInv'
  BY DEF MailboxInv, Late
<1>1. cpu_count \in Nat /\ cpu_count' \in Nat /\ \A i \in 1..cpu_count : i \in 1..cpu_count'
  BY DEF SmpType
<1>2. ASSUME NEW i \in 1..cpu_count', infos'[i] # box.bsp
      PROVE  ap[infos'[i]].st = "parked" /\ ap[infos'[i]].slot = i
  <2>1. i \in 1..cpu_count
    BY <1>1, <1>2
  <2> QED
    BY <1>2, <2>1 DEF MailboxInv
<1>3. ASSUME NEW c \in Cpus, ap[c].st # "off"
      PROVE  \/ ap[c].st = "kicked" /\ box.speed[c] = "dead"
             \/ ap[c].st = "parked" /\ ap[c].slot \in 1..cpu_count' /\ infos'[ap[c].slot] = c
             \/ spc' = "panic"
  BY <1>1, <1>3, Zenon DEF MailboxInv
<1> QED
  BY <1>2, <1>3, Zenon DEF MailboxInv

(* An entry: its slot is written; it is the boot processor's and counts, or *)
(* it is passed over, or it is about to be started.                         *)
LEMMA WalkFact ==
  ASSUME SmpInv, WalkEntry
  PROVE  /\ spc = "walk" /\ entries_left # <<>>
         /\ infos' = SlotOf(entries_left[1])
         /\ \/ /\ entries_left[1].id = box.bsp /\ cpu_count' = cpu_count + 1
               /\ entries_left' = Tail(entries_left) /\ spc' = "walk"
            \/ /\ entries_left[1].id # box.bsp /\ cpu_count' = cpu_count
               /\ entries_left' = Tail(entries_left) /\ spc' = "walk"
            \/ /\ entries_left[1].id # box.bsp /\ cpu_count' = cpu_count
               /\ entries_left' = entries_left /\ spc' = "kick"
         /\ UNCHANGED <<box, src, max_cpus, mail, lapic, ap, mp_response>>
<1>1. PICK e \in Range(entries_left) :
        \/ WalkLapic(e) \/ WalkX2apic(e) \/ WalkGicc(e) \/ WalkCorePic(e) \/ WalkHart(e)
        \/ WalkDtArm(e) \/ WalkDtLoong(e)
  BY DEF WalkEntry
<1>2. Upcoming(e) /\ \E p : Slotted(e, Begin(p)) \/ Slotted(e, Pass)
  BY <1>1 DEF WalkLapic, WalkX2apic, WalkGicc, WalkCorePic, WalkHart, WalkDtArm, WalkDtLoong
<1>3. e = entries_left[1]
  BY <1>2 DEF Upcoming, SmpInv, SmpType
<1> QED
  BY <1>2, <1>3 DEF Upcoming, Slotted, Begin, Pass

LEMMA WalkKeepsSlots ==
  ASSUME SmpInv, WalkEntry
  PROVE  SmpType' /\ SlotInv' /\ OnceInv'
<1> DEFINE t == entries_left
           n == cpu_count
<1>1. /\ SmpType /\ SlotInv /\ OnceInv /\ spc = "walk" /\ t \in Seq(CpuEntry) /\ t # <<>>
      /\ Distinct(t) /\ n \in Nat /\ max_cpus \in Nat /\ n + Len(t) <= max_cpus
  BY WalkFact DEF SmpInv, SmpType, OnceInv, SlotInv
<1>2. /\ Len(t) \in Nat /\ Len(t) >= 1 /\ Head(t) = t[1] /\ t[1].id \in Cpus /\ t[1] \in CpuEntry
      /\ Tail(t) \in Seq(CpuEntry) /\ Len(Tail(t)) = Len(t) - 1 /\ Distinct(Tail(t))
  BY <1>1, TailFact
<1>3. \A j \in 1..Len(Tail(t)) :
        j + 1 \in 1..Len(t) /\ Tail(t)[j] = t[j + 1] /\ t[j + 1].id # t[1].id
  BY <1>1, TailFact
<1>4. infos' \in Seq(Cpus) /\ Len(infos') = n + 1 /\ infos'[n + 1] = t[1].id
  BY <1>1, <1>2, SlotFact, WalkFact
<1>5. \A i \in 1..n : infos'[i] = infos[i]
  BY <1>1, <1>2, SlotFact, WalkFact
<1>6. \A i, j \in 1..n : infos[i] = infos[j] => i = j
  BY <1>1 DEF OnceInv
<1>7. \A i \in 1..n, j \in 1..Len(t) : infos[i] # t[j].id
  BY <1>1 DEF OnceInv
<1>8. /\ \/ n' = n + 1 /\ t' = Tail(t) /\ spc' = "walk"
         \/ n' = n /\ t' = Tail(t) /\ spc' = "walk"
         \/ t[1].id # box.bsp /\ n' = n /\ t' = t /\ spc' = "kick"
      /\ UNCHANGED <<box, src, max_cpus, mail, ap>>
  BY WalkFact
<1>9. SmpType'
  <2>1. spc' \in {"walk", "kick"} /\ n' \in Nat /\ t' \in Seq(CpuEntry)
    BY <1>1, <1>2, <1>8, SMTT(40)
  <2> QED
    BY <1>1, <1>4, <1>8, <2>1 DEF SmpType
<1>10. SlotInv'
  <2>1. Len(t') \in Nat /\ n' + Len(t') <= max_cpus' /\ n + 1 <= max_cpus'
        /\ n' <= n + 1 /\ n + 1 <= n' + 1
    BY <1>1, <1>2, <1>8
  <2>2. spc' # "poll" /\ (spc' = "kick" => t' = t /\ n' = n /\ t[1].id # box.bsp)
    BY <1>8
  <2>3. spc' \in {"kick", "poll"} =>
          /\ t' # <<>> /\ Head(t').id # box'.bsp
          /\ Len(infos') = n' + 1 /\ infos'[n' + 1] = Head(t').id
    BY <1>1, <1>2, <1>4, <1>8, <2>2
  <2> QED
    BY <1>4, <2>1, <2>2, <2>3 DEF SlotInv
<1>11. \A i \in 1..n : infos'[i] # t[1].id
  BY <1>2, <1>5, <1>7
<1>12. \A i, j \in 1..n + 1 : infos'[i] = infos'[j] => i = j
  BY <1>1, <1>4, <1>5, <1>6, <1>11
<1>13. \A i \in 1..n' : i \in 1..n + 1
  BY <1>1, <1>8
<1>14. \A i, j \in 1..n' : infos'[i] = infos'[j] => i = j
  BY <1>12, <1>13, Zenon
<1>15. \A i \in 1..n', j \in 1..Len(t') : infos'[i] # t'[j].id
  <2>1. CASE n' = n /\ t' = t
    <3>1. \A i \in 1..n, j \in 1..Len(t) : infos'[i] # t[j].id
      <4> TAKE i \in 1..n, j \in 1..Len(t)
      <4>1. infos'[i] = infos[i] /\ infos[i] # t[j].id
        BY <1>5, <1>7
      <4> QED
        BY <4>1
    <3> QED
      BY <2>1, <3>1, Zenon
  <2>2. CASE t' = Tail(t)
    <3>1. ASSUME NEW i \in 1..n', NEW j \in 1..Len(Tail(t)) PROVE infos'[i] # Tail(t)[j].id
      <4>1. j + 1 \in 1..Len(t) /\ Tail(t)[j] = t[j + 1] /\ t[j + 1].id # t[1].id
        BY <1>3
      <4>2. CASE i \in 1..n
        <5>1. infos'[i] = infos[i] /\ infos[i] # t[j + 1].id
          BY <1>5, <1>7, <4>1, <4>2
        <5> QED
          BY <4>1, <5>1
      <4>3. CASE i = n + 1
        BY <1>4, <4>1, <4>3
      <4> QED
        BY <1>1, <1>13, <4>2, <4>3
    <3> QED
      BY <2>2, <3>1
  <2> QED
    BY <1>8, <2>1, <2>2
<1>16. Distinct(t')
  BY <1>1, <1>2, <1>8
<1> QED
  BY <1>9, <1>10, <1>14, <1>15, <1>16 DEF OnceInv


Walking == {"walk", "kick", "poll", "answer"}

(* A step of the boot processor that leaves the APICs alone and makes no   *)
(* processor run.                                                          *)
LEMMA Frame ==
  ASSUME SmpInv, box' = box, lapic' = lapic, mp_response' = mp_response,
         ap'[box.bsp].st = ap[box.bsp].st, \A c \in Cpus : Runs(c)' => Runs(c),
         spc \in Walking, spc' \in Walking \cup {"panic", "none"}
  PROVE  box' \in Boxes /\ BspInv' /\ ResponseInv' /\ ModeInv'
<1>1. box' \in Boxes
  BY DEF SmpInv
<1>2. BspInv'
  BY DEF SmpInv, BspInv
<1>3. ResponseInv'
  BY DEF SmpInv, ResponseInv, Walking
<1>4. ModeInv'
  <2>1. lapic' = [c \in Cpus |-> [mode |-> lapic'[c].mode, lvt |-> lapic'[c].lvt]]
    BY DEF SmpInv, ModeInv
  <2>2. spc' # "init" /\ spc' # "kernel"
    BY DEF Walking
  <2>3. ASSUME box.arch = "x86"
        PROVE  /\ lapic[box.bsp].mode = "x2" => box.want
               /\ (box.fwx2 => box.x2ok) => (lapic[box.bsp].mode = "x2" <=> box.want /\ box.x2ok)
               /\ \A c \in Cpus : Runs(c) => lapic[c].mode = lapic[box.bsp].mode
    BY <2>3 DEF SmpInv, ModeInv, Walking
  <2> QED
    BY <2>1, <2>2, <2>3, Zenon DEF ModeInv
<1> QED
  BY <1>1, <1>2, <1>3, <1>4

(* A processor's entry is read. *)
LEMMA WalkStep ==
  ASSUME SmpInv, WalkEntry
  PROVE  SmpInv'
<1>1. SmpType' /\ SlotInv' /\ OnceInv'
  BY WalkKeepsSlots
<1>2. spc = "walk" /\ spc' \in {"walk", "kick"} /\ UNCHANGED <<box, ap, lapic, mp_response>>
  BY WalkFact
<1>3. box' \in Boxes /\ BspInv' /\ ResponseInv' /\ ModeInv'
  <2>1. \A c \in Cpus : Runs(c)' => Runs(c)
    BY <1>2 DEF Runs
  <2> QED
    BY <1>2, <2>1, Frame DEF Walking
<1>4. MailboxInv'
  <2>1. SmpType /\ SlotInv /\ MailboxInv /\ cpu_count \in Nat /\ entries_left[1] \in CpuEntry
    BY WalkFact DEF SmpInv, SmpType
  <2>2. /\ infos'[cpu_count + 1] = entries_left[1].id
        /\ \A i \in 1..cpu_count : infos'[i] = infos[i]
    BY <2>1, SlotFact, WalkFact
  <2>3. cpu_count' = cpu_count \/ (cpu_count' = cpu_count + 1 /\ entries_left[1].id = box.bsp)
    BY WalkFact
  <2>4. cpu_count <= cpu_count'
        /\ \A i \in 1..cpu_count' : i > cpu_count => infos'[i] = box.bsp
    BY <2>1, <2>2, <2>3
  <2> QED
    BY <1>1, <1>2, <2>1, <2>2, <2>4, MailboxRests
<1> QED
  BY <1>1, <1>3, <1>4 DEF SmpInv

(* The walk ends. *)
LEMMA WalkEndStep ==
  ASSUME SmpInv, WalkEnd
  PROVE  SmpInv'
<1>1. spc = "walk" /\ entries_left = <<>> /\ UNCHANGED <<box, mail, lapic, ap, mp_response>>
      /\ SmpType /\ box \in Boxes
  BY DEF WalkEnd, SmpInv
<1>2. \/ Leave("answer") \/ Leave("none")
      \/ cpu_count = 0 /\ box.arch # "x86" /\ src = "acpi" /\ Open("dtb", FALSE)
  BY DEF WalkEnd, TryDtb
<1>3. \A c \in Cpus : Runs(c)' => Runs(c)
  BY <1>1 DEF Runs
<1>4. CASE Leave("answer") \/ Leave("none")
  <2>1. spc' \in {"answer", "none"} /\ UNCHANGED <<src, entries_left, max_cpus, cpu_count, infos>>
    BY <1>4 DEF Leave
  <2>2. box' \in Boxes /\ BspInv' /\ ResponseInv' /\ ModeInv'
    BY <1>1, <1>3, <2>1, Frame DEF Walking
  <2>3. SmpType' /\ SlotInv' /\ OnceInv'
    BY <1>1, <2>1 DEF SmpInv, SmpType, SlotInv, OnceInv
  <2>4. MailboxInv'
    BY <1>1, <2>1, <2>3, MailboxRests DEF SmpInv, SmpType
  <2> QED
    BY <2>2, <2>3, <2>4 DEF SmpInv
<1>5. CASE cpu_count = 0 /\ box.arch # "x86" /\ src = "acpi" /\ Open("dtb", FALSE)
  <2>1. /\ spc' = "walk" /\ cpu_count' = 0 /\ infos' = <<>>
        /\ entries_left' \in Seq(CpuEntry) /\ Distinct(entries_left')
        /\ max_cpus' = Len(entries_left') /\ max_cpus' \in Nat /\ src' = "dtb"
    BY <1>1, <1>5, OpenFact DEF SmpType
  <2>2. box' \in Boxes /\ BspInv' /\ ResponseInv' /\ ModeInv'
    BY <1>1, <1>3, <2>1, Frame DEF Walking
  <2>3. SmpType' /\ SlotInv' /\ OnceInv'
    BY <1>1, <2>1 DEF SmpInv, SmpType, SlotInv, OnceInv
  <2>4. MailboxInv'
    BY <1>1, <1>5, <2>1, <2>3, MailboxRests DEF SmpInv, SmpType
  <2> QED
    BY <2>2, <2>3, <2>4 DEF SmpInv
<1> QED
  BY <1>2, <1>4, <1>5

-----------------------------------------------------------------------------
(* The boot processor starts another one. *)

(* The mailbox is filled for the entry at hand; the start is refused, or    *)
(* the processor is kicked.                                                 *)
LEMMA KickFact ==
  ASSUME SmpInv, StartX86 \/ StartArm \/ StartRiscv \/ StartLoong
  PROVE  LET c == Head(entries_left).id
         IN  /\ spc = "kick" /\ mail' = [slot |-> cpu_count + 1, flag |-> 0]
             /\ \/ spc' = "walk" /\ entries_left' = Tail(entries_left) /\ ap' = ap
                \/ spc' = "panic" /\ entries_left' = entries_left /\ ap' = ap
                \/ /\ spc' = "poll" /\ entries_left' = entries_left
                   /\ \/ ap' = [ap EXCEPT ![c].st = "kicked"]
                      \/ ap' = ap /\ ap[c].st # "off"
             /\ UNCHANGED <<box, src, max_cpus, cpu_count, infos, lapic, mp_response>>
<1> DEFINE c == Head(entries_left).id
<1>1. CASE StartX86
  BY <1>1 DEF StartX86, Kick, Handed
<1>2. CASE StartArm
  BY <1>2 DEF StartArm, Kick, Handed, Kicked
<1>3. CASE StartRiscv
  BY <1>3 DEF StartRiscv, Kick, Handed, Kicked
<1>4. CASE StartLoong
  BY <1>4 DEF StartLoong, Kick, Handed, Kicked
<1> QED
  BY <1>1, <1>2, <1>3, <1>4

(* The processor about to be started is in no slot yet: it was not kicked, *)
(* or it is dead.                                                          *)
LEMMA KickedAnew ==
  ASSUME SmpInv, spc = "kick", ~Late
  PROVE  LET c == Head(entries_left).id
         IN  ap[c].st = "off" \/ (ap[c].st = "kicked" /\ box.speed[c] = "dead")
<1> DEFINE t == entries_left
           c == Head(t).id
<1>1. /\ t \in Seq(CpuEntry) /\ t # <<>> /\ Distinct(t) /\ cpu_count \in Nat
      /\ \A i \in 1..cpu_count, j \in 1..Len(t) : infos[i] # t[j].id
  BY DEF SmpInv, SmpType, SlotInv, OnceInv
<1>2. c = t[1].id /\ 1 \in 1..Len(t) /\ c \in Cpus
  BY <1>1, TailFact
<1>3. ap[c].st # "off" =>
        \/ ap[c].st = "kicked" /\ box.speed[c] = "dead"
        \/ ap[c].slot \in 1..cpu_count /\ infos[ap[c].slot] = c
  <2> HIDE DEF c
  <2> QED
    BY <1>2 DEF SmpInv, MailboxInv
<1>4. ~(ap[c].slot \in 1..cpu_count /\ infos[ap[c].slot] = c)
  BY <1>1, <1>2
<1> QED
  BY <1>3, <1>4

(* The entry at hand is done with, whether its slot counts or not. *)
LEMMA DropKeeps ==
  ASSUME SmpInv, spc \in {"kick", "poll"}, spc' = "walk", entries_left' = Tail(entries_left),
         cpu_count' = cpu_count \/ cpu_count' = cpu_count + 1,
         UNCHANGED <<box, src, max_cpus, infos>>,
         mail' \in [slot : Nat, flag : {0, 1}], ap' \in [Cpus -> ApRec]
  PROVE  SmpType' /\ SlotInv' /\ OnceInv'
<1> DEFINE t == entries_left
           n == cpu_count
<1>1. /\ SmpType /\ t \in Seq(CpuEntry) /\ t # <<>> /\ Distinct(t) /\ n \in Nat
      /\ max_cpus \in Nat /\ n + Len(t) <= max_cpus /\ Len(infos) \in Nat
      /\ Len(infos) = n + 1 /\ Len(infos) <= max_cpus /\ infos[n + 1] = Head(t).id
  BY DEF SmpInv, SmpType, SlotInv, OnceInv
<1>2. /\ Len(t) \in Nat /\ Len(t) >= 1 /\ Head(t) = t[1]
      /\ Tail(t) \in Seq(CpuEntry) /\ Len(Tail(t)) = Len(t) - 1 /\ Distinct(Tail(t))
  BY <1>1, TailFact
<1>3. \A j \in 1..Len(Tail(t)) :
        j + 1 \in 1..Len(t) /\ Tail(t)[j] = t[j + 1] /\ t[j + 1].id # t[1].id
  BY <1>1, TailFact
<1>4. \A i, j \in 1..n : infos[i] = infos[j] => i = j
  BY DEF SmpInv, OnceInv
<1>5. \A i \in 1..n, j \in 1..Len(t) : infos[i] # t[j].id
  BY DEF SmpInv, OnceInv
<1>6. n' \in Nat /\ \A i \in 1..n' : i \in 1..n \/ i = n + 1
  BY <1>1
<1>7. SmpType'
  BY <1>1, <1>2, <1>6 DEF SmpType
<1>8. SlotInv'
  BY <1>1, <1>2 DEF SlotInv
<1>9. \A i \in 1..n : infos[i] # infos[n + 1]
  BY <1>1, <1>2, <1>5
<1>10. \A i, j \in 1..n' : infos[i] = infos[j] => i = j
  BY <1>4, <1>6, <1>9, Zenon
<1>11. ASSUME NEW i \in 1..n', NEW j \in 1..Len(Tail(t)) PROVE infos[i] # Tail(t)[j].id
  <2>1. j + 1 \in 1..Len(t) /\ Tail(t)[j] = t[j + 1] /\ t[j + 1].id # t[1].id
    BY <1>3
  <2>2. CASE i \in 1..n
    <3>1. infos[i] # t[j + 1].id
      BY <1>5, <2>1, <2>2
    <3> QED
      BY <2>1, <3>1
  <2>3. CASE i = n + 1
    BY <1>1, <1>2, <2>1, <2>3
  <2> QED
    BY <1>6, <2>2, <2>3
<1>12. OnceInv'
  BY <1>2, <1>10, <1>11 DEF OnceInv
<1> QED
  BY <1>7, <1>8, <1>12

(* A processor is started, or its start is refused. *)
LEMMA KickStep ==
  ASSUME SmpInv, StartX86 \/ StartArm \/ StartRiscv \/ StartLoong
  PROVE  SmpInv'
<1> DEFINE c == Head(entries_left).id
<1>1. /\ spc = "kick" /\ mail' = [slot |-> cpu_count + 1, flag |-> 0]
      /\ UNCHANGED <<box, src, max_cpus, cpu_count, infos, lapic, mp_response>>
  BY KickFact
<1>2. /\ cpu_count \in Nat /\ mail' \in [slot : Nat, flag : {0, 1}] /\ mail'.slot = cpu_count + 1
      /\ mail'.flag = 0 /\ ap \in [Cpus -> ApRec] /\ c \in Cpus /\ c # box.bsp
  <2>1. cpu_count \in Nat /\ ap \in [Cpus -> ApRec] /\ entries_left \in Seq(CpuEntry)
        /\ entries_left # <<>> /\ Distinct(entries_left) /\ c # box.bsp
    BY <1>1 DEF SmpInv, SmpType, SlotInv, OnceInv
  <2>2. c \in Cpus
    BY <2>1, TailFact
  <2> QED
    BY <1>1, <2>1, <2>2
<1>3. CASE spc' = "walk" /\ entries_left' = Tail(entries_left) /\ ap' = ap
  <2>1. SmpType' /\ SlotInv' /\ OnceInv'
    BY <1>1, <1>2, <1>3, DropKeeps
  <2>2. box' \in Boxes /\ BspInv' /\ ResponseInv' /\ ModeInv'
    BY <1>1, <1>3, Frame DEF Walking, Runs
  <2>3. MailboxInv'
    BY <1>1, <1>2, <1>3, <2>1, MailboxRests DEF SmpInv
  <2> QED
    BY <2>1, <2>2, <2>3 DEF SmpInv
<1>4. CASE spc' = "panic" /\ entries_left' = entries_left /\ ap' = ap
  <2>1. SmpType' /\ SlotInv' /\ OnceInv'
    BY <1>1, <1>2, <1>4 DEF SmpInv, SmpType, SlotInv, OnceInv
  <2>2. box' \in Boxes /\ BspInv' /\ ResponseInv' /\ ModeInv'
    BY <1>1, <1>4, Frame DEF Walking, Runs
  <2>3. MailboxInv'
    BY <1>1, <1>2, <1>4, <2>1, MailboxRests DEF SmpInv
  <2> QED
    BY <2>1, <2>2, <2>3 DEF SmpInv
<1>5. CASE /\ spc' = "poll" /\ entries_left' = entries_left
           /\ ap' = [ap EXCEPT ![c].st = "kicked"] \/ (ap' = ap /\ ap[c].st # "off")
  <2> HIDE DEF c
  <2>1. /\ ap' \in [Cpus -> ApRec]
        /\ \A d \in Cpus : d # c => ap'[d] = ap[d]
        /\ ap'[c].st = "kicked" \/ ap'[c] = ap[c]
    BY <1>2, <1>5 DEF ApRec
  <2>2. SmpType'
    BY <1>1, <1>2, <1>5, <2>1 DEF SmpInv, SmpType
  <2>3. SlotInv' /\ OnceInv'
    BY <1>1, <1>2, <1>5 DEF SmpInv, SlotInv, OnceInv
  <2>4. \A d \in Cpus : Runs(d)' => Runs(d)
    BY <2>1 DEF Runs
  <2>5. box.bsp \in Cpus
    BY SmpAssumption DEF SmpInv
  <2>6. box' \in Boxes /\ BspInv' /\ ResponseInv' /\ ModeInv'
    BY <1>1, <1>2, <1>5, <2>1, <2>4, <2>5, Frame DEF Walking
  <2>7. MailboxInv'
    <3> SUFFICES ASSUME ~Late PROVE MailboxInv'
      BY <1>1 DEF MailboxInv, Late
    <3>1. ap[c].st = "off" \/ ap[c].st = "kicked"
      BY <1>1, KickedAnew DEF c
    <3>2. ap'[c].st = "kicked"
      BY <1>2, <1>5, <3>1 DEF ApRec
    <3>3. ASSUME NEW i \in 1..cpu_count, infos[i] # box.bsp
          PROVE  ap'[infos[i]].st = "parked" /\ ap'[infos[i]].slot = i
      <4>1. ap[infos[i]].st = "parked" /\ ap[infos[i]].slot = i
        BY <3>3 DEF SmpInv, MailboxInv
      <4>2. infos[i] \in Cpus /\ infos[i] # c
        BY <3>1, <4>1 DEF SmpInv, SmpType, SlotInv
      <4> QED
        BY <2>1, <4>1, <4>2
    <3>4. ASSUME NEW d \in Cpus, d # c, ap[d].st # "off"
          PROVE  \/ ap[d].st = "kicked" /\ box.speed[d] = "dead"
                 \/ ap[d].st = "parked" /\ ap[d].slot \in 1..cpu_count /\ infos[ap[d].slot] = d
      BY <1>1, <3>4 DEF SmpInv, MailboxInv
    <3>5. spc' = "poll" /\ c = Head(entries_left').id
      BY <1>5 DEF c
    <3>6. \A d \in Cpus : ap'[d].st # "off" =>
            \/ ap'[d].st = "kicked" /\ box.speed[d] = "dead"
            \/ ap'[d].st = "parked" /\ ap'[d].slot \in 1..cpu_count /\ infos[ap'[d].slot] = d
            \/ /\ spc' = "poll" /\ d = Head(entries_left').id
               /\ ap'[d].st \in {"told", "parked"} => ap'[d].slot = mail'.slot
      BY <2>1, <3>2, <3>4, <3>5
    <3> QED
      BY <1>1, <1>2, <3>3, <3>6 DEF MailboxInv
  <2> QED
    BY <2>2, <2>3, <2>6, <2>7 DEF SmpInv
<1> QED
  BY <1>3, <1>4, <1>5, KickFact

-----------------------------------------------------------------------------
(* The boot processor stops waiting. *)

(* What the boot processor waits for, alone with the mailbox. *)
LEMMA PollFact ==
  ASSUME SmpInv, spc = "poll"
  PROVE  LET c == Head(entries_left).id
         IN  /\ c \in Cpus /\ c # box.bsp /\ infos[cpu_count + 1] = c
             /\ cpu_count \in Nat /\ mail.slot = cpu_count + 1
             /\ \A i \in 1..cpu_count : infos[i] # c
<1> DEFINE t == entries_left
           c == Head(t).id
<1>1. /\ t \in Seq(CpuEntry) /\ t # <<>> /\ Distinct(t) /\ cpu_count \in Nat
      /\ c # box.bsp /\ infos[cpu_count + 1] = c /\ mail.slot = cpu_count + 1
      /\ \A i \in 1..cpu_count, j \in 1..Len(t) : infos[i] # t[j].id
  BY DEF SmpInv, SmpType, SlotInv, OnceInv
<1>2. c = t[1].id /\ 1 \in 1..Len(t) /\ c \in Cpus
  BY <1>1, TailFact
<1> QED
  BY <1>1, <1>2

(* The flag is set. *)
LEMMA StartedStep ==
  ASSUME SmpInv, Started
  PROVE  SmpInv'
<1> DEFINE c == Head(entries_left).id
           n == cpu_count
<1>1. /\ spc = "poll" /\ mail.flag = 1
      /\ UNCHANGED <<box, src, max_cpus, infos, mail, lapic, ap, mp_response>>
      /\ \/ spc' = "panic" /\ n' = n /\ entries_left' = entries_left
         \/ spc' = "walk" /\ n' = n + 1 /\ entries_left' = Tail(entries_left)
  BY DEF Started
<1>2. c \in Cpus /\ c # box.bsp /\ infos[n + 1] = c /\ n \in Nat /\ mail.slot = n + 1
      /\ \A i \in 1..n : infos[i] # c
  BY <1>1, PollFact
<1>3. box' \in Boxes /\ BspInv' /\ ResponseInv' /\ ModeInv'
  BY <1>1, Frame DEF Walking, Runs
<1>4. SmpType' /\ SlotInv' /\ OnceInv'
  <2>1. CASE spc' = "panic" /\ n' = n /\ entries_left' = entries_left
    BY <1>1, <2>1 DEF SmpInv, SmpType, SlotInv, OnceInv
  <2>2. CASE spc' = "walk" /\ n' = n + 1 /\ entries_left' = Tail(entries_left)
    <3>1. mail' \in [slot : Nat, flag : {0, 1}] /\ ap' \in [Cpus -> ApRec]
      BY <1>1 DEF SmpInv, SmpType
    <3> QED
      BY <1>1, <2>2, <3>1, DropKeeps
  <2> QED
    BY <1>1, <2>1, <2>2
<1> HIDE DEF c
<1>5. MailboxInv'
  <2> SUFFICES ASSUME ~Late PROVE MailboxInv'
    BY <1>1 DEF MailboxInv, Late
  <2>1. \A i \in 1..n : infos[i] # box.bsp => ap[infos[i]].st = "parked" /\ ap[infos[i]].slot = i
    BY DEF SmpInv, MailboxInv
  <2>2. ap[c].st = "parked"
    BY <1>1 DEF SmpInv, MailboxInv, c
  <2>3. ap[c].slot = n + 1
    BY <1>1, <1>2, <2>2 DEF SmpInv, MailboxInv
  <2>4. \A d \in Cpus : ap[d].st # "off" /\ d # c =>
          \/ ap[d].st = "kicked" /\ box.speed[d] = "dead"
          \/ ap[d].st = "parked" /\ ap[d].slot \in 1..n /\ infos[ap[d].slot] = d
    BY <1>1 DEF SmpInv, MailboxInv, c
  <2>5. CASE spc' = "panic" /\ n' = n
    BY <1>1, <2>1, <2>5 DEF MailboxInv
  <2>6. CASE spc' = "walk" /\ n' = n + 1
    <3>1. \A i \in 1..n + 1 : i \in 1..n \/ i = n + 1
      BY <1>2
    <3>2. \A i \in 1..n + 1 :
            infos[i] # box.bsp => ap[infos[i]].st = "parked" /\ ap[infos[i]].slot = i
      BY <1>2, <2>1, <2>2, <2>3, <3>1
    <3>3. \A i \in 1..n : i \in 1..n + 1
      BY <1>2
    <3>4. \A d \in Cpus : ap[d].st # "off" =>
            \/ ap[d].st = "kicked" /\ box.speed[d] = "dead"
            \/ ap[d].st = "parked" /\ ap[d].slot \in 1..n + 1 /\ infos[ap[d].slot] = d
      BY <1>2, <2>2, <2>3, <2>4, <3>3
    <3> QED
      BY <1>1, <2>6, <3>2, <3>4 DEF MailboxInv
  <2> QED
    BY <1>1, <2>5, <2>6
<1> QED
  BY <1>3, <1>4, <1>5 DEF SmpInv

(* The time is over. *)
LEMMA GaveUpStep ==
  ASSUME SmpInv, GaveUp
  PROVE  SmpInv'
<1> DEFINE c == Head(entries_left).id
<1>1. /\ spc = "poll" /\ box.speed[c] # "prompt" /\ spc' = "walk"
      /\ entries_left' = Tail(entries_left)
      /\ UNCHANGED <<box, src, max_cpus, cpu_count, infos, mail, lapic, ap, mp_response>>
  BY DEF GaveUp, Expired
<1>2. c \in Cpus
  BY <1>1, PollFact
<1>3. box' \in Boxes /\ BspInv' /\ ResponseInv' /\ ModeInv'
  BY <1>1, Frame DEF Walking, Runs
<1>4. SmpType' /\ SlotInv' /\ OnceInv'
  <2>1. mail' \in [slot : Nat, flag : {0, 1}] /\ ap' \in [Cpus -> ApRec]
    BY <1>1 DEF SmpInv, SmpType
  <2> QED
    BY <1>1, <2>1, DropKeeps
<1> HIDE DEF c
<1>5. MailboxInv'
  <2> SUFFICES ASSUME ~Late PROVE MailboxInv'
    BY <1>1 DEF MailboxInv, Late
  <2>1. box.speed[c] = "dead"
    BY <1>1, <1>2, SmpAssumption DEF SmpInv, Late
  <2>2. ap[c].st \in {"off", "kicked"}
    BY <1>2, <2>1 DEF SmpInv, SmpType, BspInv, Runs, ApRec
  <2>3. \A d \in Cpus : ap[d].st # "off" /\ d # c =>
          \/ ap[d].st = "kicked" /\ box.speed[d] = "dead"
          \/ ap[d].st = "parked" /\ ap[d].slot \in 1..cpu_count /\ infos[ap[d].slot] = d
    BY <1>1 DEF SmpInv, MailboxInv, c
  <2>4. \A i \in 1..cpu_count :
          infos[i] # box.bsp => ap[infos[i]].st = "parked" /\ ap[infos[i]].slot = i
    BY DEF SmpInv, MailboxInv
  <2> QED
    BY <1>1, <2>1, <2>2, <2>3, <2>4 DEF MailboxInv
<1> QED
  BY <1>3, <1>4, <1>5 DEF SmpInv

-----------------------------------------------------------------------------
(* The boot processor begins. *)

(* It opens a table that its architecture has, or goes on without one. *)
LEMMA InitFact ==
  ASSUME SmpInv, init_smp
  PROVE  /\ spc = "init" /\ UNCHANGED <<box, mail, ap, mp_response>>
         /\ \/ Leave("panic") \/ Leave("none")
            \/ \E s, x2 : /\ x2 \in BOOLEAN /\ Open(s, x2)
                          /\ s \in IF box.arch = "riscv" THEN {"harts"} ELSE {"acpi", "dtb"}
<1>1. box.want \in BOOLEAN /\ box.x2ok \in BOOLEAN
  BY SmpAssumption DEF SmpInv
<1>2. CASE InitX86
  BY <1>1, <1>2 DEF init_smp, InitX86, x2apic_check
<1>3. CASE InitRiscv
  BY <1>3 DEF init_smp, InitRiscv
<1>4. CASE InitArm
  BY <1>4 DEF init_smp, InitArm, TryDtb
<1>5. CASE InitLoong
  BY <1>5 DEF init_smp, InitLoong, TryDtb
<1> QED
  BY <1>2, <1>3, <1>4, <1>5 DEF init_smp

(* What happens to the APIC of the boot processor: firmware's x2APIC mode   *)
(* is left if it was not asked for, and entered if it was and is allowed.   *)
LEMMA InitApic ==
  ASSUME SmpInv, init_smp
  PROVE  /\ lapic' = [c \in Cpus |-> [mode |-> lapic'[c].mode, lvt |-> lapic'[c].lvt]]
         /\ box.arch = "x86" /\ spc' # "panic" =>
              /\ lapic'[box.bsp].mode = "x2" => box.want
              /\ spc' = "walk" /\ (box.fwx2 => box.x2ok) =>
                   (lapic'[box.bsp].mode = "x2" <=> box.want /\ box.x2ok)
<1>1. /\ box.bsp \in Cpus /\ box.want \in BOOLEAN /\ box.x2ok \in BOOLEAN /\ box.fwx2 \in BOOLEAN
      /\ box.fwx2 => box.haslapic
      /\ lapic = [c \in Cpus |-> [mode |-> lapic[c].mode, lvt |-> lapic[c].lvt]]
      /\ lapic[box.bsp].mode = IF box.fwx2 THEN "x2" ELSE "x"
  BY SmpAssumption DEF SmpInv, ModeInv, init_smp
<1>2. CASE lapic' = lapic /\ (box.arch # "x86" \/ spc' = "panic")
  BY <1>1, <1>2
<1>5. CASE lapic' = lapic /\ spc' = "none" /\ ~box.haslapic
  BY <1>1, <1>5
<1>3. CASE box.arch = "x86" /\ box.haslapic /\ ~(Reverts /\ box.locked) /\ InitX86
  <2> DEFINE l == lapic[box.bsp]
             base == IF Reverts THEN x2apic_disable(l) ELSE l
             x2 == box.want /\ box.x2ok
  <2>1. l = [mode |-> l.mode, lvt |-> l.lvt]
    BY <1>1
  <2>2. PICK m, v : base = [mode |-> m, lvt |-> v] /\ m = (IF Reverts THEN "x" ELSE l.mode)
    <3>1. CASE Reverts
      BY <3>1 DEF x2apic_disable
    <3>2. CASE ~Reverts
      BY <2>1, <3>2
    <3> QED
      BY <3>1, <3>2
  <2>3. x2apic_enable(base) = [mode |-> "x2", lvt |-> v]
    BY <2>2 DEF x2apic_enable
  <2>4. \/ spc' = "none" /\ lapic' = [lapic EXCEPT ![box.bsp] = base]
        \/ lapic' = [lapic EXCEPT ![box.bsp] = IF x2 THEN x2apic_enable(base) ELSE base]
    BY <1>3 DEF InitX86, Leave, lapic_check, x2apic_check
  <2> HIDE DEF base
  <2>5. ASSUME NEW k, lapic' = [lapic EXCEPT ![box.bsp] = [mode |-> k, lvt |-> v]]
        PROVE  /\ lapic'[box.bsp].mode = k
               /\ lapic' = [c \in Cpus |-> [mode |-> lapic'[c].mode, lvt |-> lapic'[c].lvt]]
    BY <1>1, <2>5
  <2>6. CASE spc' = "none" /\ lapic' = [lapic EXCEPT ![box.bsp] = base]
    BY <1>1, <2>2, <2>5, <2>6 DEF Reverts
  <2>7. CASE lapic' = [lapic EXCEPT ![box.bsp] = IF x2 THEN x2apic_enable(base) ELSE base]
    <3>1. CASE x2
      <4>1. lapic' = [lapic EXCEPT ![box.bsp] = [mode |-> "x2", lvt |-> v]]
        BY <2>3, <2>7, <3>1
      <4> QED
        BY <2>5, <3>1, <4>1
    <3>2. CASE ~x2
      <4>1. lapic' = [lapic EXCEPT ![box.bsp] = [mode |-> m, lvt |-> v]]
        BY <2>2, <2>7, <3>2
      <4>2. m = "x2" => box.want /\ box.fwx2
        BY <1>1, <2>2 DEF Reverts
      <4> QED
        BY <1>1, <2>5, <3>2, <4>1, <4>2
    <3> QED
      BY <3>1, <3>2
  <2> QED
    BY <2>4, <2>6, <2>7
<1>4. \/ lapic' = lapic /\ (box.arch # "x86" \/ spc' = "panic")
      \/ lapic' = lapic /\ spc' = "none" /\ ~box.haslapic
      \/ box.arch = "x86" /\ box.haslapic /\ ~(Reverts /\ box.locked) /\ InitX86
  BY DEF init_smp, InitX86, InitRiscv, InitArm, InitLoong, Leave, lapic_check
<1> QED
  BY <1>2, <1>3, <1>4, <1>5

(* init_smp reads what the machine has. *)
LEMMA InitStep ==
  ASSUME SmpInv, init_smp
  PROVE  SmpInv'
<1>1. /\ spc = "init" /\ UNCHANGED <<box, mail, ap, mp_response>> /\ cpu_count = 0
      /\ mp_response = NoResponse /\ box \in Boxes /\ \A c \in Cpus : ap[c].st = "off"
  BY InitFact DEF SmpInv, ResponseInv, ModeInv
<1>2. /\ SmpType' /\ SlotInv' /\ OnceInv' /\ spc' \in {"panic", "none", "walk"}
      /\ cpu_count' = 0
  <2>1. CASE Leave("panic") \/ Leave("none")
    <3>1. spc' \in {"panic", "none"} /\ UNCHANGED <<src, entries_left, max_cpus, cpu_count, infos>>
      BY <2>1 DEF Leave
    <3> QED
      BY <1>1, <3>1 DEF SmpInv, SmpType, SlotInv, OnceInv
  <2>2. CASE \E s, x2 : /\ x2 \in BOOLEAN /\ Open(s, x2)
                        /\ s \in IF box.arch = "riscv" THEN {"harts"} ELSE {"acpi", "dtb"}
    <3>1. PICK s, x2 : /\ x2 \in BOOLEAN /\ Open(s, x2)
                       /\ s \in IF box.arch = "riscv" THEN {"harts"} ELSE {"acpi", "dtb"}
      BY <2>2
    <3>2. /\ spc' = "walk" /\ src' = s /\ cpu_count' = 0 /\ infos' = <<>>
          /\ entries_left' \in Seq(CpuEntry) /\ Distinct(entries_left')
          /\ max_cpus' = Len(entries_left') /\ max_cpus' \in Nat
      BY <1>1, <3>1, OpenFact
    <3> QED
      BY <1>1, <3>1, <3>2 DEF SmpInv, SmpType, SlotInv, OnceInv
  <2> QED
    BY <2>1, <2>2, InitFact
<1>3. MailboxInv'
  BY <1>1, <1>2 DEF MailboxInv
<1>4. BspInv'
  BY <1>1 DEF SmpInv, BspInv, Runs
<1>5. ResponseInv'
  BY <1>1, <1>2 DEF ResponseInv
<1>6. ModeInv'
  <2>1. \A c \in Cpus : ~Runs(c)'
    BY <1>1 DEF Runs
  <2> QED
    BY <1>1, <1>2, <2>1, InitApic DEF ModeInv
<1> QED
  BY <1>1, <1>2, <1>3, <1>4, <1>5, <1>6 DEF SmpInv

-----------------------------------------------------------------------------
(* The kernel is entered. *)

(* Masking the local vector table leaves the mode alone. *)
LEMMA ApicFact ==
  ASSUME NEW l, NEW p, l = [mode |-> l.mode, lvt |-> l.lvt]
  PROVE  \E v : lapic_configure_handoff_state(l, p) = [mode |-> l.mode, lvt |-> v]
<1> DEFINE v == [r \in Lvts |->
             IF ~Present(r) \/ ~lvt_should_mask(l.lvt[r]) THEN l.lvt[r]
             ELSE IF r \in Pins /\ p[r] # NoLint THEN p[r]
             ELSE [l.lvt[r] EXCEPT !.masked = TRUE]]
<1>1. lapic_configure_handoff_state(l, p) = [l EXCEPT !.lvt = v]
  BY Zenon DEF lapic_configure_handoff_state
<1> HIDE DEF v
<1>2. [l EXCEPT !.lvt = v] = [mode |-> l.mode, lvt |-> v]
  OBVIOUS
<1> QED
  BY <1>1, <1>2

LEMMA HandoffApic ==
  ASSUME SmpInv, Handoff
  PROVE  /\ lapic' = [c \in Cpus |-> [mode |-> lapic'[c].mode, lvt |-> lapic'[c].lvt]]
         /\ \A c \in Cpus : lapic'[c].mode = lapic[c].mode
<1>1. /\ box.bsp \in Cpus
      /\ lapic = [c \in Cpus |-> [mode |-> lapic[c].mode, lvt |-> lapic[c].lvt]]
  BY SmpAssumption DEF SmpInv, ModeInv
<1>2. CASE lapic' = lapic
  BY <1>1, <1>2
<1>3. ASSUME NEW p,
             lapic' = [lapic EXCEPT ![box.bsp] = lapic_configure_handoff_state(@, p)]
      PROVE  /\ lapic' = [c \in Cpus |-> [mode |-> lapic'[c].mode, lvt |-> lapic'[c].lvt]]
             /\ \A c \in Cpus : lapic'[c].mode = lapic[c].mode
  <2> DEFINE l == lapic[box.bsp]
             w == lapic_configure_handoff_state(l, p)
  <2>1. lapic' = [lapic EXCEPT ![box.bsp] = w]
    BY <1>3
  <2>2. l = [mode |-> l.mode, lvt |-> l.lvt]
    BY <1>1
  <2>3. PICK v : w = [mode |-> l.mode, lvt |-> v]
    BY <2>2, ApicFact
  <2> HIDE DEF w
  <2>4. lapic' = [lapic EXCEPT ![box.bsp] = [mode |-> lapic[box.bsp].mode, lvt |-> v]]
    BY <2>1, <2>3
  <2> QED
    BY <1>1, <2>4
<1>4. \/ lapic' = lapic
      \/ \E p : lapic' = [lapic EXCEPT ![box.bsp] = lapic_configure_handoff_state(@, p)]
  BY DEF Handoff
<1> QED
  BY <1>2, <1>3, <1>4

(* The response is made of the slots in use. *)
LEMMA HandoffStep ==
  ASSUME SmpInv, Handoff
  PROVE  SmpInv'
<1>1. /\ spc \in {"answer", "none"} /\ spc' = "kernel" /\ box \in Boxes /\ box.bsp \in Cpus
      /\ UNCHANGED <<box, src, entries_left, max_cpus, cpu_count, infos, mail, ap>>
  BY SmpAssumption DEF Handoff, SmpInv
<1>2. mp_response' = IF spc = "none" THEN NoResponse
                     ELSE [cpus |-> SubSeq(infos, 1, cpu_count),
                           x2 |-> box.arch = "x86" /\ box.want /\ box.x2ok, given |-> TRUE]
  BY DEF Handoff, x2apic_check
<1>3. SmpType' /\ SlotInv' /\ OnceInv' /\ BspInv'
  BY <1>1 DEF SmpInv, SmpType, SlotInv, OnceInv, BspInv, Runs
<1>4. MailboxInv'
  BY <1>1, <1>3, MailboxRests DEF SmpInv, SmpType
<1>5. ResponseInv'
  BY <1>1, <1>2 DEF ResponseInv, NoResponse
<1>6. ModeInv'
  <2>1. mp_response'.given => spc = "answer"
    BY <1>1, <1>2 DEF NoResponse
  <2>2. \A c \in Cpus : Runs(c)' <=> Runs(c)
    BY <1>1 DEF Runs
  <2> QED
    BY <1>1, <2>1, <2>2, HandoffApic DEF SmpInv, ModeInv
<1> QED
  BY <1>1, <1>3, <1>4, <1>5, <1>6 DEF SmpInv


-----------------------------------------------------------------------------
(* A processor runs the trampoline. *)

(* It is the one the boot processor waits for, unless one may be late. *)
LEMMA AloneFact ==
  ASSUME SmpInv, ~Late, NEW c \in Cpus, ap[c].st \in {"kicked", "up", "told"},
         box.speed[c] # "dead"
  PROVE  /\ \/ spc = "panic"
            \/ /\ spc = "poll" /\ c = Head(entries_left).id /\ mail.flag # 1
               /\ ap[c].st = "told" => ap[c].slot = mail.slot
         /\ \A i \in 1..cpu_count : infos[i] # box.bsp => infos[i] # c
BY DEF SmpInv, MailboxInv

LEMMA MailboxMoves ==
  ASSUME SmpInv, NEW c \in Cpus, ap[c].st \in {"kicked", "up", "told"}, box.speed[c] # "dead",
         UNCHANGED <<box, spc, entries_left, cpu_count, infos>>, mail'.slot = mail.slot,
         \A d \in Cpus : d # c => ap'[d] = ap[d],
         \/ ap'[c].st = "up" /\ mail'.flag = mail.flag
         \/ ap'[c].st = "told" /\ ap'[c].slot = mail.slot /\ mail'.flag = mail.flag
         \/ ap[c].st = "told" /\ ap'[c].st = "parked" /\ ap'[c].slot = ap[c].slot
  PROVE  MailboxInv'
<1> SUFFICES ASSUME ~Late PROVE MailboxInv'
  BY DEF MailboxInv, Late
<1>1. \/ spc = "panic"
      \/ /\ spc = "poll" /\ c = Head(entries_left).id /\ mail.flag # 1
         /\ ap[c].st = "told" => ap[c].slot = mail.slot
  BY AloneFact
<1>2. ASSUME NEW i \in 1..cpu_count, infos[i] # box.bsp
      PROVE  ap'[infos[i]].st = "parked" /\ ap'[infos[i]].slot = i
  <2>1. ap[infos[i]].st = "parked" /\ ap[infos[i]].slot = i
    BY <1>2 DEF SmpInv, MailboxInv
  <2>2. infos[i] \in Cpus /\ infos[i] # c
    BY <2>1 DEF SmpInv, SmpType, SlotInv
  <2> QED
    BY <2>1, <2>2
<1>3. ASSUME NEW d \in Cpus, ap'[d].st # "off"
      PROVE  \/ ap'[d].st = "kicked" /\ box.speed[d] = "dead"
             \/ ap'[d].st = "parked" /\ ap'[d].slot \in 1..cpu_count /\ infos[ap'[d].slot] = d
             \/ /\ spc = "poll" /\ d = Head(entries_left).id
                /\ ap'[d].st \in {"told", "parked"} => ap'[d].slot = mail'.slot
             \/ spc = "panic"
  <2>1. CASE d = c
    BY <1>1, <2>1
  <2>2. CASE d # c
    <3>1. ap'[d] = ap[d]
      BY <2>2
    <3> QED
      BY <1>3, <3>1 DEF SmpInv, MailboxInv
  <2> QED
    BY <2>1, <2>2
<1>4. spc = "poll" /\ mail'.flag = 1 => ap'[Head(entries_left).id].st = "parked"
  BY <1>1
<1> QED
  BY <1>2, <1>3, <1>4 DEF MailboxInv

(* Setting up, taking the slot out of the mailbox, and reporting. *)
LEMMA TrampolineStep ==
  ASSUME SmpInv, NEW c \in Cpus, Trampoline(c)
  PROVE  SmpInv'
<1>1. /\ box \in Boxes /\ box.bsp \in Cpus /\ ap \in [Cpus -> ApRec]
      /\ mail \in [slot : Nat, flag : {0, 1}] /\ ap[box.bsp].st = "off"
  BY SmpAssumption DEF SmpInv, SmpType, BspInv
<1>2. /\ ap[c].st \in {"kicked", "up", "told"} /\ box.speed[c] # "dead"
      /\ UNCHANGED <<box, spc, src, entries_left, max_cpus, cpu_count, infos, mp_response>>
  BY DEF Trampoline, Setup, TakeSlot, Report, SmpInv, BspInv, Runs
<1>3. /\ ap' \in [Cpus -> ApRec] /\ mail' \in [slot : Nat, flag : {0, 1}]
      /\ mail'.slot = mail.slot
      /\ \A d \in Cpus : d # c => ap'[d] = ap[d]
      /\ \/ ap'[c].st = "up" /\ mail'.flag = mail.flag
         \/ ap'[c].st = "told" /\ ap'[c].slot = mail.slot /\ mail'.flag = mail.flag
         \/ ap[c].st = "told" /\ ap'[c].st = "parked" /\ ap'[c].slot = ap[c].slot
  <2>1. CASE Setup(c)
    BY <1>1, <2>1 DEF Setup, ApRec
  <2>2. CASE TakeSlot(c)
    BY <1>1, <2>2 DEF TakeSlot, ApRec
  <2>3. CASE Report(c)
    BY <1>1, <2>3 DEF Report, ApRec
  <2> QED
    BY <2>1, <2>2, <2>3 DEF Trampoline
<1>4. c # box.bsp
  BY <1>1, <1>2
<1>5. MailboxInv'
  BY <1>2, <1>3, MailboxMoves
<1>6. spc = "poll" => mail'.slot = cpu_count + 1
  BY <1>3 DEF SmpInv, SlotInv
<1>7. SmpType' /\ SlotInv' /\ OnceInv'
  BY <1>2, <1>3, <1>6 DEF SmpInv, SmpType, SlotInv, OnceInv
<1>8. BspInv'
  BY <1>1, <1>2, <1>3, <1>4 DEF SmpInv, BspInv, Runs
<1>9. ResponseInv'
  BY <1>2 DEF SmpInv, ResponseInv
<1>10. ModeInv'
  <2>1. lapic = [d \in Cpus |-> [mode |-> lapic[d].mode, lvt |-> lapic[d].lvt]] /\ spc # "init"
    BY <1>2 DEF SmpInv, ModeInv
  <2>2. \A d \in Cpus : d # c => (Runs(d)' <=> Runs(d))
    BY <1>3 DEF Runs
  <2>3. CASE lapic' = lapic /\ (box.arch # "x86" \/ Runs(c))
    BY <1>2, <2>1, <2>2, <2>3 DEF SmpInv, ModeInv
  <2>4. CASE /\ box.arch = "x86"
             /\ \E v : lapic' = [lapic EXCEPT ![c] = [mode |-> lapic[box.bsp].mode, lvt |-> v]]
    <3>1. PICK v : lapic' = [lapic EXCEPT ![c] = [mode |-> lapic[box.bsp].mode, lvt |-> v]]
      BY <2>4
    <3>2. /\ lapic' = [d \in Cpus |-> [mode |-> lapic'[d].mode, lvt |-> lapic'[d].lvt]]
          /\ lapic'[c].mode = lapic[box.bsp].mode
          /\ \A d \in Cpus : d # c => lapic'[d] = lapic[d]
      BY <2>1, <3>1
    <3> QED
      BY <1>1, <1>2, <1>4, <2>1, <2>2, <3>2 DEF SmpInv, ModeInv
  <2>5. CASE Setup(c) /\ box.arch = "x86"
    <3> DEFINE l == [mode |-> lapic[box.bsp].mode, lvt |-> lapic[c].lvt]
    <3>1. lapic' = [lapic EXCEPT ![c] =
                     IF box.rev5 THEN lapic_configure_handoff_state(l, pending) ELSE l]
      BY <2>5 DEF Setup
    <3>2. l = [mode |-> l.mode, lvt |-> l.lvt] /\ l.mode = lapic[box.bsp].mode
      OBVIOUS
    <3>3. PICK v : lapic_configure_handoff_state(l, pending) = [mode |-> l.mode, lvt |-> v]
      BY <3>2, ApicFact
    <3> QED
      BY <2>4, <2>5, <3>1, <3>2, <3>3
  <2>6. CASE ~(Setup(c) /\ box.arch = "x86")
    BY <2>3, <2>6 DEF Trampoline, Setup, TakeSlot, Report, Runs
  <2> QED
    BY <2>5, <2>6
<1> QED
  BY <1>1, <1>2, <1>5, <1>7, <1>8, <1>9, <1>10 DEF SmpInv

-----------------------------------------------------------------------------
LEMMA SmpInitial == SInit => SmpInv
<1> SUFFICES ASSUME SInit PROVE SmpInv
  OBVIOUS
<1>1. /\ box \in Boxes /\ box.bsp \in Cpus /\ spc = "init" /\ src = "none"
      /\ entries_left = <<>> /\ max_cpus = 0 /\ cpu_count = 0 /\ infos = <<>>
      /\ mail = [slot |-> 0, flag |-> 0] /\ ap = [c \in Cpus |-> [st |-> "off", slot |-> 0]]
      /\ mp_response = NoResponse
  BY SmpAssumption DEF SInit
<1>2. SmpType /\ SlotInv /\ OnceInv /\ BspInv /\ MailboxInv /\ ResponseInv
  BY <1>1 DEF SmpType, SlotInv, OnceInv, BspInv, MailboxInv, ResponseInv, ApRec, Runs, Distinct
<1>3. /\ lapic = [c \in Cpus |-> [mode |-> lapic[c].mode, lvt |-> lapic[c].lvt]]
      /\ \A c \in Cpus : lapic[c].mode = IF box.fwx2 THEN "x2" ELSE "x"
  <2> DEFINE v(c) == IF c = box.bsp THEN box.lvt ELSE ResetLvt
             m == IF box.fwx2 THEN "x2" ELSE "x"
  <2>1. lapic = [c \in Cpus |-> [mode |-> m, lvt |-> v(c)]]
    BY DEF SInit
  <2> HIDE DEF v, m
  <2>2. /\ lapic = [c \in Cpus |-> [mode |-> lapic[c].mode, lvt |-> lapic[c].lvt]]
        /\ \A c \in Cpus : lapic[c].mode = m
    BY <2>1
  <2> QED
    BY <2>2 DEF m
<1>4. ModeInv
  BY <1>1, <1>3 DEF ModeInv, Runs
<1> QED
  BY <1>1, <1>2, <1>4 DEF SmpInv

LEMMA SmpStep == SmpInv /\ [SNext]_smpvars => SmpInv'
<1> SUFFICES ASSUME SmpInv, [SNext]_smpvars PROVE SmpInv'
  OBVIOUS
<1>1. CASE init_smp
  BY <1>1, InitStep
<1>2. CASE WalkEntry
  BY <1>2, WalkStep
<1>3. CASE StartX86 \/ StartArm \/ StartRiscv \/ StartLoong
  BY <1>3, KickStep
<1>4. CASE Started
  BY <1>4, StartedStep
<1>5. CASE WalkEnd
  BY <1>5, WalkEndStep
<1>6. CASE Handoff
  BY <1>6, HandoffStep
<1>7. CASE GaveUp
  BY <1>7, GaveUpStep
<1>8. ASSUME NEW c \in Cpus, Trampoline(c) PROVE SmpInv'
  BY <1>8, TrampolineStep
<1>9. CASE UNCHANGED smpvars
  <2>1. UNCHANGED <<box, spc, src, entries_left, max_cpus, cpu_count, infos, mail, lapic, ap,
                    mp_response>>
    BY <1>9 DEF smpvars
  <2>2. SmpType' /\ SlotInv' /\ OnceInv' /\ BspInv' /\ ResponseInv'
    BY <2>1 DEF SmpInv, SmpType, SlotInv, OnceInv, BspInv, ResponseInv, Runs
  <2>3. MailboxInv' /\ ModeInv'
    BY <2>1 DEF SmpInv, MailboxInv, ModeInv, Late, Runs
  <2> QED
    BY <2>1, <2>2, <2>3 DEF SmpInv
<1> QED
  BY <1>1, <1>2, <1>3, <1>4, <1>5, <1>6, <1>7, <1>8, <1>9 DEF SNext, Bsp

(* The array of processors, the mailbox and the APIC modes stay in order   *)
(* under every interleaving of the boot processor with the processors it   *)
(* has started (init_smp, smp_start_ap, the trampolines).                  *)
THEOREM SmpInvariant == SSpec => []SmpInv
BY SmpInitial, SmpStep, PTL DEF SSpec

(* The array sized by the counting walk holds whatever the starting walk    *)
(* writes, the slot of a processor that fails to start included (smp.c).    *)
THEOREM SlotsAlwaysFit == SSpec => []SlotsFit
<1>1. SmpInv => SlotsFit
  BY DEF SmpInv, SlotInv, SlotsFit
<1> QED
  BY <1>1, SmpInvariant, PTL

(* Unless a processor answers after it was given up, the response lists the *)
(* boot processor and the parked ones once, each on its own slot, for any   *)
(* number of processors that are dead or refuse (limine_load, smp_start_ap). *)
THEOREM ListIsExact == SSpec => []ListExact
<1>1. SmpInv => ListExact
  <2> SUFFICES ASSUME SmpInv, spc = "kernel", ~Late, mp_response.given PROVE ListExact
    BY DEF ListExact
  <2> DEFINE l == mp_response.cpus
             n == cpu_count
             parked == {c \in Cpus : ap[c].st = "parked"}
  <2>1. /\ l = SubSeq(infos, 1, n) /\ n \in Nat /\ infos \in Seq(Cpus) /\ n <= Len(infos)
    BY DEF SmpInv, ResponseInv, SmpType, SlotInv
  <2>2. Len(l) = n /\ \A i \in 1..n : l[i] = infos[i] /\ infos[i] \in Cpus
    BY <2>1
  <2>3. DOMAIN l = 1..n
    BY <2>1, <2>2
  <2> HIDE DEF l
  <2>4. \A i, j \in 1..n : l[i] = l[j] => i = j
    BY <2>2 DEF SmpInv, OnceInv
  <2>5. \A i \in 1..n : l[i] # box.bsp => l[i] \in parked
    BY <2>2 DEF SmpInv, MailboxInv
  <2>6. \A c \in parked : c # box.bsp /\ ap[c].slot \in 1..n /\ l[ap[c].slot] = c
    <3> TAKE c \in parked
    <3>1. c # box.bsp
      BY DEF SmpInv, BspInv
    <3>2. ap[c].slot \in 1..n /\ infos[ap[c].slot] = c
      BY DEF SmpInv, MailboxInv
    <3> QED
      BY <2>2, <3>1, <3>2
  <2>7. Range(l) = {l[i] : i \in 1..n}
    BY <2>3, Zenon DEF Range
  <2>8. Range(l) \ {box.bsp} = parked
    <3> HIDE DEF parked
    <3> QED
      BY <2>5, <2>6, <2>7
  <2> QED
    BY <2>2, <2>4, <2>6, <2>8 DEF ListExact, l
<1> QED
  BY <1>1, SmpInvariant, PTL

(* The kernel finds the local APICs in the mode it is told (init_smp,       *)
(* limine_load).                                                            *)
THEOREM ModeIsTold == SSpec => []ModeTold
<1>1. SmpInv => ModeTold
  <2> SUFFICES ASSUME SmpInv, spc = "kernel", box.arch = "x86", box.fwx2 => box.x2ok
               PROVE  ModeTold
    BY DEF ModeTold
  <2>1. \A c \in Cpus : ap[c].st = "parked" => lapic[c].mode = lapic[box.bsp].mode
    BY DEF SmpInv, ModeInv, Runs
  <2>2. lapic[box.bsp].mode = "x2" => box.want
    BY DEF SmpInv, ModeInv
  <2>3. mp_response.given => (mp_response.x2 <=> lapic[box.bsp].mode = "x2")
    <3>1. mp_response.given => (lapic[box.bsp].mode = "x2" <=> box.want /\ box.x2ok)
      BY DEF SmpInv, ModeInv
    <3>2. mp_response.given => mp_response.x2 = (box.arch = "x86" /\ box.want /\ box.x2ok)
      BY DEF SmpInv, ResponseInv
    <3> QED
      BY <3>1, <3>2
  <2> QED
    BY <2>1, <2>2, <2>3 DEF ModeTold
<1> QED
  BY <1>1, SmpInvariant, PTL

(* Reverting to xAPIC mode leaves what the firmware had put into the local *)
(* vector table of the boot processor (x2apic_disable).                    *)
THEOREM RevertsKeep == SSpec => [][RevertKeeps]_smpvars
<1>1. SmpInv /\ [SNext]_smpvars => [RevertKeeps]_smpvars
  <2> SUFFICES ASSUME SmpInv, SNext, lapic[box.bsp].mode = "x2", lapic'[box.bsp].mode = "x"
               PROVE  \A r \in Lvts : Present(r) => lapic'[box.bsp].lvt[r] = lapic[box.bsp].lvt[r]
    BY DEF RevertKeeps
  <2> DEFINE l == lapic[box.bsp]
  <2>1. /\ box.bsp \in Cpus /\ ap[box.bsp].st = "off"
        /\ lapic = [c \in Cpus |-> [mode |-> lapic[c].mode, lvt |-> lapic[c].lvt]]
    BY SmpAssumption DEF SmpInv, BspInv, ModeInv
  <2>2. lapic' # lapic
    OBVIOUS
  <2>3. CASE InitX86
    <3>1. CASE ~Reverts
      <4>1. \/ lapic' = lapic \/ lapic' = [lapic EXCEPT ![box.bsp] = l]
            \/ lapic' = [lapic EXCEPT ![box.bsp] = x2apic_enable(l)]
        BY <2>3, <3>1 DEF InitX86
      <4> QED
        BY <2>1, <2>2, <4>1 DEF x2apic_enable
    <3>2. CASE Reverts
      <4> DEFINE s == Saved(l)
      <4>1. lapic' = [lapic EXCEPT ![box.bsp] = [mode |-> "x", lvt |-> s]]
        BY <2>2, <2>3, <3>2 DEF InitX86, Reverts, x2apic_disable
      <4>2. \A r \in Lvts : Present(r) => s[r] = l.lvt[r]
        BY DEF Saved
      <4> HIDE DEF s
      <4>3. lapic'[box.bsp].lvt = s
        BY <2>1, <4>1
      <4> QED
        BY <4>2, <4>3
    <3> QED
      BY <3>1, <3>2
  <2>4. CASE Handoff
    BY <2>1, <2>4, HandoffApic
  <2>5. ASSUME NEW c \in Cpus, Trampoline(c) PROVE lapic'[box.bsp] = lapic[box.bsp]
    BY <2>1, <2>5 DEF Trampoline, Setup, TakeSlot, Report
  <2>6. CASE init_smp /\ ~InitX86
    BY <2>2, <2>6 DEF init_smp, InitRiscv, InitArm, InitLoong
  <2>7. CASE WalkEntry
    BY <2>2, <2>7, WalkFact
  <2>8. CASE StartX86 \/ StartArm \/ StartRiscv \/ StartLoong
    BY <2>2, <2>8, KickFact
  <2>9. CASE Started \/ WalkEnd \/ GaveUp
    BY <2>2, <2>9 DEF Started, WalkEnd, GaveUp
  <2> QED
    BY <2>3, <2>4, <2>5, <2>6, <2>7, <2>8, <2>9 DEF SNext, Bsp
<1> QED
  BY <1>1, SmpInvariant, PTL DEF SSpec
=============================================================================

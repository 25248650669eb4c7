---------------------------- MODULE HostInstall ----------------------------
(***************************************************************************)
(* `limine bios-install` (host/limine.c): the one-block write-back cache,  *)
(* the record of overwritten data, the conversion of an ISOHYBRID's GPT to *)
(* an MBR, the checks, the five writes of the install, the undo of a       *)
(* failed install and the later --uninstall run.                           *)
(*                                                                         *)
(* Block 0 is a record of the fields the installer tells apart; any other  *)
(* block is [all |-> content].  A device of Devices is                     *)
(*   disk          its blocks                                              *)
(*   gpt           "primary", "alternate" or "none": what gpt_locate_header*)
(*                 finds (module PartTable)                                *)
(*   alt, hdr      the alternate the header names, the header's own block  *)
(*   first, last   the usable blocks                                       *)
(*   iso           whether an ISO 9660 signature is there                  *)
(*   parts         the used entries [bios, first, last, conv, low]         *)
(***************************************************************************)
EXTENDS Integers, Sequences, SequencesExt, FiniteSets, FiniteSetsExt

CONSTANTS Devices, Options,   \* Options: [force, convert, index, file]
          Reserve,            \* blocks UEFI reserves for an entry array
          Stage2,             \* blocks of stage 2
          Gap,                \* blocks between the MBR and sector 63
          MaxFaults           \* failed reads and writes of a behaviour

VARIABLES dv,        \* [disk, cache, blk, dirty, faults, skipped]
          given, opt, hpc, plan, undo, stored, status, torn, touched, undoOk, faulted

hvars == <<dv, given, opt, hpc, plan, undo, stored, status, torn, touched, undoOk, faulted>>

NoBlock == -1
Zeroed(b) == [f \in DOMAIN given.disk[b] |-> "zero"]
DiskEnd == Max(DOMAIN given.disk)

-----------------------------------------------------------------------------
(* The device.  An operator ending in Out is the set of its outcomes       *)
(* [d, ok]; a transfer may fail while faults are left, and a failed write  *)
(* may have reached the disk.                                              *)
Fault(d) == [d EXCEPT !.faults = @ - 1]
Written(d) == [d EXCEPT !.disk[d.blk] = d.cache]

FlushOut(d) ==
  IF ~d.dirty THEN {[d |-> d, ok |-> TRUE]}
  ELSE {[d |-> [Written(d) EXCEPT !.dirty = FALSE], ok |-> TRUE]}
       \cup (IF d.faults = 0 THEN {}
             ELSE {[d |-> Fault(d), ok |-> FALSE], [d |-> Fault(Written(d)), ok |-> FALSE]})

ReadBlock(d, b) ==
  {[d |-> [d EXCEPT !.cache = d.disk[b], !.blk = b], ok |-> TRUE]}
  \cup (IF d.faults = 0 THEN {} ELSE {[d |-> [Fault(d) EXCEPT !.blk = NoBlock], ok |-> FALSE]})

device_cache_block(d, b) ==
  IF d.blk = b THEN {[d |-> d, ok |-> TRUE]}
  ELSE UNION {IF x.ok THEN ReadBlock(x.d, b) ELSE {x} : x \in FlushOut(d)}

(* A write is a sequence of chunks [b, new], new giving fields of block b. *)
ReadRaw(d, w) ==
  FoldLeft(LAMBDA xs, c :
             UNION {IF ~x.ok THEN {x}
                    ELSE {[d |-> y.d, ok |-> y.ok,
                           old |-> IF y.ok THEN Append(x.old, [b |-> c.b, new |-> Restrict(y.d.cache, DOMAIN c.new)])
                                   ELSE x.old] : y \in device_cache_block(x.d, c.b)} : x \in xs},
           {[d |-> d, ok |-> TRUE, old |-> <<>>]}, w)

PutRaw(d, w) ==
  FoldLeft(LAMBDA xs, c :
             UNION {IF ~x.ok THEN {x}
                    ELSE {[d |-> IF y.ok THEN [y.d EXCEPT !.dirty = TRUE,
                                 !.cache = [f \in DOMAIN @ |-> IF f \in DOMAIN c.new THEN c.new[f] ELSE @[f]]]
                                 ELSE y.d, ok |-> y.ok] : y \in device_cache_block(x.d, c.b)} : x \in xs},
           {[d |-> d, ok |-> TRUE]}, w)

(* device_write_raw: what it overwrites is read first, and counts as saved *)
(* only when the whole write went well.                                    *)
device_write_raw(d, w) ==
  UNION {IF ~r.ok THEN {[d |-> r.d, ok |-> FALSE, old |-> <<>>]}
         ELSE {[d |-> p.d, ok |-> p.ok, old |-> r.old] : p \in PutRaw(r.d, w)} : r \in ReadRaw(d, w)}

One(b, new) == <<[b |-> b, new |-> new]>>
Field(f, v) == One(0, [g \in {f} |-> v])

-----------------------------------------------------------------------------
Goto(l) == hpc' = l
(* To cleanup: the record of the old data is reversed and uninstall() runs *)
(* with the cache dropped.                                                 *)
FailWith(d) == Goto("undo") /\ status' = "failed" /\ undo' = Reverse(undo)
               /\ dv' = [d EXCEPT !.dirty = FALSE, !.blk = NoBlock]
Fail == FailWith(dv)
(* A device_read of a check that fails. *)
ReadFails == dv.faults > 0 /\ FailWith(Fault(dv)) /\ faulted' = TRUE
(* The cache after reads that are not followed one by one: nothing is      *)
(* dirty yet, and whichever block is wanted next is read.                  *)
Looked(d) == [d EXCEPT !.blk = NoBlock]
Same(vs) == UNCHANGED <<given, opt, stored, vs>>
Touch(d) == touched' = (touched \/ d.disk # given.disk) /\ faulted' = (faulted \/ d.faults # dv.faults)

(* A read error during the search only hides the table. *)
PickPlace ==
  /\ hpc = "locate"
  /\ \/ Goto(IF given.gpt = "none" THEN "mbr" ELSE "convert") /\ dv' = Looked(dv) /\ UNCHANGED faulted
     \/ /\ given.gpt # "none" /\ dv.faults > 0
        /\ dv' = Looked(Fault(dv)) /\ faulted' = TRUE /\ Goto("mbr")
  /\ Same(<<plan, undo, status, torn, touched, undoOk>>)

(* What is erased: the protective MBR, the header and the array at the     *)
(* front; every alternate whose probe shows the signature at the end, back *)
(* to the last usable block.  An alternate whose probe fails is passed     *)
(* over without a word.                                                    *)
AlternatesNamed ==
  LET named == IF given.gpt = "alternate" THEN given.hdr ELSE given.alt
  IN {a \in {named, DiskEnd} : a >= 1 + Reserve}

Alternates(skipped) == {a \in AlternatesNamed \ skipped : given.disk[a].all = "hdr"}

WipeFrom(a) == Max({a - Reserve, given.last + 1})

Wipes(skipped) ==
  LET front == [i \in 1 .. Min({given.first, 2 + Reserve}) |-> One(i - 1, Zeroed(i - 1))]
      back(a) == [i \in 1 .. a - WipeFrom(a) + 1 |-> One(WipeFrom(a) + i - 1, Zeroed(WipeFrom(a) + i - 1))]
  IN front \o FoldLeft(LAMBDA s, a : s \o back(a), <<>>, SetToSeq(Alternates(skipped)))

TooLow == \E i \in DOMAIN given.parts : given.parts[i].low

(* The id, the entries, the signature: single bytes in the code, one write *)
(* each here, for block 0 stays cached from the first to the last.         *)
MbrWrites ==
  <<Field("id", "guid")>>
  \o (IF given.parts = <<>> THEN <<>> ELSE <<Field("p", IF \E i \in DOMAIN given.parts : given.parts[i].low THEN "low" ELSE "converted")>>)
  \o <<Field("sig", "aa55")>>

(* All that can be refused is refused before the first write. *)
Settle(skipped) ==
  LET d == [dv EXCEPT !.faults = @ - Cardinality(skipped), !.skipped = skipped]
  IN /\ Cardinality(skipped) <= dv.faults
     /\ faulted' = (faulted \/ skipped # {})
     /\ IF \E a \in Alternates(skipped) : given.last >= a
        THEN FailWith(d) /\ UNCHANGED plan
        ELSE Goto("wipe") /\ dv' = Looked(d) /\ plan' = Wipes(skipped) \o MbrWrites /\ UNCHANGED <<undo, status>>

Convert ==
  /\ hpc = "convert"
  /\ LET usable == Len(given.parts) <= 4 /\ \A i \in DOMAIN given.parts : given.parts[i].conv
         converts == opt.convert /\ given.iso /\ usable
     IN \/ opt.convert /\ ReadFails /\ UNCHANGED plan
        \/ ~converts /\ Goto("gpt") /\ UNCHANGED <<dv, plan, undo, status, faulted>>
        \/ converts /\ TooLow /\ Fail /\ UNCHANGED <<plan, faulted>>
        \/ converts /\ ~TooLow /\ \E skipped \in SUBSET AlternatesNamed : Settle(skipped)
  /\ Same(<<torn, touched, undoOk>>)

(* One device_write of the plan; the next label when it is done. *)
Step(label, next) ==
  /\ hpc = label /\ plan # <<>>
  /\ \E x \in device_write_raw(dv, Head(plan)) :
       /\ Touch(x.d)
       /\ IF x.ok
          THEN /\ dv' = x.d /\ undo' = Append(undo, x.old) /\ plan' = Tail(plan)
               /\ Goto(IF Tail(plan) = <<>> THEN next ELSE label)
               /\ UNCHANGED <<status, torn>>
          ELSE /\ dv' = [x.d EXCEPT !.dirty = FALSE, !.blk = NoBlock]
               /\ undo' = Reverse(undo) /\ plan' = <<>>
               /\ Goto("undo") /\ status' = "failed" /\ torn' = Head(plan)
  /\ Same(undoOk)

Wipe == Step("wipe", "mbr")

(* The signature and the active flags, mended under --force. *)
Mended(m) ==
  (IF m.sig = "aa55" THEN <<>> ELSE <<Field("sig", "aa55")>>)
  \o (IF m.act = "bad" THEN <<Field("act", "cleared")>> ELSE <<>>)

(* The hints of a file system are erased, where force lets the check pass. *)
validate_or_force(hint, erase) == IF hint THEN <<erase>> ELSE <<>>

(* The checks of the MBR read block 0 and mend it under --force, in this   *)
(* order: signature, active flags, a start below 63, the hints of a file   *)
(* system; at last a partition is made active.                             *)
MbrChecks ==
  /\ hpc = "mbr"
  /\ \E x \in device_cache_block(dv, 0) :
       LET m == x.d.cache
           sane == m.sig = "aa55" /\ m.act # "bad" /\ m.fs # "hint"
           more == validate_or_force(m.fs = "hint", Field("fs", "zero"))
                   \o (IF m.act = "active" THEN <<>> ELSE <<Field("act", "active")>>)
       IN /\ Touch(x.d)
          /\ IF ~x.ok \/ (m.p = "low" /\ (~opt.force \/ Mended(m) = <<>>)) \/ (~opt.force /\ ~sane)
             THEN FailWith(x.d) /\ UNCHANGED plan
             ELSE /\ dv' = x.d /\ plan' = Mended(m) \o (IF m.p = "low" THEN <<>> ELSE more)
                  /\ Goto(IF plan' = <<>> THEN "save" ELSE IF m.p = "low" THEN "doomed" ELSE "mend")
                  /\ UNCHANGED <<status, undo>>
  /\ Same(<<torn, undoOk>>)

Mend == Step("mend", "save")
Doomed == Step("doomed", "reject")

Reject ==
  /\ hpc = "reject" /\ Fail
  /\ Same(<<plan, torn, touched, undoOk, faulted>>)

(* The partition for stage 2: the one asked for, or the first of the BIOS  *)
(* boot type.                                                              *)
Chosen ==
  LET fit == {i \in DOMAIN given.parts : given.parts[i].bios}
  IN IF opt.index = 0 THEN (IF fit = {} THEN 0 ELSE Min(fit))
     ELSE IF opt.index > Len(given.parts) THEN 0
     ELSE IF ~opt.force /\ ~given.parts[opt.index].bios THEN 0 ELSE opt.index

GptChoice ==
  /\ hpc = "gpt"
  /\ LET q == given.parts[Chosen]
         hint == given.disk[q.first].all = "fs"
         refused == IF Chosen = 0 THEN TRUE ELSE q.last < q.first \/ (hint /\ ~opt.force)
     IN \/ ReadFails /\ UNCHANGED plan
        \/ /\ UNCHANGED faulted
           /\ IF refused THEN Fail /\ UNCHANGED plan
              ELSE /\ plan' = validate_or_force(hint, One(q.first, [all |-> "nohint"]))
                   /\ Goto(IF hint THEN "mendgpt" ELSE "savegpt") /\ UNCHANGED <<dv, undo, status>>
  /\ Same(<<torn, touched, undoOk>>)

MendGpt == Step("mendgpt", "savegpt")

(* The time stamp and the table are saved; then the writes of the install. *)
Image == [code |-> "limine", stamp |-> "image", loc |-> "image", id |-> "image",
          act |-> "image", p |-> "image", sig |-> "aa55", fs |-> "limine"]

Writes(m, at) ==
  <<One(0, Image), [i \in 1 .. Stage2 |-> [b |-> at + i - 1, new |-> [all |-> "stage2"]]],
    Field("loc", IF at = 1 THEN "gap" ELSE "part"), Field("stamp", m.stamp), One(0, Restrict(m, {"id", "act", "p"}))>>

Save ==
  /\ hpc \in {"save", "savegpt"}
  /\ LET q == given.parts[Chosen]
         at == IF hpc = "save" THEN 1 ELSE q.first
         room == IF hpc = "save" THEN Gap ELSE q.last - q.first + 1
     IN \E x \in device_cache_block(dv, 0) :
          /\ Touch(x.d)
          /\ IF ~x.ok \/ Stage2 > room
             THEN FailWith(x.d) /\ UNCHANGED plan
             ELSE /\ dv' = x.d /\ plan' = Writes(x.d.cache, at) /\ Goto("write")
                  /\ UNCHANGED <<status, undo>>
  /\ Same(<<torn, undoOk>>)

Write == Step("write", "flush")

Flush ==
  /\ hpc = "flush"
  /\ \E x \in FlushOut(dv) :
       /\ Touch(x.d)
       /\ undo' = Reverse(undo)
       /\ IF x.ok THEN dv' = x.d /\ Goto("store") /\ status' = "installed"
          ELSE dv' = [x.d EXCEPT !.dirty = FALSE, !.blk = NoBlock] /\ Goto("undo") /\ status' = "failed"
  /\ Same(<<plan, torn, undoOk>>)

(* store_uninstall_data; its failure does not change the exit status. *)
Store ==
  /\ hpc = "store" /\ Goto("done")
  /\ stored' \in IF opt.file THEN {undo, <<>>} ELSE {<<>>}
  /\ UNCHANGED <<dv, given, opt, plan, undo, status, torn, touched, undoOk, faulted>>

(* A later run with --uninstall. *)
Uninstall ==
  /\ hpc = "done" /\ status = "installed" /\ stored # <<>>
  /\ Goto("undo") /\ status' = "uninstalling" /\ undo' = stored /\ undoOk' = TRUE
  /\ dv' = [dv EXCEPT !.dirty = FALSE, !.blk = NoBlock]
  /\ Same(<<plan, torn, touched, faulted>>)

(* One entry of uninstall(): a failed write is tried once more after a     *)
(* flush and with the cache dropped.                                       *)
(* mutant: the cache is dropped without the flush *)
Retried_NoFlush(d) == {[d |-> d, ok |-> TRUE]}
Retried(d) == FlushOut(d)

UndoEntry ==
  /\ hpc = "undo" /\ undo # <<>>
  /\ \E x \in PutRaw(dv, Head(undo)) :
       IF x.ok THEN dv' = x.d /\ UNCHANGED undoOk
       ELSE \E f \in Retried(x.d) :
            \E y \in PutRaw([f.d EXCEPT !.dirty = FALSE, !.blk = NoBlock], Head(undo)) :
              dv' = y.d /\ undoOk' = (undoOk /\ f.ok /\ y.ok)
  /\ undo' = Tail(undo)
  /\ Same(<<hpc, plan, status, torn, touched, faulted>>)

UndoFlush ==
  /\ hpc = "undo" /\ undo = <<>>
  /\ \E x \in FlushOut(dv) : dv' = x.d /\ undoOk' = (undoOk /\ x.ok)
  /\ Goto("end")
  /\ Same(<<plan, undo, status, torn, touched, faulted>>)

HInit ==
  /\ given \in Devices /\ opt \in Options
  /\ dv = [disk |-> given.disk, cache |-> given.disk[0], blk |-> 0, dirty |-> FALSE, faults |-> MaxFaults,
           skipped |-> {}]
  /\ hpc = "locate" /\ plan = <<>> /\ undo = <<>> /\ stored = <<>> /\ status = "running"
  /\ torn = <<>> /\ touched = FALSE /\ undoOk = TRUE /\ faulted = FALSE

HNext ==
  \/ PickPlace \/ Convert \/ Wipe \/ MbrChecks \/ Mend \/ Doomed \/ Reject \/ GptChoice \/ MendGpt
  \/ Save \/ Write \/ Flush \/ Store \/ Uninstall \/ UndoEntry \/ UndoFlush

HSpec == HInit /\ [][HNext]_hvars

-----------------------------------------------------------------------------
Ended == hpc = "end" /\ status = "failed"
converted == dv.disk[0].id = "guid"
Stage2At == IF dv.disk[0].loc = "gap" \/ Chosen = 0 THEN 1 ELSE given.parts[Chosen].first
Stage2Blocks == Stage2At .. Stage2At + Stage2 - 1

(* A failed install whose undo reports no error leaves the device as it    *)
(* was, except for the blocks of a write of several blocks that failed in  *)
(* the middle: those device_write_raw does not record.                     *)
UndoRestoresButTorn ==
  Ended /\ undoOk =>
    LET blocks == IF Len(torn) < 2 THEN {} ELSE {torn[i].b : i \in DOMAIN torn}
    IN \A b \in DOMAIN dv.disk \ blocks : dv.disk[b] = given.disk[b]

(* Without --force and without an I/O error a refused device has not been  *)
(* written to, not even to be restored: "a rejection knowable in advance   *)
(* must not depend on the undo succeeding".                                *)
RejectedUntouched == Ended /\ ~faulted /\ ~opt.force => ~touched

(* Success means that all of it is on the device, not in the cache.        *)
SuccessComplete ==
  hpc \in {"store", "done"} =>
    /\ dv.disk[0].code = "limine" /\ dv.disk[0].sig = "aa55"
    /\ \A b \in Stage2Blocks : dv.disk[b].all = "stage2"

(* An install keeps the partitions: besides the boot sector it changes the *)
(* gap or the chosen partition, and when it converts, blocks outside the   *)
(* usable range; the time stamp, the disk id and the table survive unless  *)
(* converted.  A GPT that is not converted never loses its gap to stage 2. *)
PartitionsKept ==
  hpc \in {"store", "done"} =>
    LET m == dv.disk[0]
        was == given.disk[0]
    IN /\ \A b \in DOMAIN dv.disk \ ({0} \cup Stage2Blocks) :
            \/ dv.disk[b] = given.disk[b]
            \/ converted /\ b \notin given.first .. given.last
       /\ Stage2Blocks \cap (given.first .. given.last) \subseteq
            (IF m.loc = "gap" THEN {} ELSE given.parts[Chosen].first .. given.parts[Chosen].last)
       /\ ~converted => /\ m.stamp = was.stamp /\ m.id = was.id /\ m.p = was.p
                        /\ (given.gpt # "none" => m.loc = "part")

(* After a conversion no GPT header is left for a reader to prefer, though *)
(* an image on a larger disk has two alternates; one whose probe could not *)
(* be read stays.                                                          *)
NoGptLeft ==
  hpc \in {"store", "done"} /\ converted =>
    \A b \in DOMAIN dv.disk \ ({0} \cup dv.skipped) : dv.disk[b].all # "hdr"

(* The file written by an install brings back the device in a later run.   *)
RoundTrip == hpc = "end" /\ status = "uninstalling" /\ undoOk => dv.disk = given.disk

(* An install is all or nothing, whichever transfer fails: success means   *)
(* all of it is on the device, a refusal that nothing was written, a       *)
(* failure and a later uninstall that the old contents are back; the       *)
(* partitions survive, and a converted disk has no GPT left that could be  *)
(* read and would hide them (bios_install).                                *)
InstallSafe ==
  /\ UndoRestoresButTorn /\ RejectedUntouched /\ SuccessComplete /\ RoundTrip
  /\ PartitionsKept /\ NoGptLeft
=============================================================================

-------------------------------- MODULE Pmm --------------------------------
(***************************************************************************)
(* Limine's physical memory manager (common/mm/pmm.s2.c, common/mm/pmm.c)  *)
(* and the hand-over of the UEFI memory map (efi_exit_boot_services of     *)
(* common/lib/misc.c).                                                     *)
(*                                                                         *)
(* A memory map is a sequence of entries [base, length, type], as the C    *)
(* array is.  Addresses are 0 .. Space-1: Space stands for 2^64, Page for  *)
(* 4096, Low for 0x100000 and FourGiB for 0x100000000.  Page is more than  *)
(* one address, so that unaligned entries exist.  A map operation that     *)
(* panics yields the map Panic, which every later one passes on.           *)
(***************************************************************************)
EXTENDS Integers, Sequences, SequencesExt, FiniteSets

CONSTANTS Space, Page, Low, FourGiB, EBDA,
          ImageEnd,        \* the BIOS loader occupies Page .. ImageEnd-1
          Slide,           \* the page the UEFI loader was put at
          MaxEntries,      \* memmap_max_entries
          E820,            \* the E820 maps a BIOS may report
          Firmware,        \* the maps [page -> EFI type] a UEFI may start with
          Chunks, Chunk,   \* what is left to the firmware (64 times 1 MiB)
          Slack,           \* descriptors a map buffer has in excess
          MaxOps,          \* bound: allocator calls
          MaxRetries       \* ExitBootServices attempts (128 in the code)

VARIABLES build,           \* "bios" or "uefi"
          pc,              \* "init", "on", "exiting", "got", "exited", "done",
                           \* "rawdone", "panic" or "copyfull"
          memmap, untouched, convBase,
          raw,             \* the E820 map
          efi,             \* what the firmware holds: [page -> EFI type]
          efiMap,          \* efi_mmap, as last fetched
          exit,            \* [tries, room]: of efi_exit_boot_services
          blocks,          \* history: the ranges taken and not yet freed
          pool,            \* history: the bytes usable after init_memmap
          ops

pmmvars == <<build, pc, memmap, untouched, convBase, raw, efi, efiMap, exit,
             blocks, pool, ops>>

USABLE == "usable"
RECLAIM == "bootloader"    \* MEMMAP_BOOTLOADER_RECLAIMABLE
KERNEL == "kernel"         \* MEMMAP_KERNEL_AND_MODULES
EFIRECL == "efi"           \* MEMMAP_EFI_RECLAIMABLE
MAPPED == "mapped"         \* MEMMAP_RESERVED_MAPPED
ANY == "any"               \* overlay_type 0

Entry(b, l, t) == [base |-> b, length |-> l, type |-> t]
Panic == <<Entry(0, 0, "panic")>>
end(e) == e.base + e.length
overflows(e) == end(e) >= Space                \* CHECKED_ADD(base, length)
Bytes(b, l) == b .. (b + l - 1)
Held(e) == IF overflows(e) THEN {} ELSE Bytes(e.base, e.length)
UsableBytes(m) == UNION {Held(m[i]) : i \in {k \in DOMAIN m : m[k].type = USABLE}}

align_up(n) == ((n + Page - 1) \div Page) * Page
align_down(n, a) == (n \div a) * a

(* m[i] = m[count - 1]; count-- *)
Removed(m, i) == SubSeq([m EXCEPT ![i] = m[Len(m)]], 1, Len(m) - 1)

(* align_entry: an entry with nothing left has length 0. *)
align_entry(e) ==
  LET b == align_up(e.base)
  IN IF e.length < Page \/ b >= Space THEN [e EXCEPT !.length = 0]
     ELSE [e EXCEPT !.base = b, !.length = align_down(e.length - (b - e.base), Page)]

(* One round of the overlap check of a usable entry e against entry r.     *)
(* st is "go" until the C loop breaks, deletes or panics.                  *)
ClipBy(x, r) ==
  LET e == x.e
      hit(a) == a >= e.base /\ a < end(e)
      top == IF hit(r.base) THEN r.base ELSE end(e)
      base == IF end(r) >= e.base /\ end(r) < top THEN end(r) ELSE e.base
  IN IF x.st # "go" THEN x
     ELSE IF overflows(e) THEN [x EXCEPT !.st = "del"]
     ELSE IF overflows(r) THEN x
     ELSE IF r.base <= e.base /\ end(r) >= end(e)
       THEN [st |-> "del", e |-> e]
     ELSE IF hit(r.base) /\ hit(end(r)) THEN [x EXCEPT !.st = "panic"]
     ELSE [x EXCEPT !.e.base = base, !.e.length = top - base]

Clip(m, i) ==
  FoldLeft(LAMBDA x, j : IF j = i THEN x ELSE ClipBy(x, m[j]),
           [st |-> "go", e |-> m[i]], [j \in 1 .. Len(m) |-> j])

AlignedClip(x, align) == IF align /\ x.e.length # 0 THEN [x EXCEPT !.e = align_entry(@)] ELSE x

RECURSIVE ClipAll(_, _, _), ClipTo(_, _, _, _)
ClipAll(m, i, align) ==
  IF i > Len(m) THEN m
  ELSE IF m[i].type # USABLE THEN ClipAll(m, i + 1, align)
  ELSE ClipTo(m, i, align, AlignedClip(Clip(m, i), align))
ClipTo(m, i, align, x) ==
  IF x.st = "panic" THEN Panic
  ELSE IF x.st = "del" \/ x.e.length = 0 THEN ClipAll(Removed(m, i), 1, align)
  ELSE ClipAll([m EXCEPT ![i] = x.e], i + 1, align)

(* Drop empty entries and, on a BIOS, what is usable below Page. *)
RECURSIVE DropEmpty(_, _, _)
DropEmpty(m, i, keep) ==
  IF i > Len(m) THEN m
  ELSE LET e == m[i]
           first == e.type = USABLE /\ ~keep /\ e.base < Page
           gone == IF first THEN overflows(e) \/ end(e) <= Page ELSE e.length = 0
       IN IF gone THEN DropEmpty(Removed(m, i), i, keep)
          ELSE IF first THEN DropEmpty([m EXCEPT ![i].base = Page,
                                                 ![i].length = end(e) - Page],
                                       i + 1, keep)
          ELSE DropEmpty(m, i + 1, keep)

Sorted(m) ==
  FoldLeft(LAMBDA s, p :
             LET q == CHOOSE k \in p .. Len(s) :
                        /\ \A j \in p .. Len(s) : s[k].base <= s[j].base
                        /\ \A j \in p .. (k - 1) : s[k].base < s[j].base
             IN [s EXCEPT ![p] = s[q], ![q] = s[p]],
           m, [p \in 1 .. Len(m) |-> p])

RECURSIVE Merge(_, _)
Merge(m, i) ==
  IF i + 1 > Len(m) THEN m
  ELSE IF /\ m[i].type \in {RECLAIM, MAPPED, USABLE}
          /\ m[i + 1].type = m[i].type
          /\ ~overflows(m[i])
          /\ m[i + 1].base = end(m[i])
       THEN Merge([RemoveAt(m, i + 1) EXCEPT ![i].length = @ + m[i + 1].length], i)
       ELSE Merge(m, i + 1)

pmm_sanitise_entries(m, align, keep) ==
  LET c == ClipAll(m, 1, align)
  IN IF m = Panic \/ c = Panic THEN Panic
     ELSE Merge(Sorted(DropEmpty(c, 1, keep)), 1)

(***************************************************************************)
(* Putting a range of a given type into a map.                             *)
(***************************************************************************)
(* mutant: the part above a nested range is forgotten *)
Nested_Loses(m, i, b, t) == [m EXCEPT ![i].length = b - m[i].base]

(* A range inside entry i: the part above it becomes an entry of its own. *)
Nested(m, i, b, t) ==
  Append([m EXCEPT ![i].length = b - m[i].base], Entry(t, end(m[i]) - t, m[i].type))

RECURSIVE Carve(_, _, _, _)
Carve(m, i, b, t) ==
  IF i > Len(m) THEN m
  ELSE LET e == m[i]
       IN IF overflows(e) THEN Carve(m, i + 1, b, t)
          ELSE IF b <= e.base /\ t >= end(e) THEN Carve(Removed(m, i), i, b, t)
          ELSE IF b <= e.base /\ t > e.base
            THEN Carve([m EXCEPT ![i].base = t, ![i].length = end(e) - t], i + 1, b, t)
          ELSE IF b > e.base /\ b < end(e) /\ t >= end(e)
            THEN Carve([m EXCEPT ![i].length = b - e.base], i + 1, b, t)
          ELSE IF b > e.base /\ t < end(e)
            THEN IF Len(m) >= MaxEntries THEN Panic
                 ELSE Carve(Nested(m, i, b, t), i + 1, b, t)
          ELSE Carve(m, i + 1, b, t)

pmm_new_entry(m, b, l, type) ==
  LET c == IF b + l >= Space THEN Panic ELSE Carve(m, 1, b, b + l)
  IN IF c = Panic \/ Len(c) >= MaxEntries THEN Panic
     ELSE Append(c, Entry(b, l, type))

Within(e, b, l, overlay) ==
  /\ overlay \in {ANY, e.type}
  /\ ~overflows(e)
  /\ b >= e.base /\ b < end(e) /\ b + l <= end(e)

(* memmap_alloc_range_in, simulation excepted: the map, and whether the    *)
(* call succeeded.                                                         *)
memmap_alloc_range_in(m, b, l, type, overlay, do_panic, new_entry, keep) ==
  LET fits == \E i \in DOMAIN m : Within(m[i], b, l, overlay)
      no == [ok |-> FALSE, m |-> IF do_panic THEN Panic ELSE m]
  IN IF m = Panic \/ l = 0 THEN [ok |-> TRUE, m |-> m]
     ELSE IF b + l >= Space THEN no
     ELSE IF fits \/ new_entry
       THEN [ok |-> TRUE,
             m |-> pmm_sanitise_entries(pmm_new_entry(m, b, l, type), FALSE, keep)]
     ELSE no

(***************************************************************************)
(* Top-down allocation: the entry, and the range taken from it.            *)
(***************************************************************************)
Fits(e, count, a, limit) ==
  LET top == IF end(e) > limit THEN limit ELSE end(e)
  IN /\ e.type = USABLE /\ ~overflows(e)
     /\ e.base < top /\ top - e.base >= count
     /\ align_down(top - count, a) >= e.base

allow_high_allocs(high) == high

TakeBelow(m, e, n, a, limit, type, keep) ==
  LET top == IF end(e) > limit THEN limit ELSE end(e)
      b == align_down(top - n, a)
      r == memmap_alloc_range_in(m, b, top - b, type, USABLE, TRUE, FALSE, keep)
  IN [b |-> b, n |-> n, l |-> top - b, m |-> pmm_sanitise_entries(r.m, FALSE, keep)]

ext_mem_alloc(m, count, type, a, high, keep) ==
  LET n == align_down((IF count = 0 THEN 1 ELSE count) + a - 1, a)
      fit(limit) == {i \in DOMAIN m : Fits(m[i], n, a, limit)}
      limit == IF fit(FourGiB) = {} /\ allow_high_allocs(high) THEN Space - 1 ELSE FourGiB
  IN IF m = Panic \/ fit(limit) = {} THEN [b |-> 0, n |-> 0, l |-> 0, m |-> Panic]
     ELSE TakeBelow(m, m[Max(fit(limit))], n, a, limit, type, keep)

(***************************************************************************)
(* init_memmap of a BIOS build.                                            *)
(***************************************************************************)
(* What one E820 entry contributes: nothing, or one entry. *)
BiosEntry(e) ==
  LET in == e.type = USABLE /\ e.base >= EBDA /\ e.base < Low
  IN IF overflows(e) \/ (in /\ end(e) <= Low) THEN <<>>
     ELSE IF in THEN <<Entry(Low, end(e) - Low, USABLE)>>
     ELSE IF e.type = USABLE /\ end(e) > EBDA /\ end(e) <= Low
       THEN <<[e EXCEPT !.length = EBDA - e.base]>>
     ELSE <<e>>

BiosMap(e820) ==
  LET m == FoldLeft(LAMBDA a, e : a \o BiosEntry(e), <<>>, e820)
      s == IF Len(m) > MaxEntries THEN Panic ELSE pmm_sanitise_entries(m, FALSE, FALSE)
      r == memmap_alloc_range_in(s, Page, align_up(ImageEnd) - Page, RECLAIM, ANY,
                                 TRUE, FALSE, FALSE)
  IN pmm_sanitise_entries(r.m, FALSE, FALSE)

On(m) == IF m = Panic THEN "panic" ELSE "on"

InitBios ==
  /\ pc = "init" /\ build = "bios"
  /\ memmap' = BiosMap(raw)
  /\ pc' = On(memmap')
  /\ pool' = UsableBytes(memmap')
  /\ UNCHANGED <<build, untouched, convBase, raw, efi, efiMap, exit, blocks, ops>>

(***************************************************************************)
(* init_memmap of a UEFI build.  The firmware describes its pages in runs  *)
(* of one type, in order of address.                                       *)
(***************************************************************************)
Runs(f) ==
  LET starts == {p \in DOMAIN f : f[p] # "hole" /\ (p = 0 \/ f[p - 1] # f[p])}
      stop(p) == CHOOSE q \in p .. Cardinality(DOMAIN f) :
                   /\ \A k \in p .. (q - 1) : f[k] = f[p]
                   /\ q \notin DOMAIN f \/ f[q] # f[p]
      run(p) == Entry(p * Page, (stop(p) - p) * Page, f[p])
      order == SetToSortSeq(starts, LAMBDA a, b : a < b)
  IN [i \in 1 .. Len(order) |-> run(order[i])]

our_type(t) ==
  CASE t \in {"loader", "boot"} -> EFIRECL
    [] t = "conv" -> USABLE
    [] t = "acpi" -> "acpi"
    [] OTHER -> "reserved"

RECURSIVE LeaveChunks(_, _)
LeaveChunks(m, n) ==
  IF n = 0 THEN m
  ELSE LeaveChunks(ext_mem_alloc(m, Chunk, EFIRECL, Page, FALSE, TRUE).m, n - 1)

(* The pages of taken could not be owned: the firmware has them by now. *)
NotOwned(m, taken) ==
  FoldLeft(LAMBDA a, p : memmap_alloc_range_in(a, p * Page, Page, EFIRECL, USABLE,
                                               TRUE, FALSE, TRUE).m,
           m, SetToSortSeq(taken, LAMBDA a, b : a < b))

InitUefi ==
  /\ pc = "init" /\ build = "uefi"
  /\ \E d \in {Runs(efi)} :
     \E m0 \in {pmm_sanitise_entries([i \in DOMAIN d |-> [d[i] EXCEPT !.type = our_type(@)]], FALSE, TRUE)} :
     \E m1 \in {LeaveChunks(m0, Chunks)} :
     \E mine \in {{p \in DOMAIN efi : p * Page \in UsableBytes(m1)}} :
     \E taken \in {t \in SUBSET mine : Cardinality(t) <= 1} :
     \E m2 \in {NotOwned(m1, taken)} :
     \E m3 \in {memmap_alloc_range_in(m2, Slide * Page, Page, RECLAIM, ANY, TRUE, TRUE, TRUE).m} :
     \E recl \in {ext_mem_alloc(pmm_sanitise_entries(m3, FALSE, TRUE), Page, RECLAIM, Page, FALSE, TRUE)} :
       /\ untouched' = m2
       /\ memmap' = recl.m
       /\ pool' = UsableBytes(m2)
       /\ pc' = On(memmap')
       /\ blocks' = {[b |-> recl.b, n |-> recl.n, l |-> recl.l, type |-> RECLAIM, high |-> FALSE]}
       /\ efi' = [p \in DOMAIN efi |-> IF p \in taken THEN "boot"
                                      ELSE IF p \in mine THEN "loader"
                                      ELSE efi[p]]
       /\ efiMap' = d
  /\ UNCHANGED <<build, convBase, raw, exit, ops>>

(***************************************************************************)
(* The allocator's calls.                                                  *)
(***************************************************************************)
keepFirst == build = "uefi"
Reserved == UNION {Bytes(x.b, x.l) : x \in blocks}
Call == pc = "on" /\ ops < MaxOps /\ ops' = ops + 1
        /\ UNCHANGED <<build, untouched, raw, efi, efiMap, exit, pool>>

Taken(r, type, high) ==
  /\ memmap' = r.m
  /\ pc' = On(r.m)
  /\ blocks' = IF r.m = Panic THEN blocks
               ELSE blocks \cup {[b |-> r.b, n |-> r.n, l |-> r.l, type |-> type, high |-> high]}

Alloc(count, type, a, high) ==
  /\ Call
  /\ Taken(ext_mem_alloc(memmap, count, type, a, high, keepFirst), type, high)
  /\ UNCHANGED convBase

conv_mem_alloc(count) ==
  /\ Call
  /\ LET n == align_up(IF count = 0 THEN 1 ELSE count)
         at(b) == memmap_alloc_range_in(memmap, b, n, RECLAIM, USABLE, FALSE, FALSE, keepFirst)
         fit == {b \in convBase .. (Low - n) : (b - convBase) % Page = 0 /\ at(b).ok}
     IN IF fit = {}
        THEN pc' = "panic" /\ memmap' = Panic /\ UNCHANGED <<convBase, blocks>>
        ELSE \E b \in {x \in fit : \A y \in fit : x <= y} :
               /\ convBase' = b + n
               /\ Taken([b |-> b, n |-> n, l |-> n,
                         m |-> pmm_sanitise_entries(at(b).m, FALSE, keepFirst)], RECLAIM, FALSE)

(* memmap_alloc_range(base, length, RECLAIMABLE, USABLE, false, ..), as    *)
(* elsewhere.c reserves a fixed place and goes on when it cannot.          *)
AllocRange(b, l) ==
  /\ Call
  /\ LET r == memmap_alloc_range_in(memmap, b, l, RECLAIM, USABLE, FALSE, FALSE, keepFirst)
     IN IF r.ok THEN Taken([b |-> b, n |-> l, l |-> l, m |-> r.m], RECLAIM, TRUE)
        ELSE UNCHANGED <<pc, memmap, blocks>>
  /\ UNCHANGED convBase

Freed(m, x) ==
  memmap_alloc_range_in(m, x.b, align_up(x.n), USABLE, ANY, FALSE, TRUE, keepFirst).m

(* What ext_mem_alloc took beyond the rounded size stays taken. *)
Slackless(x) == {[b |-> x.b + x.n, n |-> 0, l |-> x.l - x.n, type |-> x.type, high |-> x.high]}
Without(x) == (blocks \ {x}) \cup (IF x.l > x.n THEN Slackless(x) ELSE {})

pmm_free(x) ==
  /\ Call
  /\ memmap' = Freed(memmap, x)
  /\ pc' = On(memmap')
  /\ blocks' = Without(x)
  /\ UNCHANGED convBase

pmm_realloc(x, count) ==
  /\ Call
  /\ \E r \in {ext_mem_alloc(memmap, count, RECLAIM, Page, FALSE, keepFirst)} :
       /\ memmap' = IF r.m = Panic THEN Panic ELSE Freed(r.m, x)
       /\ pc' = On(memmap')
       /\ blocks' = IF r.m = Panic THEN blocks
                    ELSE Without(x) \cup {[b |-> r.b, n |-> r.n, l |-> r.l, type |-> RECLAIM, high |-> FALSE]}
  /\ UNCHANGED convBase

(***************************************************************************)
(* Leaving boot services.  While they run the firmware may take memory of  *)
(* its own; a map fetched before that has a stale key.                     *)
(***************************************************************************)
FirmwareTakes(p, t) ==
  /\ build = "uefi" /\ pc \in {"on", "exiting", "got"} /\ ops < MaxOps
  /\ efi[p] = "conv"
  /\ efi' = [efi EXCEPT ![p] = t]
  /\ ops' = ops + 1
  /\ UNCHANGED <<build, pc, memmap, untouched, convBase, raw, efiMap, exit, blocks, pool>>

LeavingBoot ==
  /\ pc = "on" /\ build = "uefi"
  /\ pc' = "exiting"
  /\ UNCHANGED <<build, memmap, untouched, convBase, raw, efi, efiMap, exit, blocks, pool, ops>>

Retried == exit' = [exit EXCEPT !.tries = @ + 1]

GetMemoryMap ==
  /\ pc = "exiting"
  /\ IF exit.tries = MaxRetries THEN pc' = "panic" /\ UNCHANGED <<exit, efi, efiMap>>
     ELSE IF Len(Runs(efi)) > exit.room
     THEN /\ exit' = [tries |-> exit.tries + 1, room |-> Len(Runs(efi)) + Slack]
          /\ \/ UNCHANGED efi
             \/ \E p \in DOMAIN efi : efi[p] = "conv" /\ efi' = [efi EXCEPT ![p] = "loader"]
          /\ UNCHANGED <<pc, efiMap>>
     ELSE pc' = "got" /\ efiMap' = Runs(efi) /\ UNCHANGED <<exit, efi>>
  /\ UNCHANGED <<build, memmap, untouched, convBase, raw, blocks, pool, ops>>

(* mutant: a descriptor belongs to at most one of our regions *)
Cut_One(d, cur) ==
  LET own == \E i \in DOMAIN untouched : untouched[i].type = USABLE /\ d.base \in Held(untouched[i])
  IN <<Entry(cur, end(d) - cur, IF own THEN "conv" ELSE d.type)>>

(* One descriptor in runs, cut at the edges of the regions we own. *)
RECURSIVE Cut(_, _)
Cut(d, cur) ==
  LET f == FoldLeft(LAMBDA x, r :
             IF x.owned \/ r.type # USABLE \/ overflows(r) THEN x
             ELSE IF cur >= r.base /\ cur < end(r)
               THEN [owned |-> TRUE, top |-> IF end(r) < x.top THEN end(r) ELSE x.top]
             ELSE IF r.base > cur /\ r.base < x.top THEN [x EXCEPT !.top = r.base]
             ELSE x, [owned |-> FALSE, top |-> end(d)], untouched)
  IN IF cur >= end(d) THEN <<>>
     ELSE <<Entry(cur, f.top - cur, IF f.owned THEN "conv" ELSE d.type)>> \o Cut(d, f.top)

CopyRoom == 2 * exit.room + 2 * Len(untouched)     \* EFI_COPY_MAX_ENTRIES

Stale == efiMap # Runs(efi)

ExitBootServices ==
  /\ pc = "got"
  /\ LET copy == FoldLeft(LAMBDA a, d : a \o Cut(d, d.base), <<>>, efiMap)
     IN IF Stale THEN Retried /\ pc' = "exiting" /\ UNCHANGED efiMap
        ELSE /\ efiMap' = copy
             /\ pc' = IF Len(copy) >= CopyRoom THEN "copyfull"
                      ELSE "exited"
             /\ UNCHANGED exit
  /\ UNCHANGED <<build, memmap, untouched, convBase, raw, efi, blocks, pool, ops>>

(***************************************************************************)
(* The map handed to the kernel.                                           *)
(***************************************************************************)
Reclaimed(t, israw) ==
  IF t \in {"loader", "boot"} THEN (IF israw THEN USABLE ELSE RECLAIM) ELSE our_type(t)

pmm_reclaim_uefi_mem(m, israw, keep) ==
  LET recl == SelectSeq(m, LAMBDA e : e.type = EFIRECL)
      lo(r, d) == IF d.base < r.base THEN r.base ELSE d.base
      hi(r, d) == IF end(d) > end(r) THEN end(r) ELSE end(d)
      punch(a, r, d) == IF lo(r, d) >= hi(r, d) THEN a
                        ELSE memmap_alloc_range_in(a, lo(r, d), hi(r, d) - lo(r, d),
                               Reclaimed(d.type, israw), ANY, TRUE, FALSE, keep).m
  IN pmm_sanitise_entries(
       FoldLeft(LAMBDA a, r : FoldLeft(LAMBDA x, d : punch(x, r, d), a, efiMap), m, recl),
       FALSE, keep)

(* get_memmap; the Limine protocol has the first page clipped before it    *)
(* when the kernel is of an old base revision.                             *)
get_memmap(clip) ==
  /\ pc = (IF build = "bios" THEN "on" ELSE "exited")
  /\ LET keep == keepFirst /\ ~clip
         m == IF clip THEN pmm_sanitise_entries(memmap, TRUE, FALSE) ELSE memmap
         f == IF build = "bios" THEN m ELSE pmm_reclaim_uefi_mem(m, FALSE, keep)
     IN memmap' = pmm_sanitise_entries(f, TRUE, keep)
  /\ pc' = IF memmap' = Panic THEN "panic" ELSE IF clip THEN "doneclip" ELSE "done"
  /\ UNCHANGED <<build, untouched, convBase, raw, efi, efiMap, exit, blocks, pool, ops>>

get_raw_memmap ==
  /\ pc = "exited"
  /\ untouched' = pmm_reclaim_uefi_mem(untouched, TRUE, TRUE)
  /\ pc' = IF untouched' = Panic THEN "panic" ELSE "rawdone"
  /\ UNCHANGED <<build, memmap, convBase, raw, efi, efiMap, exit, blocks, pool, ops>>

(***************************************************************************)
(* Questions asked of a map.                                               *)
(***************************************************************************)
pmm_check_type(a) ==
  LET hits == {i \in DOMAIN memmap : a \in Held(memmap[i])}
  IN IF hits = {} THEN "none"
     ELSE memmap[CHOOSE i \in hits : \A j \in hits : i <= j].type

RamTypes == {USABLE, RECLAIM, KERNEL} \cup (IF build = "uefi" THEN {EFIRECL} ELSE {})

check_usable_memory(b, t) ==
  LET ram == SelectSeq(memmap, LAMBDA e : e.type \in RamTypes /\ ~overflows(e))
      lo(e) == IF e.base > b THEN e.base ELSE b
      hi(e) == IF end(e) < t THEN end(e) ELSE t
      go(x, e) == IF x.found THEN x
                  ELSE IF b >= e.base /\ b < end(e) /\ t > e.base /\ t <= end(e)
                    THEN [x EXCEPT !.found = TRUE]
                  ELSE IF e.base < t /\ end(e) > b
                    THEN LET left == (x.left - (hi(e) - lo(e))) % Space
                         IN [found |-> left = 0, left |-> left]
                  ELSE x
  IN FoldLeft(go, [found |-> FALSE, left |-> (t - b) % Space], ram).found

RECURSIVE Frontier(_, _)
Frontier(m, at) ==
  LET past == {i \in DOMAIN m : /\ m[i].type = USABLE /\ ~overflows(m[i])
                               /\ m[i].base <= at /\ end(m[i]) > at}
  IN IF past = {} THEN at
     ELSE Frontier(m, end(m[CHOOSE i \in past : \A j \in past : i <= j]))

mmap_get_info(m) ==
  LET lower == Frontier(m, 0)
  IN [lowermem |-> IF lower > Low THEN Low ELSE lower, uppermem |-> Frontier(m, Low) - Low]

PmmInit ==
  /\ pc = "init" /\ memmap = <<>> /\ untouched = <<>> /\ convBase = Page
  /\ efiMap = <<>> /\ exit = [tries |-> 0, room |-> 0]
  /\ blocks = {} /\ pool = {} /\ ops = 0
  /\ \/ build = "bios" /\ raw \in E820 /\ efi = <<>>
     \/ build = "uefi" /\ raw = <<>> /\ efi \in Firmware

PmmNext ==
  \/ InitBios \/ InitUefi
  \/ \E n \in {0, Page + 1}, h \in BOOLEAN : Alloc(n, RECLAIM, Page, h)
  \/ \E h \in BOOLEAN : Alloc(1, KERNEL, 2 * Page, h)
  \/ conv_mem_alloc(1)
  \/ \E b \in {Page * k : k \in 0 .. (Space \div Page) - 1} : AllocRange(b, Page)
  \/ \E x \in blocks : x.n > 0 /\ (pmm_free(x) \/ pmm_realloc(x, 2 * Page))
  \/ \E p \in DOMAIN efi, t \in {"boot", "runtime"} : FirmwareTakes(p, t)
  \/ LeavingBoot \/ GetMemoryMap \/ ExitBootServices
  \/ \E c \in BOOLEAN : get_memmap(c)
  \/ get_raw_memmap

PmmSpec == PmmInit /\ [][PmmNext]_pmmvars

-----------------------------------------------------------------------------
(* init_memmap of a BIOS: exactly the bytes stay usable that the E820 map  *)
(* calls usable and nothing else, outside the first page, the EBDA area    *)
(* and the loader itself; the EBDA area is left alone only where no entry  *)
(* reaches from below it past 1 MiB.                                       *)
PoolExact ==
  pc = "on" /\ build = "bios" =>
    LET says(a, t) == \E i \in DOMAIN raw : raw[i].type \in t /\ a \in Held(raw[i])
        spans(a) == \E i \in DOMAIN raw : /\ raw[i].type = USABLE /\ a \in Held(raw[i])
                                           /\ raw[i].base < EBDA /\ end(raw[i]) > Low
        types == {raw[i].type : i \in DOMAIN raw}
    IN pool = {a \in 0 .. Space - 1 :
                 /\ says(a, {USABLE}) /\ ~says(a, types \ {USABLE})
                 /\ a >= ImageEnd /\ (a >= EBDA /\ a < Low => spans(a))}

(* The allocator neither loses memory nor hands out a byte twice: the map  *)
(* calls usable exactly what was usable at the start and is not taken, and *)
(* the ranges taken are disjoint.  This is what every carve, clip, sort    *)
(* and merge of the map has to preserve.                                   *)
MapExact ==
  pc = "on" => /\ UsableBytes(memmap) = pool \ (Reserved \cup
                    IF build = "uefi" THEN Bytes(Slide * Page, Page) ELSE {})
               /\ \A x, y \in blocks : x # y => Bytes(x.b, x.l) \cap Bytes(y.b, y.l) = {}

(* A range that was handed out keeps the type it was asked for with until  *)
(* it is freed, also in the map the kernel gets; and ext_mem_alloc without *)
(* allow_high_allocs stays below 4 GiB.                                    *)
BlocksKept ==
  pc \in {"on", "exited", "done", "doneclip"} =>
    \A x \in blocks : /\ \A a \in Bytes(x.b, x.l) : pmm_check_type(a) = x.type
                      /\ x.high \/ x.b + x.l <= FourGiB

(* check_usable_memory answers TRUE exactly when every byte of the range   *)
(* is real RAM in the current map.                                         *)
RangeCheckExact ==
  pc = "on" => \A b \in 0 .. Space - 2 : \A t \in (b + 1) .. Space - 1 :
    check_usable_memory(b, t) <=> \A a \in b .. t - 1 : pmm_check_type(a) \in RamTypes

(* mmap_get_info, on the raw E820 map: the memory up to the first hole. *)
MemInfoExact ==
  build = "bios" =>
    LET usable(a) == a \in UsableBytes(raw)
        hole(a) == CHOOSE h \in a .. Space : ~usable(h) /\ \A k \in a .. h - 1 : usable(k)
    IN mmap_get_info(raw) = [lowermem |-> IF hole(0) > Low THEN Low ELSE hole(0),
                             uppermem |-> hole(Low) - Low]

(* The map a UEFI build hands over: what the loader still holds keeps its  *)
(* type, what it owned and gave back is usable, and what the firmware has  *)
(* at the moment boot services end is described as the firmware has it     *)
(* then, however often the exit had to be retried.  The raw map of         *)
(* multiboot calls all boot services and loader memory usable.             *)
HandoverExact ==
  pc \in {"done", "rawdone"} /\ build = "uefi" =>
    \A p \in DOMAIN efi :
      LET a == p * Page
          m == IF pc = "done" THEN memmap ELSE untouched
          type == LET h == {i \in DOMAIN m : a \in Held(m[i])}
                  IN IF h = {} THEN "none" ELSE m[CHOOSE i \in h : TRUE].type
          mine == a \in Reserved \/ p = Slide
      IN \/ pc = "done" /\ mine
         \/ type = IF efi[p] = "hole" THEN "none"
                   ELSE IF a \in pool THEN USABLE
                   ELSE Reclaimed(efi[p], pc = "rawdone")

(* Cutting the firmware's map at the edges of the regions the loader owns  *)
(* fits the buffer sized before the map was fetched for the last time.     *)
CopyFits == pc # "copyfull"

(* The map the kernel gets is in order, in whole pages where it is usable, *)
(* and no usable entry meets another entry.                                *)
FinalWellFormed ==
  pc \in {"done", "doneclip"} =>
    \A i, j \in DOMAIN memmap :
      /\ i < j => memmap[i].base <= memmap[j].base
      /\ memmap[i].type = USABLE =>
           /\ memmap[i].base % Page = 0 /\ memmap[i].length % Page = 0
           /\ pc = "doneclip" \/ build = "bios" => memmap[i].base >= Page
           /\ i # j => Held(memmap[i]) \cap Held(memmap[j]) = {}

(* After any series of allocations and frees the map still describes the   *)
(* memory that was there: no byte is lost, handed out twice, or taken for  *)
(* RAM when it is not (pmm.s2.c, pmm.c).                                   *)
MemoryExact == PoolExact /\ MapExact /\ BlocksKept /\ RangeCheckExact /\ MemInfoExact

(* The map the kernel gets describes memory at the moment boot services    *)
(* ended, however often leaving them was retried, and is in order          *)
(* (efi_exit_boot_services, get_memmap).                                   *)
MapHandedOver == HandoverExact /\ CopyFits /\ FinalWellFormed
=============================================================================

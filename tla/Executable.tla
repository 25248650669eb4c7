----------------------------- MODULE Executable -----------------------------
(***************************************************************************)
(* Limine's executable loaders: common/lib/elf.c (elf64_load,              *)
(* elf64_load_section, elf32/64_load_elsewhere) and common/lib/pe.c        *)
(* (pe64_load).                                                            *)
(*                                                                         *)
(* Addresses, offsets and sizes are in 8-byte words, a word is a number    *)
(* below Top, and tables that the file holds at an offset (relocations,    *)
(* symbols) are functions from that offset.  The buffer an image is loaded *)
(* into is a function from the offset in it, zeroed by the allocator.      *)
(***************************************************************************)
EXTENDS Integers, Sequences, FiniteSets, SequencesExt, FiniteSetsExt

CONSTANTS Files,      \* the files: an ELF file, or a PE file (see MC)
          Top,        \* 2^64
          Half,       \* FIXED_HIGHER_HALF_OFFSET_64
          PageW,      \* words of a page
          RelrBits,   \* relocations of a RELR bitmap: 63
          MaxTries    \* max_simulated_tries

VARIABLES exe, xpc, kaslr, at, tries, slide, base, size, image, relocs, elf_ranges,
          elf_entry, adjusted, section

xvars == <<exe, xpc, kaslr, at, tries, slide, base, size, image, relocs, elf_ranges,
           elf_entry, adjusted, section>>

PageDown(a) == a - (a % PageW)
PageUp(a) == PageDown(a + PageW - 1)
Fits64(a, b) == a + b < Top                       \* CHECKED_ADD
Pow2(n) == n \in {0, 1, 2, 4, 8, 16, 32}
Smaller(a, b) == IF a < b THEN a ELSE b

XPanic == xpc' = "panic" /\ UNCHANGED <<exe, kaslr, at, tries, slide, base, size, image, relocs,
                                        elf_ranges, elf_entry, adjusted, section>>

(***************************************************************************)
(* elf64_load                                                              *)
(***************************************************************************)
Loadable(f) == SelectSeq(f.ph, LAMBDA p : p.t = "load" /\ p.ms # 0)
Dynamics(f) == SelectSeq(f.ph, LAMBDA p : p.t = "dynamic")

elf64_is_relocatable(f) == f.type = "dyn"
NotDynamic(f) == f.type = "dyn" /\ (Dynamics(f) = <<>> \/ Dynamics(f)[1].fs = 0)

elf64_max_align(ls) == Max({PageW} \cup {p.al : p \in ToSet(ls)})

(* mutant: pages are not considered *)
Clash_Words(p, q) == q.va < p.va + p.ms /\ q.fl # p.fl

(* Two segments in a row on one page with different permissions. *)
Clash(p, q) == PageDown(q.va) < PageUp(p.va + p.ms) /\ q.fl # p.fl

SegmentsRefused(f, ls) ==
  \/ ls = <<>>
  \/ \E p \in ToSet(ls) :
       \/ ~Pow2(p.al)
       \/ ~Fits64(p.va, p.ms) \/ ~Fits64(PageUp(p.va + p.ms), 0)
       \/ p.va < Half /\ ~elf64_is_relocatable(f)
  \/ \E p, q \in ToSet(ls) : p.va < Half /\ q.va >= Half
  \/ \E i \in 2 .. Len(ls) : ls[i].va < ls[i - 1].va + ls[i - 1].ms \/ Clash(ls[i - 1], ls[i])

ElfCheck ==
  /\ xpc = "start" /\ exe.kind = "elf"
  /\ LET ls == Loadable(exe)
         low == PageDown(Min({p.va : p \in ToSet(ls)}))
     IN IF NotDynamic(exe) \/ SegmentsRefused(exe, ls) THEN XPanic
        ELSE /\ base' = low
             /\ size' = Max({p.va + p.ms : p \in ToSet(ls)}) - low
             /\ image' = [w \in 0 .. (size' - 1) |-> 0]
             /\ slide' = IF ls[1].va < Half THEN Half - low ELSE 0
             /\ xpc' = "slide"
             /\ UNCHANGED <<exe, kaslr, at, tries, relocs, elf_ranges, elf_entry, adjusted, section>>

Movable(f) == IF f.kind = "elf" THEN elf64_is_relocatable(f) ELSE ~f.stripped
AlignOf(f) == IF f.kind = "elf" THEN elf64_max_align(Loadable(f)) ELSE f.al

TooHigh(to) == (base + to + size) % Top < Half

(* One turn of the `again' loop, the random number being any multiple of   *)
(* the alignment below 2^32.                                               *)
SlideImage ==
  /\ xpc = "slide"
  /\ IF Movable(exe) /\ kaslr
     THEN \E r \in 0 .. (2 * (Top - Half) - 1) :
            LET to == ((r - (r % AlignOf(exe))) + (IF base < Half THEN Half - base ELSE 0)) % Top
            IN IF ~TooHigh(to) THEN slide' = to /\ xpc' = "load" /\ UNCHANGED tries
               ELSE IF tries + 1 = MaxTries THEN xpc' = "panic" /\ UNCHANGED <<slide, tries>>
               ELSE tries' = tries + 1 /\ UNCHANGED <<xpc, slide>>
     ELSE xpc' = "load" /\ UNCHANGED <<slide, tries>>
  /\ UNCHANGED <<exe, kaslr, at, base, size, image, relocs, elf_ranges, elf_entry, adjusted, section>>

(* elf64_prepare_relocations: the dynamic table up to its first DT_NULL,   *)
(* the last entry with a tag deciding.                                     *)
Marks(f) ==
  LET null == SelectInSeq(f.dyn, LAMBDA d : d.tag = "null")
  IN IF Dynamics(f) = <<>> THEN <<>> ELSE SubSeq(f.dyn, 1, IF null = 0 THEN Len(f.dyn) ELSE null - 1)
Dt(f, tag) ==
  LET i == SelectLastInSeq(Marks(f), LAMBDA d : d.tag = tag) IN IF i = 0 THEN 0 ELSE Marks(f)[i].val

(* elf64_translate_vaddr: the file offset, or -1 *)
elf64_translate_vaddr(f, va, hint) ==
  LET i == SelectInSeq(f.ph, LAMBDA p : Fits64(p.va, p.fs) /\ p.va <= va /\ va < p.va + p.fs)
      to == va - f.ph[i].va + f.ph[i].off
  IN IF i = 0 \/ f.ph[i].off + f.ph[i].fs > f.len \/ to + hint > f.len THEN -1 ELSE to

RelaWords == 3
SymWords == 3

TablesRefused(f) ==
  LET tab(t, sz) == (Dt(f, t) # 0 /\ elf64_translate_vaddr(f, Dt(f, t), Dt(f, sz)) = -1)
                    \/ (Dt(f, t) = 0 /\ Dt(f, sz) # 0)
      ent == Dt(f, "relaent")
  IN \/ \E d \in ToSet(Marks(f)) : d.tag = "needed" \/ (d.tag = "syment" /\ d.val < SymWords)
     \/ ent # 0 /\ ent < RelaWords
     \/ tab("rela", "relasz") \/ tab("relr", "relrsz") \/ tab("jmprel", "pltrelsz")
     \/ Dt(f, "symtab") # 0 /\ elf64_translate_vaddr(f, Dt(f, "symtab"), 0) = -1
     \/ Dt(f, "relrsz") # 0 /\ Dt(f, "relrent") # 1
     \/ \E sz \in {"relasz", "pltrelsz"} : Dt(f, sz) # 0 /\ (ent = 0 \/ Dt(f, sz) % ent # 0)
     \/ Dt(f, "pltrelsz") # 0 /\ Dt(f, "pltrel") # 7               \* DT_RELA

(* An entry is an address, or a bitmap (bits numbered from 1) over the     *)
(* words that follow the last place.                                       *)
RelrStep(a, e) ==
  IF ~e.map THEN [where |-> e.addr + 1, out |-> Append(a.out, e.addr)]
  ELSE [where |-> a.where + RelrBits,
        out |-> a.out \o SetToSortSeq({a.where + b - 1 : b \in e.bits}, LAMBDA x, y : x < y)]

RelrEntries(f) ==
  IF Dt(f, "relrsz") = 0 THEN <<>>
  ELSE LET o == elf64_translate_vaddr(f, Dt(f, "relr"), Dt(f, "relrsz"))
       IN [i \in 1 .. Dt(f, "relrsz") |-> f.relr[o + i - 1]]

RelaEntries(f, tag, sz) ==
  IF Dt(f, sz) = 0 THEN <<>>
  ELSE LET o == elf64_translate_vaddr(f, Dt(f, tag), Dt(f, sz))
           ent == Dt(f, "relaent")
       IN [i \in 1 .. (Dt(f, sz) \div ent) |-> f.rela[o + (i - 1) * ent]]

elf64_prepare_relocations(f) ==
  LET relr == FoldLeft(RelrStep, [where |-> 0, out |-> <<>>], RelrEntries(f)).out
  IN [i \in DOMAIN relr |-> [at |-> relr[i], kind |-> "relr", addend |-> 0, sym |-> 0]]
     \o RelaEntries(f, "rela", "relasz") \o RelaEntries(f, "jmprel", "pltrelsz")

(* What a relocation of a word with value old stores; -1 is a panic. *)
Symbol(f, r, to, add) ==
  LET tab == Dt(f, "symtab")
      o == elf64_translate_vaddr(f, tab, 0)
      i == SelectInSeq(f.ph, LAMBDA p : p.va <= tab /\ tab < p.va + p.fs)
      room == f.ph[i].fs - (tab - f.ph[i].va)
      k == r.sym * Dt(f, "syment")
      s == f.syms[o + k]
  IN IF tab = 0 \/ Dt(f, "syment") = 0 \/ room < SymWords \/ k > room - SymWords THEN -1
     ELSE IF ~s.undef THEN (to + s.value + add) % Top
     ELSE IF s.weak THEN 0 ELSE -1

Relocated(f, r, old, to) ==
  CASE r.kind = "none" -> old
    [] r.kind = "relative" -> (to + r.addend) % Top
    [] r.kind = "relr" -> (old + to) % Top
    [] r.kind \in {"glob_dat", "jump_slot"} -> Symbol(f, r, to, IF f.arch = "aarch64" THEN r.addend ELSE 0)
    [] r.kind = "abs" -> Symbol(f, r, to, r.addend)
    [] OTHER -> -1

(* elf64_apply_relocations to the words buf that stand for the addresses   *)
(* from va on; -1 in a word is a panic.                                    *)
elf64_apply_relocations(f, rs, buf, va, to) ==
  FoldLeft(LAMBDA b, r : IF r.at - va \notin DOMAIN b \/ b[r.at - va] = -1 THEN b
                         ELSE [b EXCEPT ![r.at - va] = Relocated(f, r, @, to)], buf, rs)

ElfPrepare ==
  /\ xpc = "load" /\ exe.kind = "elf"
  /\ IF TablesRefused(exe) THEN XPanic
     ELSE /\ relocs' = elf64_prepare_relocations(exe)
          /\ xpc' = "segments" /\ at' = 1
          /\ UNCHANGED <<exe, kaslr, tries, slide, base, size, image, elf_ranges, elf_entry, adjusted,
                         section>>

(* elf64_get_ranges: every loadable segment is in the higher half or the   *)
(* file is relocatable, or ElfCheck had refused it.                        *)
MemRange(b, t, fl) == [base |-> b, top |-> t, fl |-> fl]
elf64_get_ranges(ls) ==
  [i \in DOMAIN ls |-> LET to == (ls[i].va + slide) % Top
                       IN MemRange(PageDown(to), PageUp(to + ls[i].ms), ls[i].fl)]

ElfSegment ==
  /\ xpc = "segments"
  /\ LET ls == Loadable(exe)
         p == ls[at]
         copied == [w \in 0 .. (p.ms - 1) |-> IF w < p.fs THEN exe.words[p.off + w]
                                              ELSE image[p.va - base + w]]
     IN IF at > Len(ls)
        THEN /\ elf_entry' = (exe.entry + slide) % Top
             /\ base' = (base + slide) % Top
             /\ IF \E q \in ToSet(ls) : ~Fits64((q.va + slide) % Top, q.ms) \/ ~Fits64(PageUp(((q.va + slide) % Top) + q.ms), 0)
                THEN xpc' = "panic" /\ UNCHANGED elf_ranges
                ELSE xpc' = "done" /\ elf_ranges' = elf64_get_ranges(ls)
             /\ UNCHANGED <<exe, kaslr, at, tries, slide, size, image, relocs, adjusted, section>>
        ELSE IF p.fs > p.ms \/ p.off + p.fs > exe.len THEN XPanic
        ELSE \E buf \in {elf64_apply_relocations(exe, relocs, copied, p.va, slide)} :
               IF \E w \in DOMAIN buf : buf[w] = -1 THEN XPanic
               ELSE /\ image' = [w \in DOMAIN image |->
                                   IF w - (p.va - base) \in DOMAIN buf THEN buf[w - (p.va - base)]
                                   ELSE image[w]]
                    /\ at' = at + 1
                    /\ UNCHANGED <<exe, xpc, kaslr, tries, slide, base, size, relocs, elf_ranges,
                                   elf_entry, adjusted, section>>

(* elf64_load_section of a section the file holds, with the slide that     *)
(* elf64_load returned.                                                    *)
elf64_load_section(s) ==
  elf64_apply_relocations(exe, relocs, [w \in 0 .. (s.n - 1) |-> exe.words[s.off + w]], s.addr, slide)

LoadSection ==
  /\ xpc = "done" /\ exe.kind = "elf" /\ section = {}
  /\ \E s \in ToSet(exe.sh) :
       IF s.off >= exe.len \/ s.n > exe.len - s.off THEN xpc' = "nosection" /\ UNCHANGED section
       ELSE section' = {[of |-> s, words |-> elf64_load_section(s)]} /\ UNCHANGED xpc
  /\ UNCHANGED <<exe, kaslr, at, tries, slide, base, size, image, relocs, elf_ranges, elf_entry, adjusted>>

(***************************************************************************)
(* elf32_load_elsewhere, elf64_load_elsewhere: by physical address, the    *)
(* entry point translated by the first segment that holds it.              *)
(***************************************************************************)
ElsewhereBegin ==
  /\ xpc = "start" /\ exe.kind = "elsewhere"
  /\ LET ls == Loadable(exe)
         low == Min({p.pa : p \in ToSet(ls)})
         top == Max({p.pa + p.ms : p \in ToSet(ls)})
     IN IF ls = <<>> \/ (\E p \in ToSet(ls) : ~Fits64(p.pa, p.ms)) \/ top - low > exe.max THEN XPanic
        ELSE /\ base' = low /\ size' = top - low
             /\ image' = [w \in 0 .. (top - low - 1) |-> 0]
             /\ elf_entry' = exe.entry
             /\ xpc' = "elsewhere" /\ at' = 1
             /\ UNCHANGED <<exe, kaslr, tries, slide, relocs, elf_ranges, adjusted, section>>

Translates(p) == ~adjusted /\ elf_entry >= p.va /\ Fits64(p.va, p.ms) /\ elf_entry < p.va + p.ms

ElsewhereSegment ==
  /\ xpc = "elsewhere"
  /\ LET ls == Loadable(exe)
         p == ls[at]
     IN IF at > Len(ls) THEN xpc' = "done" /\ UNCHANGED <<image, at, elf_entry, adjusted>>
        ELSE IF p.fs > p.ms \/ p.off + p.fs > exe.len
        THEN xpc' = "panic" /\ UNCHANGED <<image, at, elf_entry, adjusted>>
        ELSE /\ image' = [w \in DOMAIN image |->
                            IF w - (p.pa - base) \in 0 .. (p.fs - 1) THEN exe.words[p.off + w - (p.pa - base)]
                            ELSE image[w]]
             /\ at' = at + 1 /\ UNCHANGED xpc
             /\ IF Translates(p) THEN elf_entry' = elf_entry - p.va + p.pa /\ adjusted' = TRUE
                ELSE UNCHANGED <<elf_entry, adjusted>>
  /\ UNCHANGED <<exe, kaslr, tries, slide, base, size, relocs, elf_ranges, section>>

(***************************************************************************)
(* pe64_load                                                               *)
(***************************************************************************)
PeCheck ==
  /\ xpc = "start" /\ exe.kind = "pe"
  /\ IF exe.al = 0 \/ ~Pow2(exe.al) \/ exe.al < PageW \/ (exe.base < Half /\ exe.stripped)
        \/ exe.hdrs > exe.len \/ exe.hdrs > exe.size
     THEN XPanic
     ELSE /\ base' = exe.base /\ size' = exe.size
          /\ image' = [w \in 0 .. (exe.size - 1) |-> IF w < exe.hdrs THEN exe.words[w] ELSE 0]
          /\ slide' = IF exe.base < Half THEN Half - exe.base ELSE 0
          /\ xpc' = "slide"
          /\ UNCHANGED <<exe, kaslr, at, tries, relocs, elf_ranges, elf_entry, adjusted, section>>

Raw(s) == Smaller(s.vs, s.raw)

SectionsRefused(f) ==
  \/ \E s \in ToSet(f.secs) : s.va + s.vs > f.size \/ s.va % f.al # 0 \/ s.ptr + Raw(s) > f.len
  \/ \E i \in 2 .. Len(f.secs) : f.secs[i].va < f.secs[i - 1].va + f.secs[i - 1].vs
  \/ f.secs # <<>> /\ f.secs[1].va # 0 /\ PageUp(f.hdrs) > f.secs[1].va
  \/ f.imports

PeSections ==
  /\ xpc = "load" /\ exe.kind = "pe"
  /\ IF SectionsRefused(exe) THEN XPanic
     ELSE /\ image' = FoldLeft(LAMBDA m, s : [w \in DOMAIN m |-> IF w - s.va \in 0 .. (Raw(s) - 1)
                                                               THEN exe.words[s.ptr + w - s.va] ELSE m[w]],
                               image, exe.secs)
          /\ xpc' = "blocks" /\ at' = 1
          /\ UNCHANGED <<exe, kaslr, tries, slide, base, size, relocs, elf_ranges, elf_entry, adjusted,
                         section>>

(* The low half of a word is a number below LowHalf. *)
LowHalf == 8
PeStored(old, type) ==
  IF type = "dir64" THEN (old + slide) % Top
  ELSE (old - (old % LowHalf)) + ((old + slide) % LowHalf)

(* An entry of a block: <<>> is a panic. *)
PeEntry(m, b, e) ==
  IF e.type = "absolute" \/ m = <<>> THEN m
  ELSE IF e.type \notin {"highlow", "dir64"} \/ (e.type = "highlow" /\ exe.base < Half)
          \/ b.va + e.off + 1 > exe.size
  THEN <<>>
  ELSE [m EXCEPT ![b.va + e.off] = PeStored(@, e.type)]

(* What is left of the relocation directory, of exe.dir words. *)
Left == exe.dir - FoldLeft(LAMBDA n, x : n + x.size, 0, SubSeq(exe.blocks, 1, at - 1))

PeBlock ==
  /\ xpc = "blocks" /\ Left >= 1
  /\ LET b == exe.blocks[at]
     IN IF b.size < 1 \/ b.size > Left \/ b.va >= exe.size THEN XPanic
        ELSE \E m \in {FoldLeft(LAMBDA x, e : PeEntry(x, b, e), image, b.entries)} :
               IF m = <<>> THEN XPanic
               ELSE /\ image' = m /\ at' = at + 1
                    /\ UNCHANGED <<exe, xpc, kaslr, tries, slide, base, size, relocs, elf_ranges,
                                   elf_entry, adjusted, section>>

Clamp(b, n, top) == Smaller(b + n, top)

AlignUp(n, al) == n + al - 1 - ((n + al - 1) % al)

PeRanges(to) ==
  LET top == to + PageUp(exe.size)
      own == \E s \in ToSet(exe.secs) : s.va = 0
      heads == IF own THEN <<>> ELSE <<MemRange(to, Clamp(to, PageUp(exe.hdrs), top), {"r"})>>
  IN heads \o [i \in DOMAIN exe.secs |->
                 LET s == exe.secs[i]
                 IN MemRange(to + s.va, Clamp(to + s.va, AlignUp(s.vs, exe.al), top), s.fl)]

PeDone ==
  /\ xpc = "blocks" /\ Left < 1
  /\ LET to == (base + slide) % Top
     IN IF ~Fits64(to, PageUp(exe.size)) THEN XPanic
        ELSE /\ base' = to /\ elf_entry' = to + exe.entry
             /\ elf_ranges' = PeRanges(to)
             /\ xpc' = "done"
             /\ UNCHANGED <<exe, kaslr, at, tries, slide, size, image, relocs, adjusted, section>>

XInit ==
  /\ exe \in Files /\ kaslr \in BOOLEAN
  /\ xpc = "start" /\ at = 0 /\ tries = 0 /\ slide = 0 /\ base = 0 /\ size = 0
  /\ image = <<>> /\ relocs = <<>> /\ elf_ranges = <<>> /\ elf_entry = 0 /\ adjusted = FALSE
  /\ section = {}

XNext ==
  \/ ElfCheck \/ SlideImage \/ ElfPrepare \/ ElfSegment \/ LoadSection
  \/ ElsewhereBegin \/ ElsewhereSegment
  \/ PeCheck \/ PeSections \/ PeBlock \/ PeDone

XSpec == XInit /\ [][XNext]_xvars

(***************************************************************************)
(* Properties                                                              *)
(***************************************************************************)
(* The words a RELR table relocates, by its definition: an address entry   *)
(* its address, the k-th bitmap after an address a the words of a + 1 +    *)
(* (k - 1) * RelrBits onwards whose bit is set.                            *)
RelrPlaces(es) ==
  LET anchor(i) == Max({j \in 1 .. i : ~es[j].map})
      from(i) == es[anchor(i)].addr + 1 + (i - anchor(i) - 1) * RelrBits
  IN {e.addr : e \in {x \in ToSet(es) : ~x.map}}
     \cup UNION {{from(i) + b - 1 : b \in es[i].bits} : i \in {j \in DOMAIN es : es[j].map}}

PeEntries(f) == UNION {{<<b.va + e.off, e.type>> : e \in {x \in ToSet(b.entries) : x.type # "absolute"}} :
                       b \in ToSet(f.blocks)}

(* What the word at offset w of an image should be before relocation. *)
Plain(w) ==
  IF exe.kind = "elf"
  THEN LET ps == {p \in ToSet(Loadable(exe)) : (base - slide) + w - p.va \in 0 .. (p.fs - 1)}
       IN IF ps = {} THEN 0 ELSE LET p == CHOOSE q \in ps : TRUE IN exe.words[p.off + (base - slide) + w - p.va]
  ELSE LET ss == {s \in ToSet(exe.secs) : w - s.va \in 0 .. (Raw(s) - 1)}
       IN IF ss # {} THEN LET s == CHOOSE q \in ss : TRUE IN exe.words[s.ptr + w - s.va]
          ELSE IF w < exe.hdrs THEN exe.words[w] ELSE 0

InSegment(va) == \E p \in ToSet(Loadable(exe)) : va \in p.va .. (p.va + p.ms - 1)

(* A loaded image is the file's segments or sections at their addresses,   *)
(* zero where the file has nothing, each relocation applied once with the  *)
(* slide the image ends up with, whatever the order of segments and        *)
(* tables and however often the slide was drawn (elf64_load, pe64_load).   *)
ImageExact ==
  (xpc = "done" /\ exe.kind # "elsewhere") =>
    \A w \in DOMAIN image :
      LET va == (base - slide) + w
          relr == exe.kind = "elf" /\ va \in RelrPlaces(RelrEntries(exe)) /\ InSegment(va)
          rela == IF exe.kind # "elf" \/ ~InSegment(va) THEN {}
                  ELSE {r \in ToSet(RelaEntries(exe, "rela", "relasz") \o RelaEntries(exe, "jmprel", "pltrelsz")) : r.at = va}
          pe == IF exe.kind = "pe" THEN {e \in PeEntries(exe) : e[1] = w} ELSE {}
      IN IF relr /\ rela = {} THEN image[w] = (Plain(w) + slide) % Top
         ELSE IF ~relr /\ Cardinality(rela) = 1
         THEN image[w] = Relocated(exe, CHOOSE r \in rela : TRUE, Plain(w), slide)
         ELSE IF pe # {} THEN \E e \in pe : image[w] = PeStored(Plain(w), e[2])
         ELSE rela = {} => image[w] = Plain(w)

(* The ranges to be mapped lie in the top 2 GiB without wrapping, within   *)
(* the pages of the image; ranges of different permissions never share a   *)
(* page; and every segment, section and header is in a range with its own  *)
(* permissions (elf64_load's and pe64_load's checks, the KASLR retry).     *)
RangesSound ==
  (xpc = "done" /\ exe.kind # "elsewhere") =>
    LET want == IF exe.kind = "elf"
                THEN {<<p.va + slide, p.ms, p.fl>> : p \in ToSet(Loadable(exe))}
                ELSE {<<base + s.va, s.vs, s.fl>> : s \in ToSet(exe.secs)}
    IN /\ base >= Half /\ base + size <= Top
       /\ \A r \in ToSet(elf_ranges) : base <= r.base /\ r.base <= r.top /\ r.top <= base + PageUp(size)
       /\ \A r, q \in ToSet(elf_ranges) : r.fl # q.fl => r.top <= q.base \/ q.top <= r.base
       /\ \A x \in want : \E r \in ToSet(elf_ranges) : r.fl = x[3] /\ r.base <= x[1] % Top /\ (x[1] % Top) + x[2] <= r.top

(* elf64_load_section yields what the loaded image holds at the section's  *)
(* address, for a section that lies in the file part of a segment.         *)
SectionAgrees ==
  \A s \in section : \A w \in DOMAIN s.words :
    (\E p \in ToSet(Loadable(exe)) : /\ s.of.addr >= p.va /\ s.of.addr + s.of.n <= p.va + p.fs
                                     /\ s.of.off - p.off = s.of.addr - p.va) =>
      s.words[w] = image[s.of.addr + w - (base - slide)]

(* The entry point handed to a Multiboot kernel is the physical address of *)
(* the entry in the first segment that holds it, also where that address   *)
(* is itself a virtual address of another segment; and the words of a      *)
(* segment are at its physical address unless a later one covers them      *)
(* (elf32_load_elsewhere, elf64_load_elsewhere).                           *)
ElsewhereExact ==
  (xpc = "done" /\ exe.kind = "elsewhere") =>
    LET ls == Loadable(exe)
        i == SelectInSeq(ls, LAMBDA p : exe.entry \in p.va .. (p.va + p.ms - 1))
    IN /\ elf_entry = IF i = 0 THEN exe.entry ELSE ls[i].pa + (exe.entry - ls[i].va)
       /\ \A k \in DOMAIN ls : \A w \in 0 .. (ls[k].fs - 1) :
            (\A j \in (k + 1) .. Len(ls) : ls[k].pa + w \notin ls[j].pa .. (ls[j].pa + ls[j].fs - 1)) =>
              image[ls[k].pa + w - base] = exe.words[ls[k].off + w]

(* The executable is loaded as its file says, in every order of segments,  *)
(* relocations and retried slides: the image, the ranges to map with their *)
(* permissions, the sections and the entry point belong together (elf.c,   *)
(* pe.c).                                                                  *)
LoadedExact == ImageExact /\ RangesSound /\ SectionAgrees /\ ElsewhereExact
=============================================================================

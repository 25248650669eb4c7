----------------------------- MODULE Multiboot -----------------------------
(***************************************************************************)
(* Limine's Multiboot 1 and 2 loaders (common/protos/multiboot1.c,         *)
(* multiboot2.c), the placement of what they hand over                     *)
(* (common/lib/elsewhere.c) and the stub that moves it there               *)
(* (common/protos/multiboot_reloc.asm_x86).                                *)
(*                                                                         *)
(* Memory is a function from page to type, and from page to what the page  *)
(* holds; adjoining pages of one type are one memory map entry, which is   *)
(* what the sanitising of the map makes of them.  File offsets, lengths    *)
(* and addresses are in pages, the sizes of the pieces of the information  *)
(* structure in half alignment units.                                      *)
(***************************************************************************)
EXTENDS Integers, Sequences, FiniteSets, SequencesExt, FiniteSetsExt, TLC

CONSTANTS Loads,           \* the boots: [proto, uefi, map, file, mods, given]
          RamTop,          \* pages there are addresses for
          MbTop,           \* 0x100000000
          MbLow,           \* 0x100000
          InfoLoc,         \* 0x10000
          MEMMAP_MAX       \* the entries the memory map tag has room for

VARIABLES boot, mbpc, map, ram, header, file_at, ranges, target, entry_point,
          reloc_slide, array_at, stub_at, info, info_size,
          todo,            \* the section, module or range to come
          told,            \* where the information says a piece is
          freed,           \* history: the page the first array of ranges had
          asked,           \* history: the last search for a place
          orig             \* history: what memory held when the stub was entered

mbvars == <<boot, mbpc, map, ram, header, file_at, ranges, target, entry_point,
            reloc_slide, array_at, stub_at, info, info_size, todo, told, freed, asked, orig>>
mbkept == <<boot, header, file_at, target, entry_point, reloc_slide, array_at, stub_at, freed, orig>>

Pg(b, n) == b .. (b + n - 1)
RamType(t) == t \in {"usable", "boot"}           \* elsewhere_memmap_type
Is(m, b, n, ts) == Pg(b, n) \subseteq {p \in DOMAIN m : m[p] \in ts}
Put(m, b, n, t) == [p \in DOMAIN m |-> IF p \in Pg(b, n) THEN t ELSE m[p]]
Fill(r, b, n, who, k) == [p \in DOMAIN r |-> IF p \in Pg(b, n) THEN <<who, k, p - b>> ELSE r[p]]
Meet(b1, t1, b2, t2) == b1 < t2 /\ b2 < t1        \* elsewhere_overlap_check
Over(b1, n1, b2, n2) == Meet(b1, b1 + n1, b2, b2 + n2)

(* ext_mem_alloc: the top of the highest usable entry that is large enough *)
Spots(m, n) == {b \in DOMAIN m : b + n <= MbTop /\ Is(m, b, n, {"usable"})}
Highest(m, n) == Max(Spots(m, n))

(***************************************************************************)
(* elsewhere.c                                                             *)
(***************************************************************************)
(* The memory map entries, as [base, top]. *)
RunsOf(m) ==
  {x \in [base : DOMAIN m, top : 1 .. RamTop] :
     /\ x.base < x.top /\ x.top - 1 \in DOMAIN m /\ RamType(m[x.base])
     /\ \A p \in x.base .. (x.top - 1) : m[p] = m[x.base]
     /\ x.base - 1 \notin DOMAIN m \/ m[x.base - 1] # m[x.base]
     /\ x.top \notin DOMAIN m \/ m[x.top] # m[x.base]}

(* elsewhere_next_memmap_candidate: 0 is "no candidate" *)
NextSpot(m, t, n) ==
  LET cut(x) == [x EXCEPT !.top = IF @ > MbTop THEN MbTop ELSE @]
      under == {cut(x) : x \in {y \in RunsOf(m) : y.base < MbTop}}
      ahead == {x.base : x \in {y \in under : t < y.base /\ y.top - y.base >= n}}
      past == {x.top : x \in {y \in under : y.base <= t /\ t < y.top}}
  IN IF ahead \cup past = {} THEN 0 ELSE Min(ahead \cup past)

(* Where to go on past the first range whose target or source is hit; 0    *)
(* if none is.                                                             *)
InTheWay(rs, t, n) ==
  LET onto(i) == Over(rs[i].target, rs[i].length, t, n)
      from(i) == Over(rs[i].source, rs[i].length, t, n)
      is == {i \in DOMAIN rs : onto(i) \/ from(i)}
      i == Min(is)
  IN IF is = {} THEN 0
     ELSE (IF onto(i) THEN rs[i].target ELSE rs[i].source) + rs[i].length

(* The retry loop of elsewhere_append: the target, or -1. *)
RECURSIVE Search(_, _, _, _, _)
Search(m, rs, t, n, wrap) ==
  LET again == IF wrap THEN Search(m, rs, MbLow, n, FALSE) ELSE -1
      way == InTheWay(rs, t, n)
  IN IF t + n > MbTop THEN again
     ELSE IF way # 0 THEN Search(m, rs, way, n, wrap)
     ELSE IF Is(m, t, n, {"usable"}) \/ Is(m, t, n, {"boot"}) THEN t
     ELSE LET next == NextSpot(m, t, n)
          IN IF next = 0 THEN again ELSE Search(m, rs, next, n, wrap)

Above(rs) == Max({r.target + r.length : r \in ToSet(rs)})

(* elsewhere_reserve_target *)
Reserve(m, b, n) == [p \in DOMAIN m |-> IF p \in Pg(b, n) /\ m[p] = "usable" THEN "boot" ELSE m[p]]

Stop(why) == mbpc' = why /\ UNCHANGED <<mbkept, map, ram, ranges, info, info_size, todo, told,
                                        asked>>
Panics == Stop("panic")

(* elsewhere_append of n pages at source, in memory m, from start (-1: the *)
(* top of the ranges); who names the piece, next is where the caller is    *)
(* then.                                                                   *)
elsewhere_append(m, source, start, n, who, next) ==
  LET from == IF start = -1 THEN Above(ranges) ELSE start
      wrap == header.reloc # {}
  IN \E t \in {Search(m, ranges, from, n, wrap)} :
       /\ asked' = {[m |-> m, rs |-> ranges, from |-> from, n |-> n, wrap |-> wrap, got |-> t]}
       /\ IF t = -1 THEN mbpc' = "panic" /\ UNCHANGED <<map, ranges, told>>
          ELSE /\ map' = Reserve(m, t, n)
               /\ ranges' = Append(ranges, [source |-> source, target |-> t, length |-> n])
               /\ told' = told @@ (who :> [at |-> t, n |-> n])
               /\ mbpc' = next

(***************************************************************************)
(* The Multiboot 2 header: its tags in order.                              *)
(***************************************************************************)
NoHeader == [bad |-> FALSE, fbtag |-> FALSE, entry |-> -1, address |-> {}, reloc |-> {},
             new |-> FALSE, old |-> FALSE, elf |-> FALSE, fbreq |-> FALSE,
             declared |-> FALSE, console |-> FALSE]

Served == {"cmdline", "mmap", "fb", "new", "old", "elf"}

(* One request of an information request tag. *)
AskStep(h, req, r) ==
  CASE r = "fb" -> [h EXCEPT !.fbreq = req, !.declared = TRUE]
    [] r = "new" -> [h EXCEPT !.new = req]
    [] r = "old" -> [h EXCEPT !.old = req]
    [] r = "elf" -> [h EXCEPT !.elf = req]
    [] r \notin Served -> [h EXCEPT !.bad = @ \/ req]
    [] OTHER -> h

TagStep(h, t) ==
  CASE t.type = "request" -> FoldLeft(LAMBDA a, r : AskStep(a, t.req, r), h, t.asks)
    [] t.type = "console" -> IF t.ok THEN [h EXCEPT !.console = t.text] ELSE h
    [] t.type = "fb" -> [h EXCEPT !.fbtag = @ \/ t.ok]
    [] t.type = "entry" -> IF t.ok THEN [h EXCEPT !.entry = t.at] ELSE h
    [] t.type = "address" -> IF t.ok THEN [h EXCEPT !.address = {t.load}] ELSE h
    [] t.type = "reloc" -> IF t.ok THEN [h EXCEPT !.reloc = {t.pref}] ELSE h
    [] t.type \in {"efibs", "odd"} -> [h EXCEPT !.bad = @ \/ t.req]
    [] OTHER -> h

Tags2 == FoldLeft(LAMBDA h, t : IF h.bad THEN h ELSE TagStep(h, t), NoHeader, boot.file.tags)

(* Multiboot 1 has its fields in the header itself. *)
Header1 == [NoHeader EXCEPT !.address = boot.file.address, !.entry = boot.file.entry,
                            !.fbtag = boot.file.video, !.bad = boot.file.unknown]

(* Console flags say text only, and UEFI has no text mode. *)
TextOnly(h) == boot.uefi /\ h.console /\ ~h.fbtag /\ ~h.declared

Header ==
  /\ mbpc = "header"
  /\ LET h == IF boot.proto = 2 THEN Tags2 ELSE Header1
         n == boot.file.size
     IN IF h.bad \/ (boot.proto = 2 /\ TextOnly(h)) \/ Spots(map, n) = {} THEN Panics
        ELSE /\ header' = h
             /\ file_at' = Highest(map, n)
             /\ map' = Put(map, file_at', n, "kernel")
             /\ ram' = Fill(ram, file_at', n, "file", 0)
             /\ mbpc' = "image"
             /\ UNCHANGED <<boot, ranges, target, entry_point, reloc_slide, array_at, stub_at,
                            info, info_size, todo, told, freed, asked, orig>>

(***************************************************************************)
(* The executable: by the addresses of the header, or as an ELF file.      *)
(***************************************************************************)
Refused == [src |-> 0, at |-> 0, load |-> 0, full |-> 0, ok |-> FALSE]

ByAddress(a) ==
  LET hoff == boot.file.hoff
      whole == a.load_addr = -1                    \* Multiboot 2 only
      at == IF whole THEN a.header_addr - hoff ELSE a.load_addr
      src == IF whole THEN 0 ELSE hoff - (a.header_addr - a.load_addr)
      load == IF a.load_end # 0 THEN a.load_end - at ELSE boot.file.size - src
      full == IF a.bss_end # 0 THEN a.bss_end - at ELSE load
  IN IF \/ (~whole /\ a.load_addr > a.header_addr)
        \/ at < 0 \/ src < 0 \/ load < 0
        \/ full < load \/ src + load > boot.file.size
     THEN Refused
     ELSE [src |-> src, at |-> at, load |-> load, full |-> full, ok |-> TRUE]

(* What elf32_load_elsewhere and elf64_load_elsewhere return. *)
ByElf == [src |-> boot.file.elf.off, at |-> boot.file.elf.base, load |-> boot.file.elf.size,
          full |-> boot.file.elf.size, ok |-> TRUE]

Image == IF header.address = {} THEN ByElf
         ELSE ByAddress(CHOOSE a \in header.address : TRUE)

EntryOf == IF header.entry # -1 THEN header.entry
           ELSE IF header.address = {} THEN boot.file.elf.entry ELSE -1

(* The image is staged, then the one range is allocated. *)
LoadImage ==
  /\ mbpc = "image"
  /\ LET i == Image
         m == Put(map, Highest(map, i.full), i.full, "boot")
     IN IF ~i.ok \/ EntryOf = -1 \/ Spots(map, i.full) = {} THEN Panics
        ELSE IF Spots(m, 1) = {} THEN Panics
        ELSE LET s == Highest(map, i.full)
             IN /\ ranges' = <<[source |-> s, target |-> i.at, length |-> i.full]>>
                /\ ram' = [p \in DOMAIN ram |->
                             IF p \in Pg(s, i.load) THEN <<"file", 0, i.src + p - s>>
                             ELSE IF p \in Pg(s, i.full) THEN <<"zero", 0, 0>> ELSE ram[p]]
                /\ array_at' = Highest(m, 1)
                /\ map' = Put(m, array_at', 1, "boot")
                /\ target' = i.at
                /\ entry_point' = EntryOf
                /\ mbpc' = "place"
                /\ UNCHANGED <<boot, header, file_at, reloc_slide, stub_at, info, info_size,
                               todo, told, freed, asked, orig>>

(***************************************************************************)
(* The load address: as linked, or searched for a relocatable image.       *)
(***************************************************************************)
(* check_usable_memory *)
LoadableAt(b, n) == Is(map, b, n, {"usable", "boot", "kernel"} \cup (IF boot.uefi THEN {"efi"} ELSE {}))
Up(n, a) == ((n + a - 1) \div a) * a

RECURSIVE Climb(_, _, _)
Climb(p, b, n) ==
  IF b + n > p.max THEN -1 ELSE IF LoadableAt(b, n) THEN b ELSE Climb(p, b + p.align, n)

RECURSIVE Descend(_, _, _)
Descend(p, b, n) ==
  IF LoadableAt(b, n) THEN b
  ELSE IF b - p.min < p.align THEN -1 ELSE Descend(p, b - p.align, n)

Slid(p, n) ==
  LET down == ((p.max - n) \div p.align) * p.align
  IN IF p.align = 0 THEN -1
     ELSE IF p.pref # 2 THEN Climb(p, Up(p.min, p.align), n)
     ELSE IF n > p.max \/ down < p.min THEN -1
     ELSE Descend(p, down, n)

Place ==
  /\ mbpc = "place"
  /\ LET n == ranges[1].length
         at == IF header.reloc = {} THEN target
               ELSE Slid(CHOOSE p \in header.reloc : TRUE, n)
         entry == entry_point + at - target
     IN IF at = -1 THEN Stop("noplace")
        ELSE IF \/ at + n > MbTop \/ ~LoadableAt(at, n)
                \/ entry < at \/ entry >= at + n
        THEN Panics
        ELSE /\ ranges' = [ranges EXCEPT ![1].target = at]
             /\ reloc_slide' = at - target
             /\ entry_point' = entry
             /\ mbpc' = "array"
             /\ UNCHANGED <<boot, map, ram, header, file_at, target, array_at, stub_at, info,
                            info_size, todo, told, freed, asked, orig>>

(* The array of ranges grows: a larger one is allocated and the first one  *)
(* freed.  Multiboot 2 has reserved the kernel's target before, Multiboot  *)
(* 1 reserves it after.                                                    *)
KernelReserved(m) == Reserve(m, ranges[1].target, ranges[1].length)
ReservedBefore2(m) == IF boot.proto = 2 THEN KernelReserved(m) ELSE m
ReservedAfter1(m) == IF boot.proto = 1 THEN KernelReserved(m) ELSE m

Grow ==
  /\ mbpc = "array"
  /\ LET before == ReservedBefore2(map)
         at == Highest(before, 1)
         grown == Put(Put(before, at, 1, "boot"), array_at, 1, "usable")
     IN IF Spots(before, 1) = {} THEN Panics
        ELSE /\ array_at' = at
             /\ freed' = array_at
             /\ map' = ReservedAfter1(grown)
             /\ ram' = Fill(ram, at, 1, "array", 0)
             /\ mbpc' = "info"
             /\ UNCHANGED <<boot, header, file_at, ranges, target, entry_point, reloc_slide,
                            stub_at, info, info_size, todo, told, asked, orig>>

(***************************************************************************)
(* The information structure: the room taken for it, and what is written.  *)
(***************************************************************************)
Aligned(n) == Up(n, 2)
Sum(s) == FoldLeft(LAMBDA a, x : a + x, 0, s)
Elf == header.address = {}
Secs == IF Elf THEN boot.file.secs ELSE <<>>
Table == Len(Secs) * 3
Strings == [i \in DOMAIN boot.mods |-> Aligned(boot.mods[i].string + 1)]

get_multiboot1_info_size ==
  4 + Aligned(boot.given.cmdline + 1) + 4 + Aligned(Table) + Aligned(Len(boot.mods) * 3)
  + Sum(Strings) + Aligned(MEMMAP_MAX * 3)

get_multiboot2_info_size ==
  2 + Aligned(boot.given.cmdline + 1) + 4 + Aligned(5) + Aligned(5) + Aligned(4) + Aligned(Table + 1)
  + Sum([i \in DOMAIN Strings |-> Aligned(boot.mods[i].string + 2)])
  + Aligned(3) + Sum([i \in DOMAIN boot.given.smbios |-> Aligned(boot.given.smbios[i] + 1)])
  + Aligned(3) + Aligned(MEMMAP_MAX * 3 + 1)
  + (IF boot.uefi THEN Aligned(boot.given.efimax * 2 + 1) + 2 * Aligned(3) ELSE 0)
  + Aligned(5) + 2

Tag(type, n) == [type |-> type, size |-> Aligned(n)]
Written == Sum([i \in DOMAIN info |-> info[i].size])
InfoPages == 1

InfoPlace ==
  /\ mbpc = "info"
  /\ IF Spots(map, InfoPages) = {} THEN Panics
     ELSE \E s \in {Highest(map, InfoPages)} :
            /\ elsewhere_append(Put(map, s, InfoPages, "boot"), s, InfoLoc, InfoPages,
                                <<"info", 0>>, "secs")
            /\ ram' = Fill(ram, s, InfoPages, "info", 0)
            /\ info_size' = IF boot.proto = 1 THEN get_multiboot1_info_size ELSE get_multiboot2_info_size
            /\ info' = <<Tag("start", IF boot.proto = 1 THEN 4 ELSE 2)>>
            /\ todo' = 1
            /\ UNCHANGED mbkept

(* One section header: a section the file has and the image has not is put *)
(* somewhere, one of a relocated image is moved with it.                   *)
SectionOut ==
  /\ mbpc = "secs" /\ todo <= Len(Secs)
  /\ LET s == Secs[todo]
     IN /\ IF s.addr = 0 /\ s.size # 0 /\ s.off + s.size <= boot.file.size
           THEN elsewhere_append(map, file_at + s.off, -1, s.size, <<"section", todo>>, "secs")
           ELSE /\ told' = IF s.addr = 0 THEN told
                           ELSE told @@ (<<"section", todo>> :>
                                           [at |-> s.addr + reloc_slide, n |-> s.size])
                /\ UNCHANGED <<mbpc, map, ranges, asked>>
        /\ todo' = todo + 1
        /\ UNCHANGED <<mbkept, ram, info, info_size>>

SectionsDone ==
  /\ mbpc = "secs" /\ todo > Len(Secs)
  /\ IF boot.proto = 2 /\ header.elf /\ ~Elf THEN Panics
     ELSE /\ info' = info \o (IF Elf THEN <<Tag("elf", Table + (boot.proto - 1))>> ELSE <<>>)
                          \o (IF header.reloc # {} THEN <<Tag("base", 3)>> ELSE <<>>)
                          \o (IF boot.proto = 1 THEN <<Tag("mods", Len(boot.mods) * 3)>> ELSE <<>>)
          /\ mbpc' = "mods"
          /\ todo' = 1
          /\ UNCHANGED <<mbkept, map, ram, ranges, info_size, told, asked>>

(* Multiboot 1 stores a module's string, Multiboot 2 a tag with it. *)
mods1(m) == Tag("module", m.string + 1)
module_tag(m) == Tag("module", m.string + 2)

(* A module is read into memory of its own, then placed. *)
Module ==
  /\ mbpc = "mods" /\ todo <= Len(boot.mods)
  /\ LET m == boot.mods[todo]
     IN IF Spots(map, m.size) = {} THEN Panics
        ELSE \E s \in {Highest(map, m.size)} :
               /\ elsewhere_append(Put(map, s, m.size, "boot"), s, -1, m.size,
                                   <<"module", todo>>, "mods")
               /\ ram' = Fill(ram, s, m.size, "module", todo)
               /\ info' = Append(info, IF boot.proto = 1 THEN mods1(m) ELSE module_tag(m))
               /\ todo' = todo + 1
               /\ UNCHANGED <<mbkept, info_size>>

(* What does not depend on memory any more: strings, video mode, ACPI and  *)
(* SMBIOS tables, and the EFI pointers.                                    *)
NoVideo == boot.uefi /\ ~boot.given.video
Lacks == \/ (NoVideo /\ (header.fbreq \/ header.console))
         \/ (header.new /\ ~boot.given.new)
         \/ (header.old /\ ~boot.given.old)

If(c, t) == IF c THEN t ELSE <<>>
lowmem_strings == <<Tag("cmdline", boot.given.cmdline + 1), Tag("name", 4)>>
smbios_tags == [i \in DOMAIN boot.given.smbios |-> Tag("smbios", boot.given.smbios[i] + 1)]
efi_tags == If(boot.uefi, <<Tag("efi", 3)>>)
StaticTags ==
  lowmem_strings
  \o If(boot.proto = 2,
        If(boot.uefi, <<Tag("handle", 3)>>)
        \o If(~NoVideo, <<Tag("fb", 5)>>)
        \o If(boot.given.new, <<Tag("new", 5)>>) \o If(boot.given.old, <<Tag("old", 4)>>)
        \o smbios_tags \o efi_tags)

Static ==
  /\ mbpc = "mods" /\ todo > Len(boot.mods)
  /\ IF (boot.proto = 2 /\ Lacks) \/ Spots(map, 1) = {} THEN Panics
     ELSE \E s \in {Highest(map, 1)} :
            /\ info' = info \o StaticTags
            /\ stub_at' = s
            /\ map' = Put(map, s, 1, "boot")
            /\ ram' = Fill(ram, s, 1, "stub", 0)
            /\ mbpc' = "exit"
            /\ UNCHANGED <<boot, header, file_at, ranges, target, entry_point, reloc_slide,
                           array_at, info_size, todo, told, freed, asked, orig>>

mmap1(g) == <<Tag("mmap", g.entries * 3)>>
mmap_tags(g) ==
  <<Tag("mmap", g.entries * 3 + 1), Tag("meminfo", 3)>>
  \o If(boot.uefi, <<Tag("efimmap", g.efi * 2 + 1)>>)
  \o If(g.dhcp, <<Tag("network", 5)>>) \o <<Tag("end", 2)>>

(* The boot services are left; the memory maps are written. *)
Exit ==
  /\ mbpc = "exit"
  /\ LET g == boot.given
     IN IF g.entries > MEMMAP_MAX \/ (boot.proto = 2 /\ boot.uefi /\ g.efi > g.efimax) THEN Panics
        ELSE /\ info' = info \o (IF boot.proto = 1 THEN mmap1(g) ELSE mmap_tags(g))
             /\ orig' = ram
             /\ mbpc' = "copy"
             /\ todo' = 1
             /\ UNCHANGED <<boot, header, file_at, target, entry_point, reloc_slide, array_at,
                            stub_at, map, ram, ranges, info_size, told, freed, asked>>

(***************************************************************************)
(* The stub: one range after the other, in the direction that keeps a      *)
(* source that overlaps its own target.                                    *)
(***************************************************************************)
Moved(r, x, i) == [r EXCEPT ![x.target + i] = r[x.source + i]]

(* mutant: always from the first byte on *)
Copied_Forwards(r, x) ==
  FoldLeft(LAMBDA a, i : Moved(a, x, i - 1), r, [i \in 1 .. x.length |-> i])

Copied(r, x) ==
  FoldLeft(LAMBDA a, i : Moved(a, x, IF x.target <= x.source THEN i - 1 ELSE x.length - i),
           r, [i \in 1 .. x.length |-> i])

Alive == ram[array_at] = <<"array", 0, 0>> /\ ram[stub_at] = <<"stub", 0, 0>>

Stub ==
  /\ mbpc = "copy"
  /\ IF ~Alive /\ todo <= Len(ranges) THEN mbpc' = "lost" /\ UNCHANGED <<ram, todo>>
     ELSE IF todo > Len(ranges)
       THEN mbpc' = (IF ram[stub_at] = <<"stub", 0, 0>> THEN "jump" ELSE "lost") /\ UNCHANGED <<ram, todo>>
     ELSE /\ ram' = Copied(ram, ranges[todo])
          /\ todo' = todo + 1
          /\ UNCHANGED mbpc
  /\ UNCHANGED <<mbkept, map, ranges, info, info_size, told, asked>>

MbInit ==
  /\ boot \in Loads
  /\ mbpc = "header" /\ map = boot.map
  /\ ram = [p \in DOMAIN boot.map |-> <<"old", 0, p>>] /\ orig = <<>>
  /\ header = NoHeader /\ file_at = 0 /\ ranges = <<>> /\ target = 0 /\ entry_point = 0
  /\ reloc_slide = 0 /\ array_at = 0 /\ stub_at = 0 /\ info = <<>> /\ info_size = 0
  /\ todo = 0 /\ told = <<>> /\ freed = 0 /\ asked = {}

MbNext == Header \/ LoadImage \/ Place \/ Grow \/ InfoPlace \/ SectionOut \/ SectionsDone
          \/ Module \/ Static \/ Exit \/ Stub

MbSpec == MbInit /\ [][MbNext]_mbvars

(***************************************************************************)
(* Properties.                                                             *)
(***************************************************************************)
(* elsewhere_append finds the lowest place at or above the one asked for   *)
(* that lies in one entry of free or reclaimable memory below 4 GiB and    *)
(* meets no range's target or source - for a relocatable kernel starting   *)
(* over at 1 MiB - and fails only when there is none: no jump of its       *)
(* retry loop skips a place (elsewhere.c:82-145).                          *)
FirstFit ==
  \A a \in asked :
    LET free(t) == /\ t + a.n <= MbTop
                   /\ Is(a.m, t, a.n, {"usable"}) \/ Is(a.m, t, a.n, {"boot"})
                   /\ \A i \in DOMAIN a.rs :
                        /\ ~Over(a.rs[i].target, a.rs[i].length, t, a.n)
                        /\ ~Over(a.rs[i].source, a.rs[i].length, t, a.n)
        up(b) == {t \in b .. MbTop : free(t)}
        all == IF up(a.from) # {} \/ ~a.wrap THEN up(a.from) ELSE up(MbLow)
    IN a.got = IF all = {} THEN -1 ELSE Min(all)

(* What the kernel's load address lies over is written by the first copy.  *)
(* It was chosen before these were allocated, or without regard to them.   *)
UnderKernel(b, n) == Over(ranges[1].target, ranges[1].length, b, n)
(* The array of ranges is never among the sources a target must avoid. *)
ArrayUnder == \E i \in DOMAIN ranges : array_at \in Pg(ranges[i].target, ranges[i].length)
FileUnder == \E i \in 1 .. Len(Secs) :
               /\ Secs[i].addr = 0
               /\ UnderKernel(file_at + Secs[i].off, Secs[i].size)

(* Multiboot 2 frees its first array after the kernel's target has been    *)
(* reserved: a page of it under the kernel may be handed out once more, to *)
(* the stub or to the source of a later range.                             *)
FreedFor(b, n) == boot.proto = 2 /\ UnderKernel(freed, 1) /\ freed \in Pg(b, n)
FreedForSource == \E i \in 2 .. Len(ranges) : FreedFor(ranges[i].source, ranges[i].length)
FreedForStub == FreedFor(stub_at, 1)

(* When the kernel is entered, the information structure, every module,    *)
(* every section and the executable are whole where the kernel is told     *)
(* they are: no copy overwrites the source of a later one, or what an      *)
(* earlier one put in place (multiboot_reloc.asm_x86:26-54), but for       *)
(* sources under the kernel in the file itself or in the page freed late.  *)
HandedWhole ==
  (mbpc = "jump" /\ ~FileUnder /\ ~FreedForSource) =>
    /\ \A w \in DOMAIN told : \A k \in 0 .. (told[w].n - 1) :
         ram[told[w].at + k] = IF w[1] = "section" THEN <<"file", 0, Secs[w[2]].off + k>>
                               ELSE <<w[1], w[2], k>>
    /\ \A k \in 0 .. (ranges[1].length - 1) : ram[ranges[1].target + k] = orig[ranges[1].source + k]

(* The stub and the list it works through outlive the copying, where the   *)
(* list is not under a target nor the stub in the page freed late.         *)
StubSurvives == mbpc = "lost" => ArrayUnder \/ FreedForStub

(* An executable loaded by the addresses in its header has the header at   *)
(* header_addr, as far as it was moved (multiboot1.c:136-184,              *)
(* multiboot2.c:325-392).                                                  *)
HeaderAtAddress ==
  mbpc = "jump" =>
    \A a \in header.address :
      LET at == a.header_addr + reloc_slide
      IN at \in Pg(ranges[1].target, ranges[1].length) =>
           ram[at] = <<"file", 0, boot.file.hoff>>

(* A relocatable kernel gets the lowest, or highest, address its tag       *)
(* allows at which all of it is memory; it is refused only if there is no  *)
(* such address (multiboot2.c:426-491).                                    *)
RelocExact ==
  \A p \in header.reloc :
    LET n == ranges[1].length
        ok(b) == b % p.align = 0 /\ b + n <= p.max /\ LoadableAt(b, n)
        all == {b \in p.min .. RamTop : ok(b)}
        best == IF p.pref = 2 THEN Max(all) ELSE Min(all)
    IN /\ mbpc = "array" => all # {} /\ ranges[1].target = best
       /\ mbpc = "noplace" => all = {}

(* The pieces written never exceed the room taken for them beforehand      *)
(* (multiboot1.c:34-48, multiboot2.c:38-70).                               *)
InfoFits == info # <<>> => Written <= info_size

(* A kernel that is entered has the information its header requires,       *)
(* unless a later tag asks for the same as an option.                      *)
RequestsServed ==
  (mbpc = "jump" /\ boot.proto = 2) =>
    \A i \in DOMAIN boot.file.tags : \A r \in Served :
      LET t(k) == boot.file.tags[k]
          asks(k) == t(k).type = "request" /\ r \in ToSet(t(k).asks)
      IN (asks(i) /\ t(i).req /\ ~\E k \in i + 1 .. Len(boot.file.tags) : asks(k) /\ ~t(k).req)
           => \E x \in ToSet(info) : x.type = r

(* A Multiboot kernel is entered with everything in place: places are      *)
(* found if there are any, the copying stub destroys neither sources nor   *)
(* results nor itself, and the information is complete and where it was    *)
(* said to be (elsewhere.c, multiboot1.c, multiboot2.c,                    *)
(* multiboot_reloc.asm_x86).                                               *)
HandedExact ==
  /\ FirstFit /\ HandedWhole /\ StubSurvives /\ HeaderAtAddress /\ RelocExact /\ InfoFits
  /\ RequestsServed
====

------------------------------ MODULE LimineMap ------------------------------
(***************************************************************************)
(* The memory a Limine protocol executable is handed: from the             *)
(* registration of the framebuffers to the memory map response of          *)
(* common/protos/limine.c, with the table finder of lib/acpi.c and the     *)
(* page tables of mm/vmm.c.                                                *)
(*                                                                         *)
(* Addresses are counted in units of half a page, so that a region may     *)
(* begin or end inside one.  The map of physical memory is the function    *)
(* types from units to the type of the entry that holds them ("none" for   *)
(* no entry): module Pmm shows that the list of entries behaves as such a  *)
(* function.  Virtual addresses are counted in pages; a 2 MiB page is two  *)
(* pages and a 1 GiB page four, so that every level of the tree has two    *)
(* entries.                                                                *)
(***************************************************************************)
EXTENDS Integers, Sequences, FiniteSets, SequencesExt, FiniteSetsExt

CONSTANTS
  Machines,    \* the machines and executables: see the fields used below
  Reach,       \* units of physical memory
  FourG,     \* the units below 4 GiB
  VTop         \* pages of the virtual address space

VARIABLES
  mach,        \* the machine
  lpc,         \* where limine_load is
  types,       \* the memory map
  span,        \* hhdm_span_top
  before,      \* ghost: the memory map when the tables were looked for
  pt,          \* the page tables: an entry for every node
  answered     \* the memory map response

lmvars == <<mach, lpc, types, span, before, pt, answered>>

PageBytes == 2
GiB == 8
Units == 0 .. Reach - 1
down(a, s) == (a \div s) * s
up(a, s) == down(a + s - 1, s)

(***************************************************************************)
(* The memory map.                                                         *)
(***************************************************************************)
(* The entries in order, as runs of units of one type. *)
MapEntries(t) ==
  LET starts(u) == t[u] # "none" /\ (u = 0 \/ t[u - 1] # t[u])
      stop(u) == Min({v \in u + 1 .. Reach : v = Reach \/ t[v] # t[u]})
      at == SelectSeq([i \in 1 .. Reach |-> i - 1], starts)
  IN [i \in DOMAIN at |-> [base |-> at[i], top |-> stop(at[i]), type |-> t[at[i]]]]

Overlay(t, b, top, ty) == [u \in Units |-> IF u \in b .. top - 1 THEN ty ELSE t[u]]

(* pmm_sanitise_entries with alignment: what is usable is whole pages, and *)
(* not the first one unless it is kept.                                    *)
Sanitised(t, keep) ==
  [u \in Units |->
     IF t[u] = "usable" /\ \/ \E v \in down(u, PageBytes) .. down(u, PageBytes) + 1 : t[v] # "usable"
                           \/ u < PageBytes /\ ~keep
     THEN "none" ELSE t[u]]

(* Which entries the direct map of a base revision holds. *)
Direct(rev, ty) ==
  IF rev = 3 THEN ty \in {"usable", "reclaim", "kernel", "fb", "efi"}
  ELSE IF rev = 0 THEN ty # "none"
  ELSE ty \notin {"none", "reserved", "bad"}

Tops(rev, t) ==
  {up(MapEntries(t)[i].top, GiB) :
     i \in {i \in DOMAIN MapEntries(t) :
              /\ Direct(rev, MapEntries(t)[i].type)
              /\ rev >= 3 \/ MapEntries(t)[i].top > FourG}}

get_hhdm_span_top(rev, t) == Max({IF rev >= 3 THEN 0 ELSE FourG} \cup Tops(rev, t))

(***************************************************************************)
(* Framebuffers.                                                           *)
(***************************************************************************)
(* mutant: the framebuffer's own bytes instead of its pages *)
Extent_Bytes(e) == e.base .. e.top - 1

Extent(e) == down(e.base, PageBytes) .. up(e.top, PageBytes) - 1

(* What is left of a region that shares a page with the framebuffer e. *)
Keep(r, e) ==
  LET b == down(e.base, PageBytes)
      top == up(e.top, PageBytes)
  IN IF r.base < b THEN r.base .. b - 1
     ELSE IF r.top > top THEN top .. r.top - 1
     ELSE {}

Overlapping(t, e) ==
  {i \in DOMAIN MapEntries(t) :
     LET r == MapEntries(t)[i] IN r.type # "fb" /\ (r.base .. r.top - 1) \cap Extent(e) # {}}

Trimmed(t, e) ==
  LET out == UNION {LET r == MapEntries(t)[i] IN (r.base .. r.top - 1) \ Keep(r, e) :
                      i \in Overlapping(t, e)}
  IN [u \in Units |-> IF u \in out THEN "none" ELSE t[u]]

Framebuffers(t) == SelectSeq(MapEntries(t), LAMBDA e : e.type = "fb")

(***************************************************************************)
(* lib/acpi.c: the tables an executable may follow are put into the map.   *)
(* A table has an address, at, that is 0 for a null pointer, and a length. *)
(***************************************************************************)

acpi_padding_is_safe(t, b, top) ==
  \A u \in b .. top - 1 : t[u] \in {"usable", "reserved", "none"}

map_single_table(m, t, tab) ==
  LET b == down(tab.at, PageBytes)
      top == up(tab.at + tab.len, PageBytes)
      from == IF acpi_padding_is_safe(t, b, tab.at) THEN b ELSE tab.at
      to == IF acpi_padding_is_safe(t, tab.at + tab.len, top) THEN top ELSE tab.at + tab.len
  IN IF \/ m.i386 /\ tab.at >= FourG
        \/ t[tab.at] \in {"acpi", "nvs"}
     THEN t ELSE Overlay(t, from, to, "mapped")

Usable(tab) == tab.at # 0
WholeRoot(root) == root.at # 0 /\ root.len > 0
UsesXsdt(m) == m.acpi.rev >= 2 /\ m.acpi.xsdt.at # 0 /\ (m.i386 => m.acpi.xsdt.at < FourG)

(* acpi_get_table: the first table of that name in the root that is used. *)
acpi_get_table(m, sig) ==
  LET root == IF UsesXsdt(m) THEN m.acpi.xsdt ELSE m.acpi.rsdt
  IN IF WholeRoot(root)
     THEN SelectSeq(root.ents, LAMBDA e : Usable(e) /\ e.sig = sig)
     ELSE <<>>

(* The addresses of the XSDT and in it are cast to pointers: an i386 build *)
(* keeps the low half, and takes what lies there for the table (len and    *)
(* ents are what it reads there).                                          *)
Pointed(m, tab) == IF m.i386 THEN [tab EXCEPT !.at = @ % FourG] ELSE tab

Root(m, root) ==
  IF WholeRoot(root)
  THEN LET ents == SelectSeq(root.ents, Usable)
       IN <<Pointed(m, root)>> \o [i \in DOMAIN ents |-> Pointed(m, ents[i])]
  ELSE <<>>

(* The calls of acpi_map_tables, in order. *)
AcpiTables(m) ==
  IF m.acpi.rsdp.at = 0 THEN <<>>
  ELSE <<m.acpi.rsdp>>
       \o (IF m.acpi.rev >= 2 THEN Root(m, m.acpi.xsdt) ELSE <<>>)
       \o Root(m, m.acpi.rsdt)
       \o (IF acpi_get_table(m, "FACP") = <<>> THEN <<>>
           ELSE SelectSeq(Head(acpi_get_table(m, "FACP")).refs, Usable))

(* The calls of smbios_map_tables, and of efi_map_runtime_entries after    *)
(* its loop over the runtime entries.                                      *)
SmbiosTables(m) == IF m.rev >= 5 THEN SelectSeq(m.smbios, Usable) ELSE <<>>
SystemTables(m) == IF m.rev >= 5 /\ m.uefi THEN SelectSeq(m.system, Usable) ELSE <<>>

TablesMapped(m, t) ==
  LET over(a, s) == FoldLeft(LAMBDA x, e : map_single_table(m, x, e), a, s)
      runtime(a) == IF m.rev >= 5 /\ m.uefi
                    THEN [u \in Units |-> IF u \in m.runtime THEN "mapped" ELSE a[u]]
                    ELSE a
  IN over(runtime(over(t, AcpiTables(m) \o SmbiosTables(m))), SystemTables(m))

(***************************************************************************)
(* mm/vmm.c: a tree of tables.  Node <<l, i>> is the entry of level l that *)
(* covers the pages i * Size(l) and on; a leaf of level 2 is a 2 MiB page  *)
(* and one of level 3 a 1 GiB page.                                        *)
(***************************************************************************)
Size(l) == 2 ^ (l - 1)
Nodes(m) == UNION {{l} \X (0 .. VTop \div Size(l) - 1) : l \in 1 .. m.levels}
Node(l, v) == <<l, v \div Size(l)>>

Absent == [k |-> "none", p |-> 0, f |-> {}]
PageTable == [Absent EXCEPT !.k = "table"]
Leaf(p, f) == [k |-> "leaf", p |-> p, f |-> f]
Broken == [Absent EXCEPT !.k = "panic"]

(* A fresh table: its own entries are zeroed. *)
NewTable(t, n) ==
  [t EXCEPT ![n] = PageTable, ![<<n[1] - 1, 2 * n[2]>>] = Absent,
                              ![<<n[1] - 1, 2 * n[2] + 1>>] = Absent]

(* On x86 the bit that asks for write-combining in a large page is one of  *)
(* those that pte_addr keeps: splitting such a page is refused.            *)
Splittable(m, e) == ~(m.arch = "x86" /\ "fb" \in e.f)

Steps(n) == [i \in 1 .. n |-> i - 1]

RECURSIVE map_page(_, _, _, _, _, _), get_next_level(_, _, _, _, _), DescendTo(_, _, _, _, _)

get_next_level(m, t, v, sz, l) ==
  LET n == Node(l, v)
      e == t[n]
  IN IF e.k = "table" THEN t
     ELSE IF e.k = "leaf"
       THEN IF ~Splittable(m, e) THEN [t EXCEPT ![n] = Broken]
            ELSE FoldLeft(LAMBDA x, i : map_page(m, x, down(v, Size(l)) + i * Size(sz),
                                                 e.p + i * Size(sz), e.f, sz),
                          NewTable(t, n), Steps(Size(l) \div Size(sz)))
     ELSE NewTable(t, n)

DescendTo(m, t, v, sz, l) ==
  IF l = sz THEN t ELSE DescendTo(m, get_next_level(m, t, v, sz, l), v, sz, l - 1)

map_page(m, t, v, p, f, sz) ==
  LET flags == IF m.pat THEN f ELSE f \ {"fb"}
  IN IF sz = 3 /\ ~m.gib
     THEN FoldLeft(LAMBDA x, i : map_page(m, x, v + 2 * i, p + 2 * i, flags, 2), t, Steps(2))
     ELSE [DescendTo(m, t, v, sz, m.levels) EXCEPT ![Node(sz, v)] = Leaf(p, flags)]

Largest(v, p, n) == Max({l \in 1 .. 3 : v % Size(l) = 0 /\ p % Size(l) = 0 /\ n >= Size(l)})

RECURSIVE map_pages(_, _, _)
map_pages(m, t, c) ==
  IF c.n = 0 THEN t
  ELSE LET l == Largest(c.v, c.p, c.n)
           s == Size(l)
       IN map_pages(m, map_page(m, t, c.v, c.p, c.f, l),
                    [c EXCEPT !.v = c.v + s, !.p = c.p + s, !.n = c.n - s])

MapAll(m, t, calls) == FoldLeft(LAMBDA x, c : map_pages(m, x, c), t, calls)

(***************************************************************************)
(* build_pagemap: the calls it makes.                                      *)
(***************************************************************************)
MapCall(v, p, f, n) == [v |-> v, p |-> p, f |-> f, n |-> n]

KernelCalls(m) ==
  [i \in DOMAIN m.ranges |->
     LET r == m.ranges[i]
     IN MapCall(r.v, r.p, (r.perm \cap {"w"}) \cup
                          (IF "x" \in r.perm \/ ~m.nx THEN {} ELSE {"nx"}), r.n)]

LowCalls(m) ==
  (IF m.rev = 0 THEN <<MapCall(1, 1, {"w"}, FourG \div PageBytes - 1)>> ELSE <<>>)
  \o (IF m.rev < 3 THEN <<MapCall(m.hhdm, 0, {"w"}, FourG \div PageBytes)>> ELSE <<>>)

(* A range of physical memory in the direct map and, for base revision 0,  *)
(* at its own address too.                                                 *)
Both(m, b, top, f) ==
  (IF m.rev = 0 THEN <<MapCall(b \div PageBytes, b \div PageBytes, f, (top - b) \div PageBytes)>> ELSE <<>>)
  \o <<MapCall(m.hhdm + b \div PageBytes, b \div PageBytes, f, (top - b) \div PageBytes)>>

Flush(m, x) ==
  IF x.top > x.base THEN x.out \o Both(m, x.base, x.top, {"w"}) ELSE x.out

(* One entry: it extends the range that is pending, or ends it. *)
Coalesce(m, x, e) ==
  LET b == IF m.rev < 3 /\ e.base < FourG THEN FourG ELSE e.base
      in == Direct(m.rev, e.type) /\ b < e.top
      nb == IF in THEN down(b, PageBytes) ELSE 0
      nt == IF in THEN up(e.top, PageBytes) ELSE 0
  IN IF in /\ nb = x.top /\ x.top # 0 THEN [x EXCEPT !.top = nt]
     ELSE [base |-> nb, top |-> nt, out |-> Flush(m, x)]

MemoryCalls(m, t) ==
  Flush(m, FoldLeft(LAMBDA x, e : Coalesce(m, x, e), [base |-> 0, top |-> 0, out |-> <<>>],
                    MapEntries(t)))

FramebufferCalls(m, t) ==
  FoldLeft(LAMBDA x, e : x \o Both(m, down(e.base, PageBytes), up(e.top, PageBytes), {"w", "fb"}),
           <<>>, Framebuffers(t))

(* The way to the higher half on x86. *)
SwitchCalls(m) ==
  IF m.arch = "x86" /\ m.rev >= 1 THEN <<MapCall(0, 0, {"w"}, FourG \div PageBytes)>> ELSE <<>>

(***************************************************************************)
(* limine_load, from the choice of the paging mode on.                     *)
(***************************************************************************)
LmInit ==
  /\ mach \in Machines
  /\ types = mach.types
  /\ lpc = "span"
  /\ span = 0
  /\ before = mach.types
  /\ pt = [n \in Nodes(mach) |-> Absent]
  /\ answered = [u \in Units |-> "none"]

Span ==
  /\ lpc = "span"
  /\ lpc' = "fb"
  /\ span' = get_hhdm_span_top(mach.rev, types)
  /\ UNCHANGED <<mach, types, before, pt, answered>>

(* fb_init is done: every framebuffer gets an entry of its own. *)
RegisterFb ==
  /\ lpc = "fb"
  /\ lpc' = "trim"
  /\ types' = FoldLeft(LAMBDA t, r : Overlay(t, r.base, r.top, "fb"), types, mach.fbs)
  /\ UNCHANGED <<mach, span, before, pt, answered>>

(* Regions in the pages of a framebuffer give way, or the boot stops. *)
TrimFb ==
  /\ lpc = "trim"
  /\ IF \E i \in DOMAIN Framebuffers(types) :
          \E j \in Overlapping(types, Framebuffers(types)[i]) :
             MapEntries(types)[j].type \notin {"usable", "reserved"}
     THEN lpc' = "panic" /\ UNCHANGED types
     ELSE /\ lpc' = "exit"
          /\ types' = FoldLeft(LAMBDA t, e : Trimmed(t, e), types, Framebuffers(types))
  /\ UNCHANGED <<mach, span, before, pt, answered>>

(* Boot services end, what the firmware held is free (module Pmm), and an  *)
(* old base revision loses its first page.                                 *)
ExitBoot ==
  /\ lpc = "exit"
  /\ lpc' = "tables"
  /\ \E t \in {[u \in Units |-> IF types[u] = "efi" THEN "usable" ELSE types[u]]} :
       types' = IF mach.rev < 3 THEN Sanitised(t, FALSE) ELSE t
  /\ before' = types'
  /\ UNCHANGED <<mach, span, pt, answered>>

MapTables ==
  /\ lpc = "tables"
  /\ lpc' = "kernel"
  /\ types' = IF mach.rev >= 4 THEN Sanitised(TablesMapped(mach, types), mach.uefi) ELSE types
  /\ UNCHANGED <<mach, span, before, pt, answered>>

BuildStep(here, next, calls) ==
  /\ lpc = here
  /\ lpc' = next
  /\ \E c \in {calls} : pt' = MapAll(mach, pt, c)
  /\ UNCHANGED <<mach, types, span, before, answered>>

BuildKernel == BuildStep("kernel", "low", KernelCalls(mach))
BuildLow == BuildStep("low", "memory", LowCalls(mach))
BuildMemory == BuildStep("memory", "buffers", MemoryCalls(mach, types))
BuildFb == BuildStep("buffers", "switch", FramebufferCalls(mach, types))
BuildSwitch == BuildStep("switch", "report", SwitchCalls(mach))

(* The memory map response: get_memmap aligns what is usable once more. *)
ReportMap ==
  /\ lpc = "report"
  /\ lpc' = "handoff"
  /\ \E t \in {Sanitised(types, mach.uefi /\ mach.rev >= 3)} :
       answered' = [u \in Units |-> IF t[u] = "efi" THEN "reserved" ELSE t[u]]
  /\ UNCHANGED <<mach, types, span, before, pt>>

LmNext ==
  \/ Span \/ RegisterFb \/ TrimFb \/ ExitBoot \/ MapTables
  \/ BuildKernel \/ BuildLow \/ BuildMemory \/ BuildFb \/ BuildSwitch \/ ReportMap

LmSpec == LmInit /\ [][LmNext]_lmvars

(***************************************************************************)
(* Properties: what the processor sees through the finished tables.        *)
(***************************************************************************)
HandedOver == lpc = "handoff"

(* The entry that answers for page v: the first that is not a table. *)
Found(v) == pt[Node(Max({l \in 1 .. mach.levels : pt[Node(l, v)].k # "table"}), v)]
FoundLevel(v) == Max({l \in 1 .. mach.levels : pt[Node(l, v)].k # "table"})
Mapped(v) == Found(v).k = "leaf"
(* the address in a large page's entry has no bits below its size *)
PhysOf(v) == down(Found(v).p, Size(FoundLevel(v))) + (v % Size(FoundLevel(v)))
Pages == 0 .. Reach \div PageBytes - 1
InPage(q) == {q * PageBytes, q * PageBytes + 1}

(* The direct map holds exactly the pages that the base revision promises  *)
(* of the memory map the executable is told of, each at its own address:   *)
(* coalescing, the splitting of large pages by the framebuffers, and the   *)
(* entries that share a page lose and add nothing (build_pagemap).         *)
HhdmExact ==
  HandedOver =>
    \A q \in Pages :
      LET due == \/ mach.rev < 3 /\ q < FourG \div PageBytes
                 \/ \E u \in InPage(q) : Direct(mach.rev, answered[u])
      IN /\ Mapped(mach.hhdm + q) <=> due
         /\ due => PhysOf(mach.hhdm + q) = q /\ "w" \in Found(mach.hhdm + q).f

(* What an i386 build takes for a table because it dropped half of an      *)
(* address, its own or that of the XSDT that names it.                     *)
Misread(m) ==
  LET xsdt == m.acpi.xsdt
      wrong == {x \in {xsdt} \cup Range(xsdt.ents) : Pointed(m, x) # x \/ Pointed(m, xsdt) # xsdt}
  IN UNION {LET e == Pointed(m, x) IN e.at .. e.at + e.len - 1 : x \in wrong}

(* A page is mapped with the caching of a framebuffer exactly when a       *)
(* framebuffer is in it, and then nothing else is: memory the executable   *)
(* may use or read tables from is never write-combined by accident (the    *)
(* page-level overlap check of limine_load), but for a misread table.      *)
FbCaching ==
  HandedOver =>
    \A q \in Pages :
      LET fb == \E u \in InPage(q) : answered[u] = "fb"
      IN /\ (Mapped(mach.hhdm + q) /\ "fb" \in Found(mach.hhdm + q).f) <=> (fb /\ mach.pat)
         /\ fb => \A u \in InPage(q) \ Misread(mach) : answered[u] \in {"fb", "none"}

(* Every page of the executable is mapped where it was linked, to the      *)
(* memory it was loaded to, with the permissions of its segment.           *)
KernelExact ==
  HandedOver =>
    \A i \in DOMAIN mach.ranges : \A k \in 0 .. mach.ranges[i].n - 1 :
      LET r == mach.ranges[i]
          v == r.v + k
      IN /\ Mapped(v) /\ PhysOf(v) = r.p + k
         /\ "w" \in Found(v).f <=> "w" \in r.perm
         /\ "nx" \in Found(v).f <=> (mach.nx /\ "x" \notin r.perm)

(* The tables the operating system finds from the root pointer, as it      *)
(* would follow them.                                                      *)
Followed(m) ==
  LET root == IF UsesXsdt(m) THEN m.acpi.xsdt ELSE m.acpi.rsdt
      facp == {e \in Range(root.ents) : e.at # 0 /\ e.sig = "FACP"}
  IN IF m.acpi.rsdp.at = 0 THEN {}
     ELSE {m.acpi.rsdp}
          \cup (IF WholeRoot(root) THEN {root} \cup Range(root.ents)
                                        \cup UNION {Range(e.refs) : e \in facp} ELSE {})

BytesOf(m, tabs) ==
  UNION {e.at .. e.at + e.len - 1 : e \in {e \in tabs : e.at # 0 /\ (m.i386 => e.at < FourG)}}

(* From base revision 4 on, every byte of every table that can be reached  *)
(* from the root pointer is in the direct map, wherever the firmware put   *)
(* it, and not in memory that is told to be free; from revision 5 on the   *)
(* SMBIOS tables and the system table are too (acpi_map_tables,            *)
(* smbios_map_tables, efi_map_runtime_entries).                            *)
TablesReachable ==
  (HandedOver /\ mach.rev >= 4) =>
    \A u \in BytesOf(mach, Followed(mach) \cup Range(SmbiosTables(mach))
                                          \cup Range(SystemTables(mach))) :
      /\ Mapped(mach.hhdm + u \div PageBytes)
      /\ answered[u] \in {"mapped", "acpi", "nvs"}

(* Making room for a table changes nothing around it but free or reserved  *)
(* memory: no byte of a module, of ACPI data or of a framebuffer is        *)
(* relabelled by the rounding to pages (acpi_padding_is_safe).             *)
PaddingHarmless ==
  HandedOver =>
    \A u \in Units \ (BytesOf([mach EXCEPT !.i386 = FALSE],
                              Range(AcpiTables(mach)) \cup Range(SmbiosTables(mach))
                                \cup Range(SystemTables(mach))) \cup mach.runtime) :
      before[u] \notin {"usable", "reserved", "none"} => answered[u] = before[u]

(* Nothing in the direct map lies above the top that the paging mode was   *)
(* chosen for, but framebuffers and tables, which enter the map after      *)
(* get_hhdm_span_top has looked at it.                                     *)
SpanHolds ==
  HandedOver => \A u \in span .. Reach - 1 : Direct(mach.rev, answered[u]) => answered[u] \in {"fb", "mapped"}

(* The page tables map what the base revision promises and nothing else,   *)
(* with the right caching and permissions, and making room for tables      *)
(* changes nothing around them (build_pagemap, limine.c; acpi.c; vmm.c).   *)
MappedExact ==
  HhdmExact /\ FbCaching /\ KernelExact /\ TablesReachable /\ PaddingHarmless /\ SpanHolds
==============================================================================

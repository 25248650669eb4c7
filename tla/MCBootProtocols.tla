--------------------------- MODULE MCBootProtocols --------------------------
(***************************************************************************)
(* Memory, executables and boot protocols for TLC: one component at a      *)
(* time, the others at rest in an initial state.                           *)
(***************************************************************************)
EXTENDS Pmm, Executable, LimineReq, LimineMap, Smp, Multiboot

VARIABLE comp  \* the component that runs

-----------------------------------------------------------------------------
(* Pmm: Firmware maps with overlaps, adjacency, empty and unaligned        *)
(* entries, and UEFI page maps with holes.                                 *)
PmE(b, l, t) == [base |-> b, length |-> l, type |-> t]
PmMaps == { <<PmE(0,7,"usable"), PmE(7,1,"reserved"), PmE(8,7,"usable"), PmE(13, 2, "acpi")>>,
          <<PmE(11,4,"usable"), PmE(14,5,"reserved"), PmE(0,8,"usable"), PmE(8,3,"usable"),
              PmE(3,0,"reserved")>>,
          <<PmE(8,6,"usable"), PmE(0,6,"usable"), PmE(5,4,"reserved"), PmE(12,3,"usable")>>,
          <<PmE(7,3,"usable"),PmE(0,5,"usable"),PmE(5,1,"nvs"),PmE(10,1,"reserved"),PmE(11,4,"usable")>>,
          <<PmE(0,12,"usable"), PmE(12,3,"reserved")>>}
PmF(s) == [p \in 0 .. Len(s)-1 |-> s[p+1]]
PmFirmware == { PmF(<<"conv","conv","boot","loader","conv","conv","runtime">>),
        PmF(<<"boot","loader","conv","conv","hole","conv","acpi">>),
        PmF(<<"conv","boot","conv","loader","conv","conv","conv">>) }

-----------------------------------------------------------------------------
(* Executable: ELF files by segment layout, relocation tables and bad      *)
(* dynamic sections, files loaded elsewhere, and PE files.                 *)
XW == [w \in 0 .. 15 |-> w + 1]
XSeg(va, off, fs, ms, fl, al) == [t |-> "load", va |-> va, off |-> off, fs |-> fs, ms |-> ms,
    pa |-> 0, fl |-> fl, al |-> al]
XDyn(fs) == [t |-> "dynamic", va |-> 0, off |-> 0, fs |-> fs, ms |-> fs, pa |-> 0, fl |-> {"r"},
    al |-> 1]
XTag(t, v) == [tag |-> t, val |-> v]
XAddr(a) == [map |-> FALSE, addr |-> a, bits |-> {}]
XBits(b) == [map |-> TRUE, addr |-> 0, bits |-> b]
XRela(a, k, add, y) == [at |-> a, kind |-> k, addend |-> add, sym |-> y]
XSym(u, w, v) == [undef |-> u, weak |-> w, value |-> v]
XElf(type, ph, dyn, relr, rela) ==
  [kind |-> "elf", type |-> type, arch |-> "aarch64", entry |-> ph[1].va + 1, len |-> 14, ph |-> ph,
      words |-> XW,
   dyn |-> dyn, relr |-> relr, rela |-> rela,
       syms |-> (5 :> XSym(FALSE, FALSE, 3) @@ 8 :> XSym(TRUE, TRUE, 0)
       @@ 11 :> XSym(TRUE, FALSE, 0)),
   sh |-> <<[addr |-> ph[1].va + 2, off |-> ph[1].off + 2, n |-> 3],
       [addr |-> 0, off |-> 13, n |-> 2]>>]

(* segments: from b, a gap, permissions, a bss, alignments *)
XPh(b, gap, f2, bss, al) == <<XSeg(b, 0, 5, 5, {"r", "x"}, al),
    XSeg(b + 5 + gap, 5, 2, 2 + bss, f2, 2)>>
XLayouts == {<<ty, b, gap, f2, bss, al>> \in {"exec", "dyn"} \X {0, 3, 48, 49, 56} \X {0, 1, 2}
    \X {{"r", "x"}, {"r", "w"}} \X {0, 2} \X {0, 4} :
               al = 4 => gap = 1}
XPlainTags == <<XTag("null", 0), XTag("needed", 1)>>
XElf1 == {XElf(l[1], XPh(l[2], l[3], l[4], l[5], l[6]) \o <<XDyn(2)>>, XPlainTags, <<>>, <<>>)
    : l \in XLayouts}

(* tables, from the lower half and from the higher *)
XRelrTags(b, n) == <<XTag("relr", b + 1), XTag("relrsz", n), XTag("relrent", 1)>>
XRelaTags(b, n, ent) == <<XTag("rela", b + 2), XTag("relasz", n * ent), XTag("relaent", ent)>>
XPlt(b) == <<XTag("jmprel", b + 3), XTag("pltrelsz", 3), XTag("pltrel", 7)>>
XSy(b) == <<XTag("symtab", b + 5), XTag("syment", 3)>>
XTab(b, gap, tags, relr, rela) == XElf("dyn", XPh(b, gap, {"r", "w"}, 2, 2) \o <<XDyn(2)>>, tags,
    relr, rela)
XB == {2, 48}
XRelrs(b) == {<<XAddr(b), XBits({2, 3}), XBits({1})>>,
    <<XAddr(b + 1), XBits({1, 3}), XBits({2, 3})>>, <<XAddr(b), XAddr(b + 8), XBits({1})>>}
XElf2 == UNION {{XTab(b, gap, XRelrTags(b, Len(rs)), [i \in 1 .. Len(rs) |-> rs[i]], <<>>)
    : rs \in XRelrs(b), gap \in {1, 3}} : b \in XB}
XKinds == {"none", "relative", "glob_dat", "abs", "odd"}
XElf3 == UNION {{XTab(b, 1, XRelaTags(b, 1, 3) \o XPlt(b) \o XSy(b + gap), <<>>,
                   (2 :> XRela(b + a, k, 5, y) @@ 3 :> XRela(b + 9, "jump_slot", 1, 0))) :
                   k \in XKinds, y \in {0, 1, 2}, a \in {2, 7, 12}, gap \in {0, 1}} : b \in XB}
XBadTags(b) == {<<XTag("needed", 1)>>, <<XTag("relasz", 3)>>,
    <<XTag("rela", b + 2), XTag("relasz", 3)>>,
                <<XTag("rela", b + 2), XTag("relasz", 3), XTag("relaent", 2)>>,
                    <<XTag("relr", b + 4), XTag("relrsz", 12), XTag("relrent", 1)>>,
                <<XTag("syment", 2)>>}
XElf4 == {XTab(2, 1, ts, <<>>, <<>>) : ts \in XBadTags(2)}
       \cup {XElf("dyn", XPh(2, 1, {"r"}, 0, 2), XPlainTags, <<>>, <<>>),
           XElf("dyn", XPh(2, 1, {"r"}, 0, 2) \o <<XDyn(0)>>, XPlainTags, <<>>, <<>>)}

XEls(entry, ph, max) == [kind |-> "elsewhere", entry |-> entry, ph |-> ph, len |-> 14, words |-> XW,
    max |-> max]
XPa(p, pa) == [p EXCEPT !.pa = pa]
XEl == {XEls(e, <<XPa(XSeg(8, 0, 3, 3, {}, 1), a), XPa(XSeg(v, 4, 2, 4, {}, 1), c)>>, 12) :
          e \in {8, 10, 20, 30}, a \in {2, 20}, v \in {2, 9, 20}, c \in {4, 11, 24, 62}}
     \cup {XEls(8, <<XPa(XSeg(8, 0, 3, 2, {}, 1), 2)>>, 12),
         XEls(8, <<XPa(XSeg(8, 13, 3, 3, {}, 1), 2)>>, 12)}

XSec(va, vs, filled, ptr, fl) == [va |-> va, vs |-> vs, raw |-> filled, ptr |-> ptr, fl |-> fl]
XPe(st, b, n, al, h, secs, dir, bs) ==
  [kind |-> "pe", stripped |-> st, base |-> b, size |-> n, al |-> al, hdrs |-> h, secs |-> secs,
      imports |-> FALSE, entry |-> 3,
   len |-> 14, words |-> XW, dir |-> dir, blocks |-> bs]
XSecs == {<<XSec(4, 3, 4, 3, {"r", "x"}), XSec(8, n, 1, 7, {"r", "w"})>> : n \in {1, 2, 5}}
     \cup {<<XSec(0, 4, 4, 0, {"r"}), XSec(4, 3, 2, 4, {"r", "x"})>>,
         <<XSec(0, 5, 4, 0, {"r"}), XSec(4, 3, 2, 4, {"r", "x"})>>}
XRe(t, o) == [type |-> t, off |-> o]
XBk(va, n, es) == [va |-> va, size |-> n, entries |-> es]
XBlocks == {<<>>, <<XBk(4, 2, <<XRe("dir64", 0), XRe("absolute", 0), XRe("dir64", 2)>>),
    XBk(8, 2, <<XRe("dir64", 0)>>)>>,
            <<XBk(0, 2, <<XRe("highlow", 1)>>), XBk(8, 2, <<XRe("dir64", 3)>>)>>,
                <<XBk(0, 2, <<XRe("odd", 1)>>)>>, <<XBk(0, 0, <<>>)>>}
XPes == {XPe(st, b, n, al, h, ss,
    FoldLeft(LAMBDA k, x : k + x.size, IF bs = <<>> \/ bs[1].size > 0 THEN 0 ELSE 1, bs), bs) :
           st \in BOOLEAN, b \in {0, 48, 56}, n \in {9, 10}, al \in {2, 4}, h \in {3, 5},
               ss \in XSecs, bs \in XBlocks}
XFiles == XElf1 \cup XElf2 \cup XElf3 \cup XElf4 \cup XEl \cup XPes

-----------------------------------------------------------------------------
(* LimineReq: Kernels by what the scan meets, by paging-mode request, by   *)
(* revision, by internal modules, by framebuffers, and the machines they   *)
(* are booted on.                                                          *)
LrSt == [k |-> "start"]
LrEn == [k |-> "end"]
LrRv(n) == [k |-> "rev", n |-> n]
LrRq(id) == [k |-> "req", id |-> id, rev |-> 0, f |-> <<>>]
LrRqf(id, r, f) == [k |-> "req", id |-> id, rev |-> r, f |-> f]
LrDt(f) == [k |-> "data", f |-> f]
LrKe(items, cut) == [items |-> items, cut |-> cut, elf |-> TRUE, section |-> <<>>, inner |-> <<>>]
LrIts == {LrSt, LrEn, LrRv(3), LrRv(9), LrRq("tsc"), LrRq("perf")}
LrScans == {LrKe(s, c) : s \in UNION {[1..n -> LrIts] : n \in 1..4}, c \in {0, 1, 3}}
  \cup {[LrKe(<<LrRq("tsc"), LrRq("perf")>>, c) EXCEPT !.section = s, !.elf = e] :
          c \in {0, 3}, e \in BOOLEAN,
              s \in {<<0>>, <<0, 12>>, <<12, 12>>, <<1>>, <<-2>>, <<16>>, <<18>>,
              <<0, 0, 0, 0, 0>>}}
  \cup {LrKe(<<LrRq("tsc"), LrRq("perf"), LrRq("fb"), LrRq("fip"), LrRq("dtb"), LrRq("mp")>>, 0)}
LrHo == [arch |-> "x86", va |-> (0 :> 5 @@ 1 :> 7), top |-> 1, span |-> 6, phys |-> 4, umin |-> 0,
    umax |-> 1,
       random |-> FALSE, has |-> {"rsdp", "smbios", "est", "tsc"},
           lies |-> [rsdp |-> "acpi", smbios |-> "reserved", est |-> "reserved"],
           high |-> {"smbios"},
       physical |-> 4, virtual |-> 0, modules |-> <<>>, files |-> {}, dtb |-> "none",
           fwdtb |-> "none", fbs |-> <<>>, tpm |-> "none"]
LrPm == {LrKe(<<LrRq("tsc")>>, 0)}
  \cup {LrKe(<<LrRqf("pm", rc[1], <<m, hi, lo>>)>>, rc[2]) : rc \in {<<0, 0>>, <<1, 0>>, <<1, 1>>},
      m \in -1..2, hi \in 0..2, lo \in {0, 1}}
LrPmh == {[LrHo EXCEPT !.span = s, !.top = t, !.umin = a, !.umax = b] : s \in {6, 9, 17},
    t \in {0, 1}, a \in {-1, 0, 1}, b \in {-1, 0, 1}}
  \cup {[LrHo EXCEPT !.arch = "riscv", !.va = (0 :> 4 @@ 1 :> 5 @@ 2 :> 6), !.span = s, !.top = t,
      !.umin = a, !.umax = b, !.random = r] :
          s \in {3, 5, 9}, t \in 0..2, a \in {0, 2}, b \in 0..2, r \in BOOLEAN}
LrTb == {LrKe(<<LrRv(n), LrRq("rsdp"), LrRq("smbios"), LrRq("est"), LrRqf("stack", 0, <<7>>)>>, c)
    : n \in 0..6, c \in {0, 1}}
\* internal modules: request, the array, two structures, two strings
LrPa(h, w, m) == (IF h THEN HighBit ELSE 4) + 2 * w + m
LrIn(h, m, fl, cut) ==
  [items |-> <<LrRqf("mod", 1, <<2, LrPa(h, 8, m)>>), LrDt(<<LrPa(h, 10, 0), LrPa(~h, 13, 0)>>),
               LrDt(<<LrPa(h, 16, 0), LrPa(h, 18, 0), fl>>),
                   LrDt(<<LrPa(h, 18, 0), LrPa(h, 16, 1), 0>>),
               LrDt(<<51, 0>>), LrDt(<<52, 0>>)>>,
   cut |-> cut, elf |-> FALSE, section |-> <<>>,
       inner |-> IF m + cut > 0 THEN <<[path |-> 0, required |-> TRUE]>>
       ELSE <<[path |-> 51, required |-> fl % 2 = 1], [path |-> 52, required |-> FALSE]>>]
LrMd == {LrIn(h, m, fl, cut) : h \in BOOLEAN, m \in {0, 1}, fl \in {0, 1}, cut \in {0, 1, 2, 3}}
    \cup {LrKe(<<LrRq("mod")>>, 0)}
LrMdh == {[LrHo EXCEPT !.modules = ms, !.files = fs] : ms \in {<<>>, <<53>>, <<53, 54>>},
    fs \in {{51, 52, 53, 54}, {52, 53}, {53, 54}}}
LrFbk == {LrKe(<<LrRv(6), LrRq("fb"), LrRq("fip"), LrRq("tpm"), LrRq("dtb"), LrRq("mp")>>, 0),
    LrKe(<<LrRv(6), LrRq("fip"), LrRq("tpm"), LrRq("mp")>>, 0)}
LrF(b, a) == [bpp |-> b, attr |-> a]
LrFbs == UNION {[1..n -> {LrF(32, 4), LrF(24, 8), LrF(32, 255), LrF(32, 68)}] : n \in 0..3}
LrFbh == {[LrHo EXCEPT !.arch = ar, !.fbs = f] : ar \in {"x86", "aarch64"}, f \in LrFbs}
  \cup {[LrHo EXCEPT !.arch = ar, !.dtb = d, !.fwdtb = w, !.tpm = t] :
          ar \in {"x86", "aarch64"}, d \in {"none", "missing", "bad", "good"},
              w \in {"none", "bad", "good"}, t \in {"none", "empty", "broken", "ok"}}
LrBoots == (LrScans \X {LrHo}) \cup (LrPm \X LrPmh) \cup (LrTb \X {LrHo}) \cup (LrMd \X LrMdh)
    \cup (LrFbk \X LrFbh)

-----------------------------------------------------------------------------
(* LimineMap: Three memory maps, framebuffers over and between their       *)
(* entries, firmware tables in every kind of memory.                       *)
LmRn(b,t,ty) == [base |-> b, top |-> t, type |-> ty]
LmTy(rs) == [u \in Units |-> IF \E i \in DOMAIN rs : u \in rs[i].base..rs[i].top-1
              THEN rs[CHOOSE i \in DOMAIN rs : u \in rs[i].base..rs[i].top-1].type ELSE "none"]
LmT(a,len) == [at |-> a, len |-> len, sig |-> "APIC", refs |-> <<>>]
LmNul == LmT(0,0)
LmFadt(a,len,refs) == [at |-> a, len |-> len, sig |-> "FACP", refs |-> refs]
LmRt(a,len,ents) == [at |-> a, len |-> len, ents |-> ents]
LmTabs(rsdp,rev,x,r) == [rsdp |-> rsdp, rev |-> rev, xsdt |-> x, rsdt |-> r]
LmNoRt == LmRt(0,0,<<>>)
LmNoAcpi == LmTabs(LmNul,0,LmNoRt,LmNoRt)
LmKrn == <<[v |-> 28, p |-> 5, n |-> 2, perm |-> {"x"}],
    [v |-> 30, p |-> 7, n |-> 1, perm |-> {"w"}]>>
(* memory: 2..23 units *)
LmMa == LmTy(<<LmRn(0,6,"usable"), LmRn(6,8,"reserved"), LmRn(8,9,"acpi"), LmRn(9,10,"nvs"),
    LmRn(10,16,"kernel"), LmRn(16,18,"usable"), LmRn(18,20,"reclaim"), LmRn(20,21,"bad"),
    LmRn(21,23,"reserved")>>)
LmMb == LmTy(<<LmRn(2,4,"reserved"), LmRn(4,6,"acpi"), LmRn(6,8,"reserved"), LmRn(8,10,"efi"),
    LmRn(10,16,"kernel"), LmRn(16,18,"reserved"), LmRn(18,20,"usable"), LmRn(20,22,"reserved"),
    LmRn(22,24,"usable")>>)
LmMc == LmTy(<<LmRn(2,10,"usable"), LmRn(10,16,"kernel"), LmRn(16,18,"reclaim"),
    LmRn(18,19,"reserved"), LmRn(19,24,"acpi")>>)
LmBase(arch,gib,lv,uefi,rev,ty,fbs,acpi,sm,sys,rt) ==
  [arch |-> arch, gib |-> gib, pat |-> TRUE, nx |-> TRUE, levels |-> lv, uefi |-> uefi,
      i386 |-> FALSE, rev |-> rev,
   types |-> [u \in Units |-> IF ~uefi /\ u < 2 THEN "none" ELSE ty[u]],
   fbs |-> fbs, acpi |-> acpi, smbios |-> sm, system |-> sys, runtime |-> rt, ranges |-> LmKrn,
       hhdm |-> 16]
LmFb(b,t) == [base |-> b, top |-> t]
LmFbs == {<<>>, <<LmFb(2,6)>>, <<LmFb(3,5)>>, <<LmFb(17,22)>>, <<LmFb(5,7)>>,
    <<LmFb(0,2), LmFb(22,24)>>}
(* tables for LmMa: in reserved 6..7, acpi 8, nvs 9, above in 21,22 *)
LmAa == {LmNoAcpi, LmTabs(LmT(7,1),1,LmNoRt,LmRt(8,1,<<LmFadt(6,1,<<LmT(9,1),LmNul>>),LmNul>>)),
       LmTabs(LmT(6,1),2,LmRt(21,1,<<LmT(22,1)>>),LmRt(0,0,<<>>)),
       LmTabs(LmT(5,1),2,LmRt(7,1,<<LmFadt(20,1,<<LmT(22,1)>>)>>),LmRt(0,0,<<>>))}
LmAb == {LmTabs(LmT(4,1),2,LmRt(5,1,<<LmT(3,1)>>),LmRt(2,1,<<>>)),
    LmTabs(LmT(16,1),1,LmNoRt,LmRt(17,1,<<LmFadt(5,1,<<LmT(7,1)>>)>>))}
(* tables for LmMc: an entry of the XSDT above 4 GiB, or the XSDT itself *)
LmAc == {LmNoAcpi, LmTabs(LmT(9,1),2,LmRt(18,1,<<LmT(3,1)>>),LmRt(7,1,<<LmFadt(6,1,<<>>)>>)),
         LmTabs(LmT(9,1),2,LmRt(7,1,<<LmT(18,1), LmFadt(6,1,<<LmT(19,1)>>)>>),LmNoRt)}
LmMachines == {LmBase("x86",g,4,FALSE,r,LmMa,f,LmNoAcpi,<<>>,<<>>,{}) : g \in BOOLEAN,
    r \in {0,1,3,4}, f \in LmFbs}
  \cup {LmBase("riscv",TRUE,3,TRUE,r,LmMb,f,a,<<LmT(2,1)>>,<<LmT(23,1)>>,{20,21}) : r \in {3,4,5},
      f \in {<<>>, <<LmFb(8,10)>>, <<LmFb(18,19)>>}, a \in LmAb}
  \cup {LmBase("x86",TRUE,5,FALSE,6,LmMa,f,a,<<LmT(22,1)>>,<<LmNul>>,{})
      : f \in {<<>>, <<LmFb(2,4)>>}, a \in LmAa}
  \cup {[LmBase("x86",TRUE,4,FALSE,r,LmMc,f,a,<<>>,<<>>,{}) EXCEPT !.pat = p, !.i386 = TRUE,
      !.nx = FALSE, !.hhdm = 12] : a \in LmAc, r \in {0,2,4}, f \in {<<>>, <<LmFb(3,4)>>, <<LmFb(17,19)>>},
      p \in BOOLEAN}

-----------------------------------------------------------------------------
(* Smp: MADT and device-tree processors of four architectures: listed      *)
(* twice, disabled, too short, dead, late, refused.                        *)
SmEn(k, c, u) == [kind |-> k, id |-> c, uid |-> u, on |-> TRUE, len |-> "ok",
                pin |-> "none", flags |-> 0, isa |-> "rv64i", rhct |-> TRUE,
                go |-> IF k = "gicc" THEN "psci" ELSE "ipi"]
SmNmi(k, u, p, f) == [SmEn(k, 0, u) EXCEPT !.pin = p, !.flags = f]
SmOff(e) == [e EXCEPT !.on = FALSE]
SmLn(e, l) == [e EXCEPT !.len = l]
SmLv(dm) == [r \in Lvts |-> [dm |-> IF r = "lint1" THEN dm ELSE "fixed", masked |-> FALSE,
                           flags |-> 0]]
SmBase == [arch |-> "x86", haslapic |-> TRUE, madt |-> <<>>, dtb |-> <<>>, bsp |-> 1, isa |-> "rv64i",
         want |-> FALSE, fwx2 |-> FALSE, x2ok |-> TRUE, locked |-> FALSE, rev5 |-> TRUE,
         cmci |-> TRUE, lvt |-> SmLv("extint"), refuses |-> {}, otherEl |-> {},
         speed |-> [c \in Cpus |-> "prompt"]]
SmSp(a, b) == [c \in Cpus |-> IF c = 2 THEN a ELSE IF c = 3 THEN b ELSE "prompt"]
SmSpeeds == {SmSp("prompt", "prompt"), SmSp("dead", "prompt"), SmSp("late", "prompt"),
    SmSp("prompt", "dead")}
SmL == <<SmEn("lapic", 2, 1), SmNmi("nmi", AllCpus, "lint1", 1), SmEn("lapic", 1, 0),
       SmLn(SmEn("lapic", 3, 9), "short"), SmEn("x2apic", 3, 300), SmNmi("nmi", 1, "lint0", 2),
       SmNmi("x2nmi", 300, "lint1", 3), SmOff(SmEn("lapic", 3, 7)),
           SmLn(SmEn("lapic", 2, 1), "broken"),
       SmEn("lapic", 3, 5)>>
SmX86 == {[SmBase EXCEPT !.madt = t, !.want = w, !.fwx2 = f, !.x2ok = o, !.rev5 = r, !.speed = s,
                     !.locked = k, !.lvt = v] :
          t \in {<<>>, SmL, SubSeq(SmL, 4, 4)}, w, f, o, r \in BOOLEAN, k \in {FALSE, TRUE},
          s \in SmSpeeds, v \in {SmLv("extint"), SmLv("smi")}}
  \cup {[SmBase EXCEPT !.haslapic = FALSE, !.madt = SmL]}
SmG(g) == [c \in 1..3 |-> [SmEn("gicc", c, c) EXCEPT !.go = g]]
SmD == <<[SmEn("cpu", 1, 0) EXCEPT !.go = "spin"], [SmEn("cpu", 2, 0) EXCEPT !.go = "bad"],
       [SmEn("cpu", 3, 0) EXCEPT !.go = "psci"], SmLn(SmEn("cpu", 2, 0), "short")>>
SmArm == {[SmBase EXCEPT !.arch = "arm", !.madt = t, !.dtb = d, !.speed = s, !.refuses = x,
                     !.otherEl = e] :
          t \in {<<>>, SmG("psci"), SmG("park"), SubSeq(SmG("psci"), 2, 3)}, d \in {<<>>, SmD},
          s \in SmSpeeds, x \in {{}, {2}, {2, 3}}, e \in {{}, {3}}}
SmLo == {[SmBase EXCEPT !.arch = "loong", !.madt = t, !.dtb = d, !.speed = s] :
          t \in {<<>>, <<SmEn("core_pic", 1, 0), SmEn("core_pic", 99, 2), SmEn("core_pic", 2, 1)>>,
                 <<SmOff(SmEn("core_pic", 1, 0))>>}, d \in {<<>>, Append(SmD, SmEn("cpu", 99, 0))}, s \in SmSpeeds}
SmHv == {[SmBase EXCEPT !.arch = "riscv", !.madt = t, !.speed = s, !.isa = i] :
          t \in {<<SmEn("intc", 1, 0), SmEn("intc", 2, 1),
              [SmEn("intc", 3, 2) EXCEPT !.isa = "rv32"]>>,
                 <<SmEn("intc", 2, 0), SmEn("intc", 3, 2)>>,
                 <<SmEn("intc", 1, 0), [SmEn("intc", 2, 1) EXCEPT !.rhct = FALSE]>>,
                 <<[SmEn("intc", 2, 0) EXCEPT !.isa = "none"], SmEn("intc", 1, 0),
                     SmEn("intc", 3, 2)>>},
          s \in SmSpeeds, i \in {"rv64i", "rv32"}} \cup
      {[SmBase EXCEPT !.arch = "riscv",
          !.madt = <<SmEn("intc", 1, 0), SmEn("intc", 2, 1), SmEn("intc", 3, 2)>>, !.refuses = {2}],
       [SmBase EXCEPT !.arch = "riscv", !.dtb = <<SmOff(SmEn("intc", 3, 0)), SmEn("intc", 1, 0),
          [SmEn("intc", 2, 0) EXCEPT !.isa = "rv64g"]>>]}
SmBoxes == SmX86 \cup SmArm \cup SmLo \cup SmHv

-----------------------------------------------------------------------------
(* Multiboot: Kernels of both protocols, by header, tags and sections,     *)
(* modules, and memory with holes and boot services.                       *)
MbMp(n, holes, boots, efis) ==
  [p \in 0 .. n - 1 |-> IF p \in holes THEN "hole" ELSE IF p \in boots THEN "boot"
      ELSE IF p \in efis THEN "efi" ELSE "usable"]
MbMaps == { MbMp(16, {0}, {1}, {14}), MbMp(16, {0, 6}, {11, 12}, {}), MbMp(18, {0, 3}, {1, 9}, {8}),
    MbMp(12, {0}, {4,5}, {}) }
MbAd(l, hd, le, bs) == [load_addr |-> l, header_addr |-> hd, load_end |-> le, bss_end |-> bs]
MbSc(a, n, o) == [addr |-> a, size |-> n, off |-> o]
MbElf1 == [off |-> 1, base |-> 4, size |-> 2, entry |-> 4]
MbNoSecs == <<>>
MbSecs1 == << MbSc(0, 0, 0), MbSc(4, 1, 1), MbSc(0, 1, 2), MbSc(0, 1, 0), MbSc(0,2,2) >>
MbFile(sz, ho, secs, tags, ad, en, vid, unk) ==
  [size |-> sz, hoff |-> ho, elf |-> MbElf1, secs |-> secs, tags |-> tags, address |-> ad,
      entry |-> en, video |-> vid, unknown |-> unk]
MbFiles1 == { MbFile(3, 0, MbSecs1, <<>>, {}, -1, FALSE, FALSE),
    MbFile(3, 0, MbSecs1, <<>>, {}, -1, TRUE, TRUE),
            MbFile(3, 1, MbNoSecs, <<>>, {MbAd(4, 5, 0, 8)}, 5, TRUE, FALSE),
                MbFile(3, 1, MbNoSecs, <<>>, {MbAd(5, 5, 7, 0)}, 6, TRUE, FALSE),
            MbFile(3, 1, MbNoSecs, <<>>, {MbAd(3, 5, 7, 0)}, 6, TRUE, FALSE),
                MbFile(3, 1, MbNoSecs, <<>>, {MbAd(8, 8, 9, 10)}, 8, TRUE, FALSE) }
MbRq(req, asks) == [type |-> "request", req |-> req, asks |-> asks]
MbTg(ty, req) == [type |-> ty, req |-> req]
MbCo(ok, x) == [type |-> "console", req |-> TRUE, ok |-> ok, text |-> x]
MbFbT == [type |-> "fb", req |-> FALSE, ok |-> TRUE]
MbEt(n) == [type |-> "entry", req |-> TRUE, ok |-> TRUE, at |-> n]
MbAt(a) == [type |-> "address", req |-> TRUE, ok |-> TRUE, load |-> a]
MbRl(mi, ma, al, pr) == [type |-> "reloc", req |-> TRUE, ok |-> TRUE,
    pref |-> [min |-> mi, max |-> ma, align |-> al, pref |-> pr]]
MbTagSets == { <<MbRq(TRUE, <<"fb", "mmap", "elf">>), MbRq(FALSE, <<"odd", "new">>),
    MbTg("odd", FALSE)>>,
  <<MbRq(TRUE, <<"new">>), MbRq(TRUE, <<"cmdline", "old">>), MbCo(TRUE, TRUE), MbFbT>>,
      <<MbCo(TRUE, TRUE)>>, <<MbCo(FALSE, TRUE), MbTg("efibs", FALSE)>>,
  <<MbRq(TRUE, <<"odd">>)>>, <<MbTg("efibs", TRUE)>>, <<MbTg("odd", TRUE)>>,
  <<MbRl(2, 12, 2, 1)>>, <<MbRl(1, 11, 2, 2)>>, <<MbRl(1, 16, 3, 0), MbRq(TRUE, <<"elf">>)>>,
      <<MbRl(4, 20, 1, 2)>>, <<MbRl(4, 8, 2, 2)>>, <<MbRl(5, 6, 4, 1)>>,
  <<MbRq(TRUE, <<"elf">>), MbEt(5), MbAt(MbAd(4, 5, 0, 8))>>,
      <<MbRq(FALSE, <<"elf">>), MbEt(5), MbAt(MbAd(-1, 5, 0, 8)), MbRl(1,12,2,2)>>,
      <<MbAt(MbAd(-1, 5, 0, 8))>> }
MbFiles2 == { MbFile(3, 1, MbSecs1, t, {}, -1, FALSE, FALSE) : t \in MbTagSets }
MbGv(v, n, o, sm, ent, ef, dh, cl) == [video |-> v, new |-> n, old |-> o, smbios |-> sm,
    entries |-> ent, efi |-> ef, efimax |-> 4, dhcp |-> dh, cmdline |-> cl]
MbGivens == { MbGv(TRUE, TRUE, TRUE, <<2, 3>>, 4, 4, TRUE, 2),
    MbGv(FALSE, FALSE, TRUE, <<2>>, 2, 3, FALSE, 3), MbGv(TRUE, FALSE, FALSE, <<>>, 5, 1, FALSE, 0),
    MbGv(TRUE, TRUE, FALSE, <<>>, 3, 5, FALSE, 1) }
MbMd(n, s) == [size |-> n, string |-> s]
MbModss == { <<>>, <<MbMd(1, 0), MbMd(2, 2)>>, <<MbMd(2, 1), MbMd(1, 3), MbMd(0,0)>>,
    <<MbMd(4, 2)>> }
MbLoads == { [proto |-> 1, uefi |-> ue, map |-> m, file |-> f, mods |-> md, given |-> g]
    : ue \in BOOLEAN, m \in MbMaps, f \in MbFiles1, md \in MbModss, g \in MbGivens }
  \cup { [proto |-> 2, uefi |-> ue, map |-> m, file |-> f, mods |-> md, given |-> g]
      : ue \in BOOLEAN, m \in MbMaps, f \in MbFiles2, md \in MbModss, g \in MbGivens }

-----------------------------------------------------------------------------
all == <<comp, pmmvars, xvars, rqvars, lmvars, smpvars, mbvars>>

(* Each component at rest. *)
AnyOf(S) == CHOOSE x \in S : TRUE
PmmRests == build = "bios" /\ raw = AnyOf(E820) /\ PmmInit
ExecutableRests == exe = AnyOf(Files) /\ kaslr = FALSE /\ XInit
LimineReqRests == kern = LrKe(<<LrSt>>, 0) /\ host = LrHo /\ RqInit
LimineMapRests == mach = AnyOf(Machines) /\ LmInit
SmpRests == box = AnyOf(Boxes) /\ SInit
MultibootRests == boot = AnyOf(Loads) /\ MbInit

AllInit ==
  \/ comp = "pmm" /\ ExecutableRests /\ LimineReqRests /\ LimineMapRests /\ SmpRests /\ MultibootRests /\ PmmInit
  \/ comp = "elf" /\ PmmRests /\ LimineReqRests /\ LimineMapRests /\ SmpRests /\ MultibootRests /\ XInit
  \/ comp = "requests" /\ PmmRests /\ ExecutableRests /\ LimineMapRests /\ SmpRests /\ MultibootRests /\ RqInit
  \/ comp = "map" /\ PmmRests /\ ExecutableRests /\ LimineReqRests /\ SmpRests /\ MultibootRests /\ LmInit
  \/ comp = "smp" /\ PmmRests /\ ExecutableRests /\ LimineReqRests /\ LimineMapRests /\ MultibootRests /\ SInit
  \/ comp = "multiboot" /\ PmmRests /\ ExecutableRests /\ LimineReqRests /\ LimineMapRests /\ SmpRests /\ MbInit

AllNext ==
  \/ comp = "pmm" /\ PmmNext /\ UNCHANGED <<comp, xvars, rqvars, lmvars, smpvars, mbvars>>
  \/ comp = "elf" /\ XNext /\ UNCHANGED <<comp, pmmvars, rqvars, lmvars, smpvars, mbvars>>
  \/ comp = "requests" /\ RqNext /\ UNCHANGED <<comp, pmmvars, xvars, lmvars, smpvars, mbvars>>
  \/ comp = "map" /\ LmNext /\ UNCHANGED <<comp, pmmvars, xvars, rqvars, smpvars, mbvars>>
  \/ comp = "smp" /\ SNext /\ UNCHANGED <<comp, pmmvars, xvars, rqvars, lmvars, mbvars>>
  \/ comp = "multiboot" /\ MbNext /\ UNCHANGED <<comp, pmmvars, xvars, rqvars, lmvars, smpvars>>

(* The fairness of the components that have one. *)
AllSpec ==
  /\ AllInit /\ [][AllNext]_all
  /\ WF_smpvars(comp = "smp" /\ Bsp)
  /\ WF_smpvars(comp = "smp" /\ GaveUp)
  /\ \A c \in Cpus : WF_smpvars(comp = "smp" /\ box.speed[c] = "prompt" /\ Trampoline(c))

(* When the processors are the component that runs, bring-up ends (smp.c).    *)
SmpBringUpEnds == comp = "smp" => BringUpEnds
=============================================================================

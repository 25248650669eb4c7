---------------------------- MODULE MCBootManager ---------------------------
(***************************************************************************)
(* The boot manager and its disks for TLC: one component at a time, the    *)
(* others at rest in an initial state.                                     *)
(***************************************************************************)
EXTENDS Menu, Config, Editor, PartTable, DiskIndex, HostInstall, TLC

VARIABLE comp  \* the component that runs

-----------------------------------------------------------------------------
(* Menu: Two trees, four configurations and four sets of variables: equal  *)
(* names in one directory, escaped names, stale paths, quiet, forced and   *)
(* absent timeouts.                                                        *)
MnEntry(n, p, s, o) == [name |-> n, parent |-> p, skip |-> s, open |-> o]
MnT1 == <<MnEntry(<<"a">>, 0, FALSE, FALSE), MnEntry(<<"a">>, 1, TRUE, FALSE),
    MnEntry(<<"a">>, 1, FALSE, FALSE), MnEntry(<<"a">>, 1, FALSE, FALSE),
        MnEntry(<<"a">>, 0, FALSE, FALSE), MnEntry(<<"a","#","1">>, 0, FALSE, FALSE),
            MnEntry(<<"\\","/">>, 0, FALSE, TRUE), MnEntry(<<"b">>, 7, FALSE, FALSE)>>
MnT2 == <<MnEntry(<<"b">>, 0, TRUE, FALSE)>>
MnNoDefault == [kind |-> "none", n |-> 0, path |-> <<>>]
MnByN(n) == [kind |-> "index", n |-> n, path |-> <<>>]
MnByP(p) == [kind |-> "path", n |-> 0, path |-> p]
MnConfig(t, d, r, tm, ms, q, e, u) == [tree |-> t, default |-> d, remember |-> r, timeout |-> tm,
    ms |-> ms, quiet |-> q, editor |-> e, uefi |-> u]
MnConfigs == {MnConfig(MnT1, MnByP(<<"a","#","1">>), TRUE, "ms", 3, TRUE, TRUE, TRUE),
       MnConfig(MnT1, MnByN(3), FALSE, "absent", 0, FALSE, FALSE, TRUE),
       MnConfig(MnT1, MnByP(<<"a","/","a","#","1">>), FALSE, "ms", 0, FALSE, TRUE, FALSE),
       MnConfig(MnT2, MnNoDefault, TRUE, "no", 0, TRUE, TRUE, TRUE)}
MnVars(os, la, df, ot, t) == [oneshot |-> os, last |-> la, default |-> df, oneshotTimeout |-> ot,
    timeout |-> t]
MnVariables == {MnVars(<<>>, <<>>, <<>>, "absent", "absent"),
       MnVars(<<>>, <<"a","/","x">>, <<>>, "absent", "0"),
       MnVars(<<"a","/","a","#","1">>, <<"a","/","a">>, <<"a","#","1">>, "0", "1"),
       MnVars(<<>>, <<"\\","\\","\\","/","/","b">>, <<"a","#","1">>, "hidden", "force")}

-----------------------------------------------------------------------------
(* Config: All short texts for the trimming, all short token strings for   *)
(* the macros, seven files with nested, skipped and nameless entries, and  *)
(* the places a file may lie.                                              *)
CfSeqs(S, n) == UNION {[1 .. k -> S] : k \in 0 .. n}
CfTexts == {s \o <<"n">> : s \in CfSeqs({"x", " ", "r", "n"}, 4)}
CfTokens == CfSeqs({"n", "$", "}", "=", "F"}, 5)
    \cup {<<"$","F","}","n","$","F","}","=","=">>,
    <<"$","F","}","=","=","n","$","F","}","=","}","n","$","F","}">>,
    <<"n","$","F","}","=","=","n","$","F","}">>}
CfEntry(d, nm) == [key |-> "/", depth |-> d, named |-> nm]
CfOption(k) == [key |-> k, depth |-> 0, named |-> FALSE]
CfFiles == <<<<CfOption("g"), CfEntry(1,TRUE), CfOption("m"), CfOption("s"), CfOption("m"),
    CfOption("s"), CfOption("s"), CfEntry(2,TRUE), CfOption("m"), CfOption("m"), CfOption("s"),
    CfEntry(3,TRUE), CfEntry(2,TRUE), CfEntry(1,TRUE), CfOption("s"), CfOption("m")>>,
        <<CfEntry(1,TRUE), CfEntry(3,TRUE)>>, <<CfEntry(1,TRUE), CfOption("g"), CfEntry(1,TRUE)>>,
            <<CfOption("x"), CfEntry(1,TRUE), CfEntry(2,TRUE), CfEntry(3,TRUE), CfEntry(4,TRUE)>>,
        <<CfEntry(2,TRUE), CfEntry(1,TRUE), CfEntry(1,FALSE), CfEntry(1,TRUE)>>, <<>>,
            <<CfOption("x"), CfEntry(1,TRUE), CfOption("g")>>>>
CfDrives == [smbios : {0, 2, 3, 7}, uefi : BOOLEAN, boot : {1, 2},
    parts : [1 .. 2 -> {<<0,0>>, <<0,1>>, <<4,1>>, <<5,2>>, <<2,0>>}]]

-----------------------------------------------------------------------------
(* Editor: Texts with tabs, empty lines and lines longer than the screen;  *)
(* every key.                                                              *)
EdTexts == {<<>>, <<"t","x","n","x">>, <<"n","x","n","x">>, <<"x","x","n","n","x">>,
    <<"x","x","x","n","x","n">>}
EdTyped == {"x", "n"}

-----------------------------------------------------------------------------
(* PartTable: Devices with two GPT headers of which either may be damaged, *)
(* of known and unknown block size, MBR tables, chains of logical          *)
(* partitions, and volumes for the block cache.                            *)
PtGuesses == <<1, 4, 8>>
PtHeader(lb, my, alt, crc, arrok) == [sig |-> TRUE, crc |-> crc, my |-> my, alt |-> alt,
    first |-> 3, last |-> 4, arr |-> IF my = 1 THEN 2 ELSE 5, size |-> lb, lb |-> lb,
    arrok |-> arrok]
PtData(f,c) == [link |-> FALSE, first |-> f, count |-> c]
PtLink(f,c) == [link |-> TRUE, first |-> f, count |-> c]
PtEbr(a,b,c) == [sig |-> TRUE, slots |-> <<a,b,c>>]
PtNoMbr == [sig |-> FALSE, fs |-> FALSE, slots |-> <<>>]
PtMedium(n, k, p, bad, h) == [n |-> n, known |-> k, prot |-> p, bad |-> bad, hdr |-> h,
    entries |-> <<>>, mbr |-> PtNoMbr]
PtMedia ==
  { PtMedium(n, TRUE, TRUE, {}, (1 :> PtHeader(1,1,6,c1,a1)) @@ (6 :> PtHeader(1,6,1,TRUE,TRUE))
      @@ (7 :> PtHeader(1,7,1,c3,TRUE)))
    : n \in {8,9}, c1 \in BOOLEAN, a1 \in BOOLEAN, c3 \in BOOLEAN }
  \cup { PtMedium(9, k, TRUE, {1}, (1 :> PtHeader(1,1,7,TRUE,TRUE))
      @@ (8 :> PtHeader(1,8,1,c3,TRUE))) : k \in BOOLEAN, c3 \in BOOLEAN }
  \cup { PtMedium(9, FALSE, TRUE, {}, (1 :> PtHeader(1,1,7,FALSE,TRUE))
      @@ (7 :> PtHeader(1,7,1,c3,TRUE))) : c3 \in BOOLEAN }
  \cup { PtMedium(n, TRUE, p, {}, (4 :> PtHeader(4,1,6,c1,TRUE))
      @@ (24 :> PtHeader(4,6,1,TRUE,TRUE))) : n \in {28,30,32}, p \in BOOLEAN, c1 \in BOOLEAN }
PtSlt(t, st, f, c) == [type |-> t, status |-> st, first |-> f, count |-> c]
PtEmpty == PtSlt("none", TRUE, 0, 0)
PtTb(n, h, es, sig, fs, sl) == [n |-> n, known |-> TRUE, prot |-> DOMAIN h # {}, bad |-> {},
    hdr |-> h, entries |-> es,
   mbr |-> [sig |-> sig, fs |-> fs, slots |-> sl],
       ebr |-> (0 :> PtEbr(PtData(1,2), PtLink(4,3), PtData(0,0)))
       @@ (4 :> PtEbr(PtData(1,1), PtData(2,7), PtData(0,0)))]
PtTables == { PtTb(32, 4 :> PtHeader(4,1,6,TRUE,TRUE),
    <<[used |-> u, first |-> f, last |-> l], [used |-> TRUE, first |-> 4, last |-> 4]>>, TRUE,
    FALSE, <<PtEmpty,PtEmpty,PtEmpty,PtEmpty>>)
              : u \in BOOLEAN, f \in {1, 3, 4}, l \in {3, 9} }
  \cup { PtTb(16, <<>>, <<>>, sig, fs, <<a, PtSlt("ext", TRUE, 6, x), PtEmpty, b>>)
      : sig \in BOOLEAN, fs \in BOOLEAN,
         a \in {PtSlt("data", TRUE, 1, 3), PtSlt("data", FALSE, 1, 3), PtSlt("data", TRUE, 14, 3),
             PtSlt("data", TRUE, 0, 3)},
             x \in {8, 20}, b \in {PtEmpty, PtSlt("ext", TRUE, 6, 7)} }
PtExtended == { [first |-> 2, count |-> 12, dev |-> 14,
   ebr |-> (0 :> PtEbr(a, PtLink(4,4), b)) @@ (4 :> PtEbr(c, PtLink(8,3), d))
       @@ (8 :> PtEbr(a, e, PtData(0,0))) ]
   : a \in {PtData(1,1), PtData(1,20), PtData(0,0)}, b \in {PtData(2,1), PtData(0,0), PtData(2,11)},
       c \in {PtData(1,2), PtData(0,0)}, d \in {PtData(2,1), PtData(1,5), PtLink(9,1)},
       e \in {PtData(2,1), PtLink(3,2)} }
PtVols == [first : {0, 4, 5}, count : {5, 8}, ratio : {1, 4}, xfer : {1,2}]

-----------------------------------------------------------------------------
(* DiskIndex: Three disks, two of which may be clones, a hole in a table,  *)
(* an unreadable disk, optical drives, and the firmware partition handles  *)
(* of UEFI.                                                                *)
DiPart(f, t) == [r |-> "found", first |-> f, size |-> 2, text |-> t]
DiHole == [r |-> "nopart", first |-> 0, size |-> 0, text |-> 0]
DiStop == [r |-> "end", first |-> 0, size |-> 0, text |-> 0]
DiDisk(id, path, optical, rem, two, ok, txt, parts) ==
  [id |-> id, path |-> path, start |-> -1, opt |-> optical, rem |-> rem, ro2048 |-> two,
      vmware |-> FALSE,
   readok |-> ok, known |-> ok, text |-> txt, size |-> 8, parts |-> parts]
DiPartHandle(id, path, ok, start,
    txt) == [DiDisk(id, path, FALSE, FALSE, FALSE, ok, txt, <<>>) EXCEPT !.start = start,
    !.size = 2]
DiD1 == { DiDisk(1, p, FALSE, FALSE, FALSE, ok, t, ps) : p \in {<<>>, <<1>>}, ok \in BOOLEAN, t \in {0, 1},
    ps \in {<<DiPart(2,3), DiHole, DiPart(5,4), DiStop>>,
    <<DiHole, DiPart(2,3), DiStop, DiPart(1,1)>>} }
DiD2 == { DiDisk(2, p, o, o, o, TRUE, 1, <<DiPart(2,t), DiPart(4, 3), DiPart(0, 1), DiStop>>) : p \in {<<>>, <<2>>},
    o \in BOOLEAN, t \in {1,3} }
DiD3 == { DiDisk(3, p, o, o, o, TRUE, t, <<DiStop>>) : p \in {<<3>>, <<2, 3>>}, t \in {1, 2},
    o \in BOOLEAN}
DiMachines == { [fw |-> f, bda |-> 2, devs |-> <<a, b, c>>] : f \in {"bios"}, a \in DiD1,
    b \in DiD2, c \in DiD3 }
  \cup { [fw |-> "uefi", bda |-> 0,
      devs |-> <<a, DiPartHandle(1, a.path, a.readok, 2, 3), b, c,
      DiPartHandle(2, b.path, TRUE, 4, 3), DiPartHandle(2, b.path, TRUE, s, 2)>>] : a \in DiD1,
      b \in DiD2, c \in DiD3, s \in {0, 7} }

-----------------------------------------------------------------------------
(* HostInstall: MBR and GPT devices, good and damaged, with and without    *)
(* room for stage 2, and the options of bios-install.                      *)
HiBlock0(sig, act, p, fs) == [code |-> "old", stamp |-> "date", loc |-> "old", id |-> "oldid",
    act |-> act, p |-> p, sig |-> sig, fs |-> fs]
HiAll(x) == [all |-> x]
HiMbrDisk(b0, n) == [b \in 0 .. 9 |-> IF b = 0 THEN b0 ELSE HiAll("data")]
HiMbrs == { [disk |-> HiMbrDisk(HiBlock0(s, a, p, f), 9), gpt |-> "none", alt |-> 0, hdr |-> 0,
    first |-> 4, last |-> 9, iso |-> FALSE, parts |-> <<>>]
          : s \in {"aa55", "junk"}, a \in {"active", "none", "bad"}, p \in {"ok", "low"},
              f \in {"none", "hint"} }
HiGptDisk(h1, end, c) == [b \in 0 .. 9 |-> IF b = 0 THEN HiBlock0("aa55", "none", "low", "none")
    ELSE IF b = 1 THEN HiAll(h1) ELSE IF b \in {2} THEN HiAll("arr")
                    ELSE IF b \in {3,4} THEN HiAll(c) ELSE IF b = 7 THEN HiAll("hdr")
                        ELSE IF b = 6 THEN HiAll("arr") ELSE IF b = 9 THEN HiAll(end)
                        ELSE HiAll("data")]
HiPart(bios, f, l, conv, low) == [bios |-> bios, first |-> f, last |-> l, conv |-> conv,
    low |-> low]
HiGpts == { [disk |-> HiGptDisk(IF g = "primary" THEN "hdr" ELSE "junk", e, c), gpt |-> g,
    alt |-> 7, hdr |-> IF g = "primary" THEN 1 ELSE 7, first |-> 3, last |-> l, iso |-> iso,
    parts |-> ps]
          : g \in {"primary", "alternate"}, e \in {"hdr", "data"}, c \in {"data", "fs"},
              l \in {5, 8}, iso \in BOOLEAN,
            ps \in { <<HiPart(FALSE, 5, 5, TRUE, FALSE), HiPart(TRUE, 3, 4, TRUE, FALSE)>>,
                <<HiPart(TRUE, 3, 4, TRUE, TRUE)>>, <<HiPart(FALSE, 3, 3, FALSE, FALSE)>> } }
HiDevices == HiMbrs \cup { d \in HiGpts : d.disk[9].all = "hdr" => d.last <= 8 }
HiOptions == [force : BOOLEAN, convert : BOOLEAN, index : {0, 1}, file : {TRUE}]

-----------------------------------------------------------------------------
all == <<comp, mvars, cfvars, edvars, ptvars, divars, hvars>>

(* Each component at rest. *)
AnyOf(S) == CHOOSE x \in S : TRUE
MenuRests == conf = AnyOf(MenuConfigs) /\ nv = AnyOf(Variables) /\ MInit
ConfigRests == cpc = "locate" /\ drive = AnyOf(Drives) /\ CfInit
EditorRests == buffer = <<>> /\ EdInit
PartTableRests == kind = "read" /\ vol = AnyOf(Vols) /\ PtInit
DiskIndexRests == machine = AnyOf(Machines) /\ DiInit
HostInstallRests == given = AnyOf(Devices) /\ opt = AnyOf(Options) /\ HInit

AllInit ==
  \/ comp = "menu" /\ ConfigRests /\ EditorRests /\ PartTableRests /\ DiskIndexRests /\ HostInstallRests /\ MInit
  \/ comp = "config" /\ MenuRests /\ EditorRests /\ PartTableRests /\ DiskIndexRests /\ HostInstallRests /\ CfInit
  \/ comp = "editor" /\ MenuRests /\ ConfigRests /\ PartTableRests /\ DiskIndexRests /\ HostInstallRests /\ EdInit
  \/ comp = "parts" /\ MenuRests /\ ConfigRests /\ EditorRests /\ DiskIndexRests /\ HostInstallRests /\ PtInit
  \/ comp = "index" /\ MenuRests /\ ConfigRests /\ EditorRests /\ PartTableRests /\ HostInstallRests /\ DiInit
  \/ comp = "install" /\ MenuRests /\ ConfigRests /\ EditorRests /\ PartTableRests /\ DiskIndexRests /\ HInit

AllNext ==
  \/ comp = "menu" /\ MNext /\ UNCHANGED <<comp, cfvars, edvars, ptvars, divars, hvars>>
  \/ comp = "config" /\ CfNext /\ UNCHANGED <<comp, mvars, edvars, ptvars, divars, hvars>>
  \/ comp = "editor" /\ EdNext /\ UNCHANGED <<comp, mvars, cfvars, ptvars, divars, hvars>>
  \/ comp = "parts" /\ PtNext /\ UNCHANGED <<comp, mvars, cfvars, edvars, divars, hvars>>
  \/ comp = "index" /\ DiNext /\ UNCHANGED <<comp, mvars, cfvars, edvars, ptvars, hvars>>
  \/ comp = "install" /\ HNext /\ UNCHANGED <<comp, mvars, cfvars, edvars, ptvars, divars>>

(* The fairness of the components that have one. *)
AllSpec ==
  /\ AllInit /\ [][AllNext]_all
  /\ WF_mvars(comp = "menu" /\ Start)
  /\ WF_mvars(comp = "menu" /\ Draw)
  /\ WF_mvars(comp = "menu" /\ Tick)
  /\ WF_edvars(comp = "editor" /\ DrawEditor)

(* When the editor is the component that runs, every redraw of a tame text    *)
(* ends (config editor, menu.c).                                              *)
EditorRefreshEnds == comp = "editor" => TameRefreshEnds
=============================================================================

------------------------------- MODULE Config -------------------------------
(***************************************************************************)
(* The configuration file (common/lib/config.c): where it is found, how    *)
(* its lines are trimmed and its macros expanded, the menu tree built from *)
(* its entry lines, the lookup of values and of pairs of values, and the   *)
(* way back to an empty menu when it is malformed.                         *)
(*                                                                         *)
(* Trimming works on characters ("x", blank " ", carriage return "r",      *)
(* newline "n"); macros on tokens ("n", "$" for the opening ${, "}", "=",  *)
(* and "F"); the rest on lines: an entry line with its number of slashes,  *)
(* whether a name follows and whether a + does, or an option with key and  *)
(* value.                                                                  *)
(***************************************************************************)
EXTENDS Integers, Sequences, SequencesExt, FiniteSets, FiniteSetsExt

CONSTANTS Texts,              \* character sequences to trim
          Tokens,             \* token sequences to expand
          Files,              \* files as sequences of lines
          Drives,             \* machines to look for the file on
          MAX_MENU_NESTING

VARIABLES cpc,                \* "trim", "macros", "locate", "build", "ready", "empty"
          text, toks, drive,
          file,               \* the file picked: its number in Files, 0 none
          boot_volume, from,  \* the boot partition, and the one the file came from
          tree, bad_config, panics

cfvars == <<cpc, text, toks, drive, file, boot_volume, from, tree, bad_config, panics>>

-----------------------------------------------------------------------------
(* Trimming, in place: skip(s, i) characters are removed at i, and i is    *)
(* looked at again.                                                        *)
Blanks == {" ", "t"}
Blank(c) == c \in Blanks
CharAt(s, i) == IF i \in DOMAIN s THEN s[i] ELSE "0"
RunFrom(s, i, chars) == Min({j \in i .. Len(s) + 1 : j = Len(s) + 1 \/ s[j] \notin chars}) - i

TrimSkip(s, i) ==
  LET blanks == RunFrom(s, i, Blanks)
      start == i = 1 \/ CharAt(s, i - 1) = "n"
      gone == {"r"} \cup (IF start THEN Blanks ELSE {})
  IN IF Blank(s[i]) /\ CharAt(s, i + blanks) = "n" THEN blanks ELSE RunFrom(s, i, gone)

TrimNext(i, skip) == IF skip > 0 THEN i ELSE i + 1

RECURSIVE Trimmed(_, _)
Trimmed(s, i) ==
  IF i > Len(s) THEN s
  ELSE LET skip == TrimSkip(s, i)
       IN Trimmed(SubSeq(s, 1, i - 1) \o SubSeq(s, i + skip, Len(s)), TrimNext(i, skip))

-----------------------------------------------------------------------------
(* Macros. *)
UpTo(s, i, stop) == Min({j \in i .. Len(s) + 1 : j = Len(s) + 1 \/ s[j] \in stop})
DefinesAt(s, i) == \/ CharAt(s, i) = "n" /\ CharAt(s, i + 1) = "$"
                   \/ i = 1 /\ CharAt(s, 1) = "$"
NameStart(i, s) == IF s[i] = "n" THEN i + 2 ELSE i + 1
(* At the start of the file two characters are skipped, be it ${ or a      *)
(* newline and $: the brace is then taken for a part of the name.          *)
NameBrace(i, s) == IF i = 1 /\ s[i] = "n" THEN <<"{">> ELSE <<>>

(* The definitions in the order of the file, the built-in ones first.  *)
RECURSIVE LoadMacros(_, _, _)
LoadMacros(s, i, known) ==
  IF i > Len(s) THEN known
  ELSE IF ~DefinesAt(s, i) THEN LoadMacros(s, i + 1, known)
  ELSE LET b == NameStart(i, s)
           e == UpTo(s, b, {"}", "n"})
           v == UpTo(s, e + 2, {"n"})
       IN IF CharAt(s, e) # "}" \/ CharAt(s, e + 1) # "=" THEN LoadMacros(s, e, known)
          ELSE LoadMacros(s, v, Append(known, [name |-> NameBrace(i, s) \o SubSeq(s, b, e - 1),
                                               value |-> SubSeq(s, e + 2, v - 1)]))

MacroValue(name, known) ==
  LET named == {k \in DOMAIN known : known[k].name = name}
  IN IF named = {} THEN <<>> ELSE known[Max(named)].value

Malformed == <<"malformed">>
(* The file without its definitions, every use replaced. *)
RECURSIVE Expand(_, _, _)
Expand(s, i, known) ==
  LET b == NameStart(i, s)
      e == UpTo(s, b, {"}"})
      close == UpTo(s, i + 1, {"}", "n"})
      And(head, tail) == IF tail = Malformed THEN Malformed ELSE head \o tail
  IN IF i > Len(s) THEN <<>>
     ELSE IF DefinesAt(s, i) /\ e > Len(s) THEN Malformed
     ELSE IF DefinesAt(s, i) /\ CharAt(s, e + 1) = "=" THEN Expand(s, UpTo(s, e + 2, {"n"}), known)
     ELSE IF s[i] # "$" THEN And(<<s[i]>>, Expand(s, i + 1, known))
     ELSE IF CharAt(s, close) # "}" THEN Malformed
     ELSE And(MacroValue(SubSeq(s, i + 1, close - 1), known), Expand(s, close + 1, known))

Builtin == <<[name |-> <<"F">>, value |-> <<"F", "F">>]>>

-----------------------------------------------------------------------------
(* The menu tree, from the entry lines. *)
Entries(lines) == SelectSeq(lines, LAMBDA l : l.key = "/")

is_child(es, depth, i) ==
  IF i > Len(es) THEN "not"
  ELSE IF es[i].depth < depth \/ (es[i].depth = depth /\ ~es[i].named) THEN "not"
  ELSE IF es[i].depth = depth THEN "direct" ELSE "indirect"

Broken == <<[entry |-> 0, parent |-> 0]>>
(* mutant: an indirect child ends the list of children *)
AfterIndirect_Stops(es, i) == Len(es) + 1
AfterIndirect(es, i) == i + 1

RECURSIVE create_menu_tree(_, _, _, _)
create_menu_tree(es, parent, depth, i) ==
  LET kind == is_child(es, depth, i)
      below == is_child(es, depth + 1, i + 1)
      sub == IF below = "direct" THEN create_menu_tree(es, i, depth + 1, i + 1) ELSE <<>>
      rest == create_menu_tree(es, parent, depth, i + 1)
  IN IF depth > MAX_MENU_NESTING THEN Broken
     ELSE IF kind = "not" THEN <<>>
     ELSE IF kind = "indirect" THEN create_menu_tree(es, parent, depth, AfterIndirect(es, i))
     ELSE IF below = "indirect" \/ sub = Broken \/ rest = Broken THEN Broken
     ELSE <<[entry |-> i, parent |-> parent]>> \o sub \o rest

-----------------------------------------------------------------------------
(* The body of the n-th entry. *)
config_get_entry(lines, n) ==
  LET heads == SetToSortSeq({k \in DOMAIN lines : lines[k].key = "/"}, <)
      last == IF n < Len(heads) THEN heads[n + 1] - 1 ELSE Len(lines)
  IN SubSeq(lines, heads[n] + 1, last)

(* The line of the index-th value of a key after a line, 0 if none. *)
config_get_value(lines, after, index, key) ==
  LET at == {k \in DOMAIN lines : k > after /\ lines[k].key = key}
      nth == {k \in at : Cardinality({j \in at : j < k}) = index}
  IN IF nth = {} THEN 0 ELSE Max(nth)

Own(l2, l3) == l3 = 0 \/ l2 < l3

config_get_tuple(lines, index, key1, key2) ==
  LET l1 == config_get_value(lines, 0, index, key1)
      l2 == config_get_value(lines, l1, 0, key2)
      l3 == config_get_value(lines, 0, index + 1, key1)
  IN IF l1 = 0 THEN <<0, 0>> ELSE <<l1, IF l2 # 0 /\ Own(l2, l3) THEN l2 ELSE 0>>

-----------------------------------------------------------------------------
(* Finding the file: the firmware's OEM string, on UEFI the boot           *)
(* partition, then every partition in order; each by its candidate paths   *)
(* in order.                                                               *)
Candidate(part) == LET have == {k \in DOMAIN part : part[k] # 0}
                   IN IF have = {} THEN 0 ELSE part[Min(have)]
Holding == {p \in DOMAIN drive.parts : Candidate(drive.parts[p]) # 0}

PickDisk ==
  LET p == IF drive.uefi /\ boot_volume \in Holding THEN boot_volume ELSE Min(Holding)
  IN file' = Candidate(drive.parts[p]) /\ from' = p /\ boot_volume' = p

Locate ==
  /\ cpc = "locate"
  /\ IF bad_config \/ (drive.smbios = 0 /\ Holding = {})
     THEN cpc' = "empty" /\ UNCHANGED <<file, from, boot_volume>>
     ELSE /\ cpc' = "build"
          /\ IF drive.smbios # 0 THEN file' = drive.smbios /\ UNCHANGED <<from, boot_volume>> ELSE PickDisk
  /\ UNCHANGED <<text, toks, drive, tree, bad_config, panics>>

BadMark == TRUE

(* A malformed file panics back into the menu, which starts afresh but for *)
(* bad_config.                                                             *)
Build ==
  /\ cpc = "build"
  /\ LET t == create_menu_tree(Entries(Files[file]), 0, 1, 1)
     IN IF t = Broken
        THEN /\ bad_config' = BadMark /\ panics' = panics + 1 /\ cpc' = "locate" /\ file' = 0 /\ tree' = <<>>
             /\ from' = 0 /\ boot_volume' = drive.boot
        ELSE tree' = t /\ cpc' = "ready" /\ UNCHANGED <<file, bad_config, panics, from, boot_volume>>
  /\ UNCHANGED <<text, toks, drive>>

Trim == cpc = "trim" /\ cpc' = "done" /\ text' = Trimmed(text, 1)
        /\ UNCHANGED <<toks, drive, file, boot_volume, from, tree, bad_config, panics>>
Macros == cpc = "macros" /\ cpc' = "done" /\ toks' = Expand(toks, 1, LoadMacros(toks, 1, Builtin))
          /\ UNCHANGED <<text, drive, file, boot_volume, from, tree, bad_config, panics>>

CfInit ==
  /\ \/ cpc = "trim" /\ text \in Texts /\ toks = <<>> /\ drive = CHOOSE d \in Drives : TRUE
     \/ cpc = "macros" /\ text = <<>> /\ toks \in Tokens /\ drive = CHOOSE d \in Drives : TRUE
     \/ cpc = "locate" /\ text = <<>> /\ toks = <<>> /\ drive \in Drives
  /\ file = 0 /\ boot_volume = drive.boot /\ from = 0 /\ tree = <<>> /\ bad_config = FALSE /\ panics = 0

CfNext == Trim \/ Macros \/ Locate \/ Build
CfSpec == CfInit /\ [][CfNext]_cfvars

-----------------------------------------------------------------------------
(* What the lines of a text are, trimmed: no carriage return, no blank at  *)
(* the start or at the end of a line.                                      *)
Clean(s) == \A i \in DOMAIN s : /\ s[i] # "r"
                                /\ Blank(s[i]) => CharAt(s, i - 1) \notin {"0", "n"} /\ CharAt(s, i + 1) # "n"
Solid(s) == SelectSeq(s, LAMBDA c : c \notin {"r", " ", "t"})

(* Trimming removes carriage returns and outer blanks, as its comment      *)
(* says, and nothing else, for files with no blank before a carriage       *)
(* return.                                                                 *)
TrimExactButCr ==
  [][cpc = "trim" /\ (\A i \in DOMAIN text : text[i] = "r" => ~Blank(CharAt(text, i - 1))) =>
       Clean(text') /\ Solid(text') = Solid(text)]_cfvars

(* The reference for the macros: lines, definitions, uses. *)
RECURSIVE LinesOf(_)
LinesOf(s) == LET e == UpTo(s, 1, {"n"})
              IN IF s = <<>> THEN <<>> ELSE <<SubSeq(s, 1, e - 1)>> \o LinesOf(SubSeq(s, e + 1, Len(s)))
IsDef(l) == CharAt(l, 1) = "$" /\ CharAt(l, UpTo(l, 2, {"}"}) + 1) = "="
DefOf(l) == LET e == UpTo(l, 2, {"}"}) IN [name |-> SubSeq(l, 2, e - 1), value |-> SubSeq(l, e + 2, Len(l))]
RECURSIVE Used(_, _)
Used(l, defs) ==
  LET e == UpTo(l, 1, {"}"})
      of == {k \in DOMAIN defs : defs[k].name = SubSeq(l, 2, e - 1)}
  IN IF l = <<>> THEN <<>>
     ELSE IF Head(l) # "$" THEN <<Head(l)>> \o Used(Tail(l), defs)
     ELSE (IF of = {} THEN <<>> ELSE defs[Max(of)].value) \o Used(SubSeq(l, e + 1, Len(l)), defs)
WellFormed(s) == \A i \in DOMAIN s : s[i] = "$" => CharAt(s, UpTo(s, i + 1, {"}", "n"})) = "}"
EmptyFirst(s) == CharAt(s, 1) = "n" /\ CharAt(s, 2) = "$"
NonEmpty(ls) == SelectSeq(ls, LAMBDA l : l # <<>>)

(* Every use of a macro is replaced by its last definition in the file, be *)
(* it before or after the use, every definition is gone, and the loader    *)
(* and the expander agree on what a definition is; for texts whose braces  *)
(* close on the line they open on, and which do not begin with an empty    *)
(* line before a definition (config.c:460 gives that one another name).    *)
MacrosExact ==
  [][cpc = "macros" /\ WellFormed(toks) /\ ~EmptyFirst(toks) =>
       LET ls == LinesOf(toks)
           raw == SelectSeq(ls, IsDef)
           defs == Builtin \o [k \in DOMAIN raw |-> DefOf(raw[k])]
           kept == SelectSeq(ls, LAMBDA l : ~IsDef(l))
       IN NonEmpty(LinesOf(toks')) = NonEmpty([k \in DOMAIN kept |-> Used(kept[k], defs)])]_cfvars

(* Every entry line becomes a menu entry, in the order of the file, below  *)
(* the last line before it that is one level up; a line more than one      *)
(* level below the line before it is refused.  Lines without a name, and   *)
(* a first line that is not at the top, are left out of account: they end  *)
(* or are dropped from the tree without a word.                            *)
TreeFaithful ==
  cpc \in {"ready", "empty"} /\ file # 0 =>
    LET es == Entries(Files[file])
        regular == es # <<>> => /\ es[1].depth = 1
                                /\ \A k \in DOMAIN es : es[k].named /\ es[k].depth <= MAX_MENU_NESTING
    IN regular =>
         /\ Len(tree) = Len(es)
         /\ \A k \in DOMAIN es :
              /\ tree[k].entry = k
              /\ IF es[k].depth = 1 THEN tree[k].parent = 0
                 ELSE tree[k].parent = Max({j \in 1 .. k - 1 : es[j].depth = es[k].depth - 1})

(* The second value of a pair (a module's string) is the first one that    *)
(* follows its first value and precedes the next first value: a module     *)
(* without a string never takes the next one's.                            *)
TupleOwn ==
  cpc = "ready" =>
    \A n \in 1 .. Len(Entries(Files[file])), index \in 0 .. 2 :
      LET b == config_get_entry(Files[file], n)
          t == config_get_tuple(b, index, "m", "s")
          between == {k \in DOMAIN b : /\ k > t[1] /\ b[k].key = "s"
                                       /\ \A j \in t[1] + 1 .. k : b[j].key # "m"}
      IN t[1] # 0 => t[2] = IF between = {} THEN 0 ELSE Min(between)

(* A file that panics is tried once: the menu that follows is empty, it    *)
(* does not panic again.                                                   *)
OnePanic == panics <= 1

(* The boot volume is the partition the file in use was read from, so that *)
(* the paths of its entries mean that partition.                           *)
ConfigOnBootVolume == cpc = "ready" /\ drive.smbios = 0 => from = boot_volume

(* The menu shows what the file says: none of the passes of init_config    *)
(* over the text loses, adds or moves anything, a value never comes from   *)
(* the next tuple, a file that panics is not tried again, and the paths in *)
(* it mean the volume it was read from (lib/config.c).                     *)
ConfigFaithful ==
  /\ TrimExactButCr /\ MacrosExact
  /\ [](TreeFaithful /\ TupleOwn /\ OnePanic /\ ConfigOnBootVolume)
=============================================================================

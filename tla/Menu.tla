-------------------------------- MODULE Menu --------------------------------
(***************************************************************************)
(* The boot menu (common/menu.c, _menu and boot) and the variables it      *)
(* shares with the operating system (common/lib/bli.c): which entry is     *)
(* selected at startup, navigation, the countdown, the editor's way back   *)
(* into the menu, and the return to the menu after a failed boot.          *)
(*                                                                         *)
(* A tree is the sequence of its entries in preorder, each with its name   *)
(* (a sequence of characters), its parent (0 at the top), whether this     *)
(* machine skips it, and whether it starts expanded.  The text of an       *)
(* entry's body is the number of the entry it was written for, 0 for the   *)
(* blank entry.                                                            *)
(***************************************************************************)
EXTENDS Integers, Sequences, SequencesExt, FiniteSets, FiniteSetsExt

CONSTANTS MenuConfigs, Variables, Window, Second, MaxRuns, MaxPresses

VARIABLES conf,       \* the configuration
          nv,         \* the EFI variables
          menu,       \* the locals of _menu
          mpc,        \* where _menu is
          kept,       \* what a failed boot leaves: booting_from_*, saved text
          booted,     \* the text handed to boot() last
          wanted,     \* the entry the variables and the configuration ask for
          budget      \* runs of _menu and keys pressed

mvars == <<conf, nv, menu, mpc, kept, booted, wanted, budget>>

-----------------------------------------------------------------------------
(* The tree. *)
IsDir(t, e) == \E k \in DOMAIN t : t[k].parent = e
should_skip_entry(t, e) == ~IsDir(t, e) /\ t[e].skip

RECURSIVE Above(_, _)
Above(t, e) == IF e = 0 \/ t[e].parent = 0 THEN {} ELSE {t[e].parent} \cup Above(t, t[e].parent)

(* The entries below p that show when p does. *)
ShownBelow(t, ex, p) ==
  {k \in DOMAIN t : /\ ~should_skip_entry(t, k) /\ (p = 0 \/ p \in Above(t, k))
                    /\ Above(t, k) \ (Above(t, p) \cup {p}) \subseteq ex}
count_visible_entries(t, ex, p) == Cardinality(ShownBelow(t, ex, p))

(* The entries in the order the tree is printed. *)
print_tree(t, ex) == LET shown == ShownBelow(t, ex, 0)
                     IN SelectSeq([k \in 1 .. Len(t) |-> k], LAMBDA k : k \in shown)

-----------------------------------------------------------------------------
(* Paths. *)
Digits == <<"1", "2", "3">>

SameName(t, e) == {k \in 1 .. e - 1 : /\ t[k].parent = t[e].parent /\ t[k].name = t[e].name
                                      /\ ~should_skip_entry(t, k)}
get_sibling_dup_index(t, e) == Cardinality(SameName(t, e))

RECURSIVE escape_name(_)
escape_name(n) ==
  IF n = <<>> THEN <<>>
  ELSE (IF Head(n) \in {"\\", "/", "#"} THEN <<"\\">> ELSE <<>>) \o <<Head(n)>> \o escape_name(Tail(n))

RECURSIVE get_entry_path(_, _)
get_entry_path(t, e) ==
  LET dup == get_sibling_dup_index(t, e)
  IN (IF t[e].parent = 0 THEN <<>> ELSE get_entry_path(t, t[e].parent) \o <<"/">>)
     \o escape_name(t[e].name) \o (IF dup = 0 THEN <<>> ELSE <<"#", Digits[dup]>>)

(* "#N" counts as a duplicate index only at the end of a component. *)
NumberedLine(p) == Len(p) > 1 /\ p[1] = "#" /\ p[2] \in Range(Digits) /\ (Len(p) = 2 \/ p[3] = "/")

RECURSIVE parse_path_component(_, _)
parse_path_component(p, name) ==
  IF p = <<>> THEN [name |-> name, dup |-> 0, rest |-> <<>>]
  ELSE IF Head(p) = "/" THEN [name |-> name, dup |-> 0, rest |-> Tail(p)]
  ELSE IF Head(p) = "\\" /\ Len(p) > 1 THEN parse_path_component(SubSeq(p, 3, Len(p)), Append(name, p[2]))
  ELSE IF NumberedLine(p)
  THEN [name |-> name, dup |-> CHOOSE d \in DOMAIN Digits : Digits[d] = p[2], rest |-> SubSeq(p, 4, Len(p))]
  ELSE parse_path_component(Tail(p), Append(name, Head(p)))

Siblings(t, p) == {k \in DOMAIN t : t[k].parent = p /\ ~should_skip_entry(t, k)}

(* Rows taken by the earlier siblings and what is shown below them. *)
RowsBefore(t, ex, p, hit) ==
  LET earlier == {k \in Siblings(t, p) : k < hit}
  IN Cardinality(earlier) + MapThenSumSet(LAMBDA k : count_visible_entries(t, ex, k), earlier \cap ex)

(* Directories on the way are expanded even if the path leads nowhere. *)
RECURSIVE find_entry_by_path(_, _, _, _, _)
find_entry_by_path(t, ex, path, p, base) ==
  LET c == parse_path_component(path, <<>>)
      last == c.rest = <<>>
      hits == {k \in Siblings(t, p) : /\ t[k].name = c.name /\ IsDir(t, k) = ~last
                                      /\ Cardinality(SameName(t, k)) = c.dup}
      hit == CHOOSE k \in hits : TRUE
      idx == base + RowsBefore(t, ex, p, hit)
  IN IF hits = {} THEN [entry |-> 0, index |-> 0, ex |-> ex]
     ELSE IF last THEN [entry |-> hit, index |-> idx, ex |-> ex]
     ELSE find_entry_by_path(t, ex \cup {hit}, c.rest, hit, idx + 1)

-----------------------------------------------------------------------------
(* Startup.  s: what is expanded, the selected index, and has_entry. *)
Opened(t) == {k \in DOMAIN t : IsDir(t, k) /\ t[k].open}

Lookup(s, path) ==
  LET r == find_entry_by_path(conf.tree, s.ex, path, 0, 0)
  IN [ex |-> r.ex, sel |-> IF r.entry # 0 THEN r.index ELSE s.sel, has |-> r.entry # 0]

ByVariable(s, given, path) == IF s.has \/ ~conf.uefi \/ ~given \/ path = <<>> THEN s ELSE Lookup(s, path)
ByDefault(s) ==
  IF s.has THEN s
  ELSE CASE conf.default.kind = "none" -> s
         [] conf.default.kind = "index" -> [s EXCEPT !.sel = Max({conf.default.n - 1, 0})]
         [] OTHER -> [Lookup(s, conf.default.path) EXCEPT !.has = FALSE]

(* mutant: the boot loader interface's default beats the remembered entry *)
Selected_Swapped(s2) == ByVariable(ByVariable(s2, TRUE, nv.default), conf.remember, nv.last)
Selected(s2) == ByVariable(ByVariable(s2, conf.remember, nv.last), TRUE, nv.default)
FirstSelected == ByDefault(ByVariable([ex |-> Opened(conf.tree), sel |-> 0, has |-> FALSE], TRUE, nv.oneshot))

(* A timeout variable: absent, menu-force, menu-hidden, or seconds; the    *)
(* one-shot's 0 means for ever.                                            *)
handle_timeout(v, erase) ==
  CASE v = "absent" -> [has |-> FALSE, skip |-> FALSE, ms |-> 5 * Second]
    [] v = "force" \/ (v = "0" /\ erase) -> [has |-> TRUE, skip |-> TRUE, ms |-> 5 * Second]
    [] v \in {"hidden", "0"} -> [has |-> TRUE, skip |-> FALSE, ms |-> 0]
    [] v = "1" -> [has |-> TRUE, skip |-> FALSE, ms |-> Second]

TimeoutWanted ==
  LET none == [has |-> FALSE, skip |-> FALSE, ms |-> 5 * Second]
      once == IF conf.uefi THEN handle_timeout(nv.oneshotTimeout, TRUE) ELSE none
      file == [has |-> conf.timeout # "absent", skip |-> conf.timeout = "no", ms |-> conf.ms]
  IN IF once.has THEN once ELSE IF file.has THEN file
     ELSE IF conf.uefi THEN handle_timeout(nv.timeout, FALSE) ELSE none

-----------------------------------------------------------------------------
(* Handing an entry over: a directory is toggled, anything else is booted  *)
(* with its path left in LimineLastBootedEntry.                            *)
RecordedPath(e) == get_entry_path(conf.tree, e)
Toggle(m) == [m EXCEPT !.ex = IF m.cur \in @ THEN @ \ {m.cur} ELSE @ \cup {m.cur}]
Autoboot(m) ==
  IF IsDir(conf.tree, m.cur)
  THEN menu' = Toggle(m) /\ mpc' = "draw" /\ UNCHANGED <<nv, booted>>
  ELSE /\ menu' = m /\ mpc' = "boot" /\ booted' = m.body[m.cur]
       /\ nv' = IF conf.uefi THEN [nv EXCEPT !.last = RecordedPath(m.cur)] ELSE nv

(* The path of a leaf names it, and the first variable that names one      *)
(* decides: one-shot, remembered, boot loader interface, default_entry.    *)
Named(path) == {e \in DOMAIN conf.tree : /\ ~IsDir(conf.tree, e) /\ ~should_skip_entry(conf.tree, e)
                                         /\ path # <<>> /\ get_entry_path(conf.tree, e) = path}
Wishes == <<IF conf.uefi THEN Named(nv.oneshot) ELSE {},
            IF conf.uefi /\ conf.remember THEN Named(nv.last) ELSE {},
            IF conf.uefi THEN Named(nv.default) ELSE {},
            IF conf.default.kind = "path" THEN Named(conf.default.path) ELSE {}>>
Wish == LET some == {i \in DOMAIN Wishes : Wishes[i] # {}}
        IN IF some = {} THEN [by |-> 5, e |-> 0]
           ELSE [by |-> Min(some), e |-> CHOOSE e \in Wishes[Min(some)] : TRUE]

Begun(s, rows, t) ==
  LET cur == IF s.sel < Len(rows) THEN rows[s.sel + 1] ELSE 0
      skip == t.skip \/ ~menu.first
      invalid == ~skip /\ t.ms = 0 /\ (cur = 0 \/ IsDir(conf.tree, cur))
  IN [menu EXCEPT !.ex = s.ex, !.sel = IF s.sel < Len(rows) THEN s.sel ELSE 0, !.cur = cur,
                  !.max = Len(rows), !.offset = 0, !.ms = t.ms, !.skip = skip \/ invalid,
                  !.quiet = conf.quiet /\ menu.first /\ ~invalid,
                  !.body = [e \in DOMAIN conf.tree |-> e]]

(* A one-shot variable is erased when it is read. *)
Spent(v) == [v EXCEPT !.oneshot = <<>>, !.oneshotTimeout = "absent"]

Start ==
  /\ mpc = "start" /\ budget.runs < MaxRuns
  /\ budget' = [budget EXCEPT !.runs = @ + 1]
  /\ wanted' = Wish
  /\ \E s2 \in {FirstSelected} : \E s \in {Selected(s2)} :
     \E m \in {Begun(s, print_tree(conf.tree, s.ex), TimeoutWanted)} :
       LET now == ~m.skip /\ m.ms = 0
           spent == [Spent(nv) EXCEPT !.last = IF now THEN RecordedPath(m.cur) ELSE @]
       IN /\ menu' = m /\ nv' = IF conf.uefi THEN spent ELSE nv
          /\ mpc' = IF now THEN "boot" ELSE "draw"
          /\ booted' = IF now THEN m.body[m.cur] ELSE booted
  /\ UNCHANGED <<conf, kept>>

(* mutant: the window follows the selection downwards only *)
Scroll_Down(sel, off) == IF sel >= off + Window THEN sel - (Window - 1) ELSE off
Scroll(sel, off) ==
  IF sel >= off + Window THEN sel - (Window - 1) ELSE IF sel < off THEN sel ELSE off

(* refresh: the tree is printed, which loads the selected entry; then the  *)
(* countdown, the editor a failed boot came from, or the keyboard.         *)
Draw ==
  /\ mpc = "draw"
  /\ \E rows \in {print_tree(conf.tree, menu.ex)} :
       LET cur == IF menu.sel < Len(rows) THEN rows[menu.sel + 1] ELSE menu.cur
           dir == Len(rows) = 0 \/ IsDir(conf.tree, cur)
       IN /\ menu' = [menu EXCEPT !.offset = Scroll(menu.sel, @), !.max = Len(rows), !.cur = cur,
                                  !.skip = @ \/ dir, !.quiet = @ /\ Len(rows) # 0]
          /\ mpc' = CASE ~menu.skip /\ ~dir -> "count"
                      [] (menu.skip \/ dir) /\ kept.editor /\ kept.blank -> "blank"
                      [] menu.skip /\ kept.editor /\ ~kept.blank /\ ~dir -> "editor"
                      [] OTHER -> "wait"
  /\ UNCHANGED <<conf, nv, kept, booted, wanted, budget>>

(* mutant: a whole number of seconds left sleeps no time at all *)
Slice_Zero(ms) == ms % Second
Slice(ms) == IF ms % Second = 0 THEN Second ELSE ms % Second

Tick ==
  /\ mpc = "count"
  /\ IF menu.ms # 0
     THEN menu' = [menu EXCEPT !.ms = @ - Slice(@)] /\ UNCHANGED <<mpc, nv, booted>>
     ELSE Autoboot(menu)
  /\ UNCHANGED <<conf, kept, wanted, budget>>

-----------------------------------------------------------------------------
(* A key ends the countdown and quiet mode, and is acted upon. *)
Press == /\ mpc \in {"count", "wait"} /\ budget.keys < MaxPresses
         /\ budget' = [budget EXCEPT !.keys = @ + 1] /\ UNCHANGED <<conf, wanted>>
Awake == IF mpc = "count" THEN [menu EXCEPT !.skip = TRUE, !.quiet = FALSE] ELSE menu

Select(i) == menu' = [Awake EXCEPT !.sel = i] /\ mpc' = "draw" /\ UNCHANGED <<nv, kept, booted>>

CursorUpTo == IF menu.sel = 0 THEN menu.max - 1 ELSE menu.sel - 1
CursorDownTo == IF menu.sel + 1 = menu.max THEN 0 ELSE menu.sel + 1

MoveKeys ==
  /\ Press /\ menu.max # 0
  /\ \/ Select(0) \/ Select(menu.max - 1) \/ Select(CursorUpTo) \/ Select(CursorDownTo)
     \/ mpc = "wait" /\ \E steps \in 1 .. 2 :
          Select(Max({menu.sel - steps, 0})) \/ Select(Min({menu.sel + steps, menu.max - 1}))

(* A row of the window under the pointer; a click boots it, unless it      *)
(* ended the countdown: that one is dropped.                               *)
row_to_entry_index == {i \in menu.offset .. menu.offset + Window - 1 : i < menu.max}
Loaded(m, i) == [m EXCEPT !.sel = i, !.cur = print_tree(conf.tree, m.ex)[i + 1]]

Hover == Press /\ mpc = "wait" /\ \E i \in row_to_entry_index \ {menu.sel} : Select(i)
MouseClick == /\ Press /\ mpc = "wait" /\ UNCHANGED kept
              /\ \E i \in row_to_entry_index : Autoboot(Loaded(menu, i))
OtherKey == /\ Press /\ menu' = Awake /\ mpc' = "wait" /\ UNCHANGED <<nv, kept, booted>>

Digit == /\ Press /\ UNCHANGED kept
         /\ \E i \in 0 .. menu.max - 1 : Autoboot(Loaded(Awake, i))
Enter == Press /\ menu.max # 0 /\ Autoboot(Awake) /\ UNCHANGED kept

EditKey ==
  /\ Press /\ conf.editor /\ menu.max # 0
  /\ mpc' = IF IsDir(conf.tree, menu.cur) THEN "wait" ELSE "editor"
  /\ menu' = Awake /\ UNCHANGED <<nv, kept, booted>>

BlankKey ==
  /\ Press /\ conf.editor /\ mpc' = "blank"
  /\ menu' = Awake /\ kept' = [kept EXCEPT !.blank = TRUE] /\ UNCHANGED <<nv, booted>>

(* Setup and shell leave the menu, or panic back into it. *)
FirmwareKey ==
  /\ Press /\ conf.uefi /\ mpc' \in {"gone", "start"}
  /\ menu' = [Awake EXCEPT !.first = FALSE] /\ UNCHANGED <<nv, kept, booted>>
ShellKey ==
  /\ Press /\ conf.uefi /\ mpc' \in {"gone", "start"}
  /\ menu' = [Awake EXCEPT !.first = FALSE] /\ UNCHANGED <<nv, kept, booted>>

-----------------------------------------------------------------------------
(* The editor opens on the text a failed boot saved, if it came from here. *)
EditorText == IF kept.editor THEN kept.text ELSE IF mpc = "blank" THEN 0 ELSE menu.body[menu.cur]

EditorBoot ==
  /\ mpc = "editor"
  /\ kept' = [kept EXCEPT !.editor = TRUE, !.text = EditorText]
  /\ Autoboot([menu EXCEPT !.body[menu.cur] = EditorText])
  /\ UNCHANGED <<conf, wanted, budget>>

BlankBoot ==
  /\ mpc = "blank" /\ mpc' = "boot"
  /\ kept' = [kept EXCEPT !.editor = TRUE, !.text = EditorText, !.blank = TRUE]
  /\ booted' = EditorText
  /\ UNCHANGED <<conf, wanted, budget, menu, nv>>

EditorLeave ==
  /\ mpc \in {"editor", "blank"} /\ mpc' = "draw"
  /\ kept' = [kept EXCEPT !.editor = FALSE, !.blank = IF mpc = "blank" THEN FALSE ELSE @]
  /\ UNCHANGED <<conf, nv, menu, booted, wanted, budget>>

(* boot() hands over or panics; the panic returns to a menu whose data are *)
(* those of the first one, but for what is kept.                           *)
BootOk == mpc = "boot" /\ mpc' = "gone" /\ UNCHANGED <<conf, nv, menu, kept, booted, wanted, budget>>
BootFails ==
  /\ mpc = "boot" /\ mpc' = "start" /\ menu' = [menu EXCEPT !.first = FALSE]
  /\ UNCHANGED <<conf, nv, kept, booted, wanted, budget>>

MInit ==
  /\ conf \in MenuConfigs /\ nv \in Variables
  /\ menu = [ex |-> {}, sel |-> 0, cur |-> 0, max |-> 0, offset |-> 0, ms |-> 0, skip |-> FALSE,
             quiet |-> FALSE, first |-> TRUE, body |-> [e \in DOMAIN conf.tree |-> e]]
  /\ mpc = "start" /\ kept = [editor |-> FALSE, blank |-> FALSE, text |-> 0]
  /\ booted = 0 /\ wanted = [by |-> 5, e |-> 0] /\ budget = [runs |-> 0, keys |-> 0]

MNext ==
  \/ Start \/ Draw \/ Tick \/ MoveKeys \/ Hover \/ MouseClick \/ OtherKey \/ Digit \/ Enter
  \/ EditKey \/ BlankKey \/ FirmwareKey \/ ShellKey \/ EditorBoot \/ BlankBoot \/ EditorLeave
  \/ BootOk \/ BootFails

MSpec == MInit /\ [][MNext]_mvars
MFairSpec == MSpec /\ WF_mvars(Start) /\ WF_mvars(Draw) /\ WF_mvars(Tick)

-----------------------------------------------------------------------------
(* Whenever the menu counts down or waits for a key, the selected entry is *)
(* the one printed at the selected index, and it is in the window: what    *)
(* Enter, the countdown and the editor act on is what the user sees.       *)
SelectionShown ==
  mpc \in {"count", "wait", "editor"} /\ menu.max # 0 =>
    /\ menu.sel < menu.max
    /\ menu.cur = print_tree(conf.tree, menu.ex)[menu.sel + 1]
    /\ menu.sel \in menu.offset .. menu.offset + Window - 1

(* The path recorded for a booted entry leads back to it and to no other,  *)
(* whatever characters its name has, whichever siblings share the name,    *)
(* and at the index at which the menu will print it.                       *)
RecordedFinds ==
  mpc = "boot" /\ conf.uefi /\ ~kept.blank =>
    LET r == find_entry_by_path(conf.tree, Opened(conf.tree), nv.last, 0, 0)
    IN r.entry = menu.cur /\ print_tree(conf.tree, r.ex)[r.index + 1] = menu.cur

Stale == \E p \in {nv.oneshot, nv.default} \cup (IF conf.remember THEN {nv.last} ELSE {}) :
           p # <<>> /\ Named(p) = {}

(* A variable that names an entry decides the selection, in the order      *)
(* one-shot, remembered, boot loader interface; a default_entry decides it *)
(* when the variables are empty.                                           *)
VariableDecides ==
  [][mpc = "start" /\ mpc' # "start" /\ wanted'.e # 0 /\ (wanted'.by < 4 \/ ~(conf.uefi /\ Stale))
     => menu'.cur = wanted'.e]_mvars

(* A countdown comes to an end: an unattended machine boots.               *)
CountdownEnds == mpc = "count" ~> mpc # "count"

(* What the menu acts on is what it shows, and what it records leads back  *)
(* to the entry that was booted, whatever was opened, closed or scrolled   *)
(* in between (_menu, menu.c).                                             *)
SelectionTrue == SelectionShown /\ RecordedFinds
=============================================================================

----------------------------- MODULE PartTable -----------------------------
(***************************************************************************)
(* How Limine finds partitions (common/lib/part.s2.c): the cached volume   *)
(* reads, the GPT header search with its memos, the walk along the chain   *)
(* of extended boot records with its memo; and the same GPT search in the  *)
(* installer (host/limine.c), which has to agree with the loader's.        *)
(*                                                                         *)
(* Distances are in 512-byte sectors.  A block that is looked at as a GPT  *)
(* header is a record: sig and crc say whether the signature and the CRC   *)
(* are good, my/alt/first/last/arr are the LBA fields, size the length of  *)
(* the entry array, lb the logical block the table was made for and arrok  *)
(* whether the CRC of the array is good.                                   *)
(***************************************************************************)
EXTENDS Integers, Sequences, SequencesExt, FiniteSets, FiniteSetsExt

CONSTANTS Guesses,        \* the logical block sizes tried: <<1, 4, 8>>
          MaxArray,       \* GPT_MAX_ARRAY_SIZE
          Media,          \* media [n, prot, bad, hdr]
          Tables,         \* media with partitions on them
          Extended,       \* extended partitions [first, count, dev, ebr]
          MaxLogical,     \* MAX_LOGICAL_PARTITIONS
          Vols            \* volumes [first, count, ratio, xfer]

VARIABLES kind,           \* "gpt", "part", "ebr" or "read": what is being asked
          med, memo, none, answer,
          ext, walk, part,
          vol, cache, got

ptvars == <<kind, med, memo, none, answer, ext, walk, part, vol, cache, got>>

NoHdr == [sig |-> FALSE, crc |-> FALSE, my |-> 0, alt |-> 0, first |-> 0,
          last |-> 0, arr |-> 0, size |-> 0, lb |-> 0, arrok |-> FALSE]
NotFound == [found |-> FALSE, lba |-> 0, lb |-> 0, hdr |-> NoHdr]
Unknown == -1

Hdr(m, s) == IF s \in DOMAIN m.hdr THEN m.hdr[s] ELSE NoHdr
readable(m, s) == s < m.n /\ s \notin m.bad

(***************************************************************************)
(* gpt_verify_header, of the loader and of the installer: the four checks, *)
(* the geometry, and the budget an array's CRC is paid from.               *)
(***************************************************************************)
GptGeometry(h, lba, lb, blocks) ==
  LET arr_end == h.arr + (h.size + lb - 1) \div lb
  IN /\ h.first <= h.last
     /\ IF h.arr < h.first THEN arr_end <= h.first
        ELSE h.arr > h.last /\ arr_end <= lba
     /\ blocks # Unknown => h.last < blocks /\ arr_end <= blocks

gpt_verify_header(h, lba, lb, blocks, budget) ==
  LET pays == /\ h.sig /\ h.crc /\ h.my = lba
              /\ h.size > 0 /\ h.size <= MaxArray /\ h.size <= budget
              /\ GptGeometry(h, lba, lb, blocks)
  IN [ok |-> pays /\ h.arrok /\ h.lb = lb, budget |-> IF pays THEN budget - h.size ELSE budget]

(* The places to look for an alternate: the last block, then the one the   *)
(* primary names if it is a header at all.                                 *)
Candidates(h, last) ==
  LET named == IF h.sig /\ h.alt > 1 /\ h.alt # last THEN <<h.alt>> ELSE <<>>
  IN IF last >= 1 THEN <<last>> \o named
     ELSE IF h.sig /\ h.alt > 1 THEN <<h.alt>> ELSE <<>>

(* One guess at the block size; x carries the budget and the answer. *)
TryBlock(m, x, lba, lb, blocks) ==
  LET h == Hdr(m, lba * lb)
      v == gpt_verify_header(h, lba, lb, blocks, x.budget)
  IN IF x.ans.found \/ ~readable(m, lba * lb) THEN x
     ELSE [budget |-> v.budget,
           ans |-> IF v.ok THEN [found |-> TRUE, lba |-> lba, lb |-> lb, hdr |-> h]
                   ELSE NotFound]

(* mutant: what a corrupt primary names comes first *)
TryGuess_Named(m, x, lb, last, blocks) ==
  LET p == TryBlock(m, x, 1, lb, blocks)
      h == IF readable(m, lb) THEN Hdr(m, lb) ELSE NoHdr
  IN IF p.ans.found \/ ~m.prot THEN p
     ELSE FoldLeft(LAMBDA a, c : TryBlock(m, a, c, lb, blocks), p, Reverse(Candidates(h, last)))

TryGuess(m, x, lb, last, blocks) ==
  LET p == TryBlock(m, x, 1, lb, blocks)
      h == IF readable(m, lb) THEN Hdr(m, lb) ELSE NoHdr
  IN IF p.ans.found \/ ~m.prot THEN p
     ELSE FoldLeft(LAMBDA a, c : TryBlock(m, a, c, lb, blocks), p, Candidates(h, last))

Search(m, last, blocks) ==
  FoldLeft(LAMBDA x, lb : TryGuess(m, x, lb, last[lb], blocks[lb]),
           [budget |-> 2 * MaxArray, ans |-> NotFound], Guesses).ans

(* The loader divides the size of the medium, which it may not know. *)
sect_blocks(m, lb) == IF m.known THEN m.n \div lb ELSE Unknown
FreshLocate(m) ==
  Search(m, [lb \in Range(Guesses) |-> IF m.known THEN sect_blocks(m, lb) - 1 ELSE 0],
            [lb \in Range(Guesses) |-> sect_blocks(m, lb)])

(* The installer probes for the last block: doubling, then bisection. *)
device_block_present(m, b, lb) == readable(m, (b + 1) * lb - 1)

RECURSIVE Bisect(_, _, _, _)
Bisect(m, lb, lo, hi) ==
  LET mid == lo + (hi - lo) \div 2
  IN IF lo + 1 >= hi THEN lo
     ELSE IF device_block_present(m, mid, lb) THEN Bisect(m, lb, mid, hi)
     ELSE Bisect(m, lb, lo, mid)

device_last_block(m, lb) ==
  LET hi == Min({h \in {2 ^ k : k \in 0 .. 10} : ~device_block_present(m, h, lb)})
  IN IF device_block_present(m, 0, lb) THEN Bisect(m, lb, hi \div 2, hi) ELSE Unknown

HostLocate(m) ==
  LET last == [lb \in Range(Guesses) |-> device_last_block(m, lb)]
  IN Search(m, last, [lb \in Range(Guesses) |-> IF last[lb] = Unknown THEN Unknown ELSE last[lb] + 1])

(***************************************************************************)
(* gpt_locate_header with its two memos.  Volumes are 1 and 2.             *)
(***************************************************************************)
NoMemo == [vol |-> 0, ans |-> NotFound]
NoNone == [vol |-> 0, readable |-> FALSE, hdr |-> NoHdr]

gpt_memo_hit(v) ==
  LET s == memo.ans.lba * memo.ans.lb
  IN memo.vol = v /\ readable(med[v], s) /\ Hdr(med[v], s) = memo.ans.hdr

gpt_memo_none_hit(v) ==
  /\ none.vol = v
  /\ IF readable(med[v], 1) THEN none.readable /\ Hdr(med[v], 1) = none.hdr ELSE ~none.readable

gpt_locate_header(v) ==
  /\ kind = "gpt"
  /\ LET fresh == FreshLocate(med[v])
     IN IF gpt_memo_hit(v)
          THEN answer' = [vol |-> v, ans |-> memo.ans] /\ UNCHANGED <<memo, none>>
        ELSE IF gpt_memo_none_hit(v)
          THEN answer' = [vol |-> v, ans |-> NotFound] /\ UNCHANGED <<memo, none>>
        ELSE /\ answer' = [vol |-> v, ans |-> fresh]
             /\ IF fresh.found THEN memo' = [vol |-> v, ans |-> fresh] /\ UNCHANGED none
                ELSE /\ none' = [vol |-> v, readable |-> readable(med[v], 1),
                                 hdr |-> IF readable(med[v], 1) THEN Hdr(med[v], 1) ELSE NoHdr]
                     /\ UNCHANGED memo
  /\ UNCHANGED <<kind, med, ext, walk, part, vol, cache, got>>

(***************************************************************************)
(* mbr_get_logical_part.  An EBR is [sig, slots]; a slot [link, first,     *)
(* count].  walk is the memo: an EBR and how many logicals precede it.     *)
(***************************************************************************)
range_valid(limit, first, count) == count > 0 /\ first + count <= limit

Contained(x, at, s) ==
  /\ range_valid(x.count, at + s.first, s.count)
  /\ range_valid(x.dev, x.first + at + s.first, s.count)

(* One slot: counts it, or finds the partition asked for.  r = "go" while  *)
(* nothing is decided.                                                     *)
Slot(x, w, s, i, p) ==
  LET inside == Contained(x, w.at, s)
  IN IF w.r # "go" \/ s.count = 0 THEN w
     ELSE IF s.link THEN (IF w.link.count = 0 THEN [w EXCEPT !.link = s] ELSE w)
     ELSE IF i > 2 /\ (~inside \/ s.first + s.count > w.size) THEN w
     ELSE IF w.seen = p
       THEN [w EXCEPT !.r = IF inside THEN "found" ELSE "nopart",
                      !.sect = IF inside THEN x.first + w.at + s.first ELSE 0,
                      !.len = IF inside THEN s.count ELSE 0]
     ELSE [w EXCEPT !.seen = @ + 1]

NoSlot == [link |-> TRUE, first |-> 0, count |-> 0]

(* mutant: the memo counts the logicals of the EBR it points at, too *)
Memo_After(w, n) == [index |-> n.seen, sector |-> w.at, size |-> w.size]
Memo(w, n) == [index |-> w.seen, sector |-> w.at, size |-> w.size]

RECURSIVE FollowChain(_, _, _, _)
FollowChain(x, w, links, p) ==
  LET e == x.ebr[w.at]
      n == FoldLeft(LAMBDA a, i : Slot(x, a, e.slots[i], i, p), w,
                    [i \in 1 .. Len(e.slots) |-> i])
      m == [n EXCEPT !.memo = Memo(w, n)]
  IN IF links = MaxLogical THEN [w EXCEPT !.r = "end"]
     ELSE IF w.at \notin DOMAIN x.ebr \/ ~e.sig
       THEN [w EXCEPT !.r = "end", !.memo = [index |-> w.seen, sector |-> w.at, size |-> w.size]]
     ELSE IF n.r # "go" THEN m
     ELSE IF n.link.count = 0 \/ n.link.first <= w.at \/ n.link.first >= x.count
       THEN [m EXCEPT !.r = "end"]
     ELSE FollowChain(x, [m EXCEPT !.at = n.link.first, !.size = n.link.count, !.link = NoSlot],
                      links + 1, p)

WalkStart(x) == [index |-> 0, sector |-> 0, size |-> x.count]
Walk(x, w, p) ==
  LET from == IF w.index <= p THEN w ELSE WalkStart(x)
  IN FollowChain(x, [r |-> "go", seen |-> from.index, at |-> from.sector, size |-> from.size,
                     link |-> NoSlot, sect |-> 0, len |-> 0, memo |-> w], 0, p)

mbr_get_logical_part(p) ==
  /\ kind = "ebr"
  /\ LET w == Walk(ext, walk, p)
     IN walk' = w.memo /\ part' = [p |-> p, r |-> w.r, sect |-> w.sect, len |-> w.len]
  /\ UNCHANGED <<kind, med, memo, none, answer, ext, vol, cache, got>>

(***************************************************************************)
(* part_get: partition p of a medium by its GPT or else by its MBR.  The   *)
(* fields entries (of the GPT, in logical blocks) and mbr [sig, status,    *)
(* fs, slots] are what those tables hold.                                  *)
(***************************************************************************)
Gone(r) == [r |-> r, first |-> 0, count |-> 0]
OnMedium(m, first, count) == count > 0 /\ (m.known => first + count <= m.n)

gpt_get_part(m, p) ==
  LET a == FreshLocate(m)
      e == m.entries[p + 1]
      first == e.first * a.lb
      count == (e.last - e.first + 1) * a.lb
  IN IF ~a.found THEN Gone("invalid")
     ELSE IF p >= Len(m.entries) THEN Gone("end")
     ELSE IF ~e.used \/ e.last < e.first \/ ~OnMedium(m, first, count) THEN Gone("nopart")
     ELSE [r |-> "found", first |-> first, count |-> count]

(* A boot sector of a file system is not an MBR though it ends in 55 AA. *)
is_valid_mbr(m) == m.mbr.sig /\ (\A i \in 1 .. 4 : m.mbr.slots[i].status) /\ ~m.mbr.fs

mbr_get_part(m, p) ==
  LET s == m.mbr.slots[p + 1]
      x == {i \in 1 .. 4 : /\ m.mbr.slots[i].type = "ext"
                           /\ OnMedium(m, m.mbr.slots[i].first, m.mbr.slots[i].count)}
      e == m.mbr.slots[Min(x)]
      w == Walk([first |-> e.first, count |-> e.count, dev |-> m.n, ebr |-> m.ebr],
                [index |-> 0, sector |-> 0, size |-> e.count], p - 4)
  IN IF ~is_valid_mbr(m) THEN Gone("invalid")
     ELSE IF p > 3 THEN (IF x = {} \/ p - 4 >= MaxLogical THEN Gone("end")
                         ELSE [r |-> w.r, first |-> w.sect, count |-> w.len])
     ELSE IF s.type = "none" \/ ~OnMedium(m, s.first, s.count) THEN Gone("nopart")
     ELSE [r |-> "found", first |-> s.first, count |-> s.count]

part_get(m, p) ==
  IF gpt_get_part(m, p).r # "invalid" THEN gpt_get_part(m, p) ELSE mbr_get_part(m, p)

PartGet(p) ==
  /\ kind = "part"
  /\ LET x == part_get(med[1], p)
     IN part' = [p |-> p, r |-> x.r, sect |-> x.first, len |-> x.count]
  /\ UNCHANGED <<kind, med, memo, none, answer, ext, walk, vol, cache, got>>

(***************************************************************************)
(* volume_read through the one-block cache.  Sector s of the disk holds s; *)
(* a failed transfer leaves garbage in the cache.                          *)
(***************************************************************************)
Garbage == -1
block_len == vol.xfer * vol.ratio

(* Rounded up: a read may want the trailing sector the volume only partly  *)
(* owns.                                                                   *)
volume_sectors == (vol.count + vol.ratio - 1) \div vol.ratio

(* What disk_read_sectors puts into the cache c for block b: the rest of   *)
(* the cache keeps what it had.                                            *)
Filled(c, b) ==
  LET at == vol.first \div vol.ratio + b * vol.xfer
      left == vol.first \div vol.ratio + volume_sectors - at
  IN [i \in 0 .. block_len - 1 |->
        IF i < Min({left, vol.xfer}) * vol.ratio THEN at * vol.ratio + i ELSE c.data[i]]

cache_block(c, b, ok) ==
  IF c.ready /\ b = c.block THEN c
  ELSE IF vol.first % vol.ratio # 0 \/ b * vol.xfer >= volume_sectors
    THEN [c EXCEPT !.ready = FALSE]
  ELSE [ready |-> ok, block |-> IF ok THEN b ELSE c.block,
        data |-> IF ok THEN Filled(c, b) ELSE [i \in 0 .. block_len - 1 |-> Garbage]]

(* The loop over the blocks a read touches; bad is the one whose transfer  *)
(* fails, if any.                                                          *)
volume_read(loc, count, bad) ==
  /\ kind = "read"
  /\ LET step(x, p) ==
           LET c == cache_block(x.c, p \div block_len, p \div block_len # bad)
           IN IF ~x.ok THEN x
              ELSE [c |-> c, ok |-> c.ready,
                    buf |-> Append(x.buf, <<p, c.data[p % block_len]>>)]
         x == FoldLeft(step, [c |-> cache, ok |-> TRUE, buf |-> <<>>],
                       [i \in 1 .. count |-> loc + i - 1])
     IN IF loc + count > vol.count
        THEN got' = <<>> /\ UNCHANGED cache
        ELSE cache' = x.c /\ got' = IF x.ok THEN x.buf ELSE <<>>
  /\ UNCHANGED <<kind, med, memo, none, answer, ext, walk, part, vol>>

NoExt == [first |-> 0, count |-> 0, dev |-> 0, ebr |-> <<>>]
NoVol == [first |-> 0, count |-> 0, ratio |-> 1, xfer |-> 1]

PtInit ==
  /\ memo = NoMemo /\ none = NoNone /\ answer = NoMemo
  /\ part = [p |-> 0, r |-> "none", sect |-> 0, len |-> 0] /\ got = <<>>
  /\ \/ /\ kind = "part" /\ med \in [{1} -> Tables]
        /\ ext = NoExt /\ walk = WalkStart(NoExt) /\ vol = NoVol /\ cache = [ready |-> FALSE]
     \/ /\ kind = "gpt" /\ med \in [1 .. 2 -> Media]
        /\ ext = NoExt /\ walk = WalkStart(NoExt) /\ vol = NoVol /\ cache = [ready |-> FALSE]
     \/ /\ kind = "ebr" /\ ext \in Extended /\ walk = WalkStart(ext)
        /\ med = <<>> /\ vol = NoVol /\ cache = [ready |-> FALSE]
     \/ /\ kind = "read" /\ vol \in Vols
        /\ cache = [ready |-> FALSE, block |-> 0, data |-> [i \in 0 .. block_len - 1 |-> Garbage]]
        /\ med = <<>> /\ ext = NoExt /\ walk = WalkStart(NoExt)

PtNext ==
  \/ \E v \in 1 .. 2 : gpt_locate_header(v)
  \/ \E p \in 0 .. MaxLogical + 4 : PartGet(p)
  \/ \E p \in 0 .. MaxLogical - 1 : mbr_get_logical_part(p)
  \/ kind = "read" /\ \E loc \in 0 .. vol.count, n \in 1 .. 3, bad \in -1 .. 2 : volume_read(loc, n, bad)

PtSpec == PtInit /\ [][PtNext]_ptvars

-----------------------------------------------------------------------------
(* The loader and the installer find the same table on the same medium     *)
(* whose size the loader knows and every sector of which can be read,      *)
(* whatever its headers hold: otherwise stage 2 is installed by one table  *)
(* and looked for by another.                                              *)
LocateAgrees ==
  kind = "gpt" => \A v \in 1 .. 2 :
    med[v].known /\ med[v].bad = {} => HostLocate(med[v]) = FreshLocate(med[v])

(* A good alternate in the last block is never passed over for one that a  *)
(* header with a bad CRC names.                                            *)
LastBlockWins ==
  kind = "gpt" => \A v \in 1 .. 2 :
    LET m == med[v]
        a == FreshLocate(m)
    IN a.found /\ a.lba # 1 /\ m.known /\ a.lba # sect_blocks(m, a.lb) - 1 =>
         LET s == sect_blocks(m, a.lb) - 1
         IN ~(/\ readable(m, s * a.lb)
              /\ gpt_verify_header(Hdr(m, s * a.lb), s, a.lb, sect_blocks(m, a.lb), MaxArray).ok)

(* What the memos answer is what a search would have answered, in whatever *)
(* order the volumes are asked.                                            *)
MemoFresh ==
  kind = "gpt" /\ answer.vol # 0 => answer.ans = FreshLocate(med[answer.vol])

(* The answer for a logical partition does not depend on which ones were   *)
(* asked for before, although the walk resumes where the last one stopped. *)
WalkFresh ==
  kind = "ebr" /\ part.r # "none" =>
    LET w == Walk(ext, WalkStart(ext), part.p) IN part.r = w.r /\ part.sect = w.sect

(* A partition that is found lies on its medium, and a logical one inside  *)
(* an extended partition of the MBR, whatever its EBR says.  (That it      *)
(* keeps off the table itself is not looked at.)                           *)
PartContained ==
  kind = "part" /\ part.r = "found" =>
    LET m == med[1]
        within(first, count) == part.sect .. part.sect + part.len - 1 \subseteq first .. first + count - 1
    IN /\ within(0, m.n)
       /\ part.p > 3 /\ ~FreshLocate(m).found =>
            \E i \in 1 .. 4 : /\ m.mbr.slots[i].type = "ext"
                              /\ within(m.mbr.slots[i].first, m.mbr.slots[i].count)

(* Every sector a volume read returns is the one that was asked for, after *)
(* failed reads and at the end of a volume too.                            *)
ReadExact ==
  \A i \in DOMAIN got : got[i][2] = vol.first + got[i][1]

(* The loader and the installer go by the same, undamaged table, and what  *)
(* the loader takes from it lies inside its container (part.s2.c,          *)
(* host/limine.c).                                                         *)
TableFound == LocateAgrees /\ LastBlockWins /\ PartContained

(* What is remembered between calls - the place of a GPT, the last logical *)
(* partition, the last block read - never changes an answer, in whatever   *)
(* order volumes and sectors are asked for, as long as a sector of a GPT   *)
(* that can be read at one time can be read at any (part.s2.c).            *)
CachesFresh == MemoFresh /\ WalkFresh /\ ReadExact
=============================================================================

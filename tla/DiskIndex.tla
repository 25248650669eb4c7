----------------------------- MODULE DiskIndex -----------------------------
(***************************************************************************)
(* The index of disks and partitions (common/drivers/disk.s2.c): how BIOS  *)
(* drives and UEFI handles become numbered volumes, the hash of the first  *)
(* 64 KiB as a fallback name for a volume, and the way back from a handle  *)
(* to the volume it stands for.                                            *)
(*                                                                         *)
(* A device of a Machine is a record:                                      *)
(*   id       which disk it really is                                      *)
(*   path     nodes of its device path before the partition node (<<>>     *)
(*            when it has no device path)                                  *)
(*   start    the partition node's start, -1 when there is none            *)
(*   opt, rem, ro2048   CD-ROM node or ATAPI, removable, 2048-byte media   *)
(*   readok   whether reading it works                                     *)
(*   known    BIOS: whether the drive answers and has a sector size        *)
(*   text     what its first 64 KiB hash to (0 when it is smaller)         *)
(*   size     its size                                                     *)
(*   parts    the answers of part_get, in order, for a whole disk          *)
(***************************************************************************)
EXTENDS Integers, Sequences, SequencesExt, FiniteSets, FiniteSetsExt

CONSTANTS Machines,       \* [fw, bda, devs]
          SkipGuid        \* ids of devices behind a vendor path to be skipped

VARIABLES machine, at, volume_index, optical_indices, hdd_indices, consumed_bda_disks,
          hashed, partHandle

divars == <<machine, at, volume_index, optical_indices, hdd_indices, consumed_bda_disks,
            hashed, partHandle>>

uefi == machine.fw = "uefi"
dev == machine.devs[at]

is_efi_handle_to_skip(d) == d.id \in SkipGuid

(* BIOS: DPTE bits, or the VMware drive number, which has no DPTE. *)
is_optical ==
  IF uefi THEN dev.opt \/ dev.ro2048
  ELSE dev.opt \/ (dev.ro2048 /\ dev.rem) \/ (dev.vmware /\ dev.ro2048)

fixed_disk == ~uefi /\ ~dev.rem /\ ~is_optical

(* The tests a drive has to pass before it becomes a volume. *)
accepted ==
  IF uefi THEN ~is_efi_handle_to_skip(dev) /\ dev.start = -1 /\ dev.readok
  ELSE dev.known /\ (fixed_disk => consumed_bda_disks # machine.bda)

Volume(n, p, first, size, text) ==
  [id |-> dev.id, path |-> dev.path, optical |-> is_optical, index |-> n, partition |-> p,
   first |-> first, size |-> size, readok |-> dev.readok,
   text |-> text, hash |-> 0, valid |-> FALSE]

(* The partitions found, each with its number: holes are skipped, the      *)
(* first "end" or "invalid" stops the loop.                                *)
Partitions(n) ==
  LET stop == {i \in 1 .. Len(dev.parts) : dev.parts[i].r \in {"end", "invalid"}}
      upto == IF stop = {} THEN Len(dev.parts) ELSE Min(stop) - 1
      vol(i) == Volume(n, i, dev.parts[i].first, dev.parts[i].size, dev.parts[i].text)
      found == SelectSeq([i \in 1 .. upto |-> i], LAMBDA i : dev.parts[i].r = "found")
  IN [k \in 1 .. Len(found) |-> vol(found[k])]

Numbered(opt) ==
  /\ optical_indices' = IF opt THEN optical_indices + 1 ELSE optical_indices
  /\ hdd_indices' = IF opt THEN hdd_indices ELSE hdd_indices + 1

(* One round of the loop of disk_create_index. *)
IndexDrive ==
  /\ at <= Len(machine.devs)
  /\ at' = at + 1
  /\ IF accepted
     THEN LET n == IF is_optical THEN optical_indices ELSE hdd_indices
          IN /\ Numbered(is_optical)
             /\ consumed_bda_disks' = consumed_bda_disks + (IF fixed_disk THEN 1 ELSE 0)
             /\ volume_index' = volume_index \o <<Volume(n, 0, 0, dev.size, dev.text)>> \o Partitions(n)
     ELSE UNCHANGED <<optical_indices, hdd_indices, consumed_bda_disks, volume_index>>
  /\ UNCHANGED <<machine, hashed, partHandle>>

(***************************************************************************)
(* find_unique_sectors: a hash that two volumes share names neither.       *)
(***************************************************************************)
(* mutant: only volumes whose hash still counts are compared *)
volume_by_sector_hash_Valid(vols, h) == {i \in 1 .. Len(vols) : vols[i].valid /\ vols[i].hash = h}

volume_by_sector_hash(vols, h) == {i \in 1 .. Len(vols) : vols[i].hash = h}

HashOne(vols, i) ==
  LET h == vols[i].text
      c == volume_by_sector_hash(vols, h)
  IN IF h = 0 \/ ~vols[i].readok THEN vols
     ELSE IF c = {} THEN [vols EXCEPT ![i].hash = h, ![i].valid = TRUE]
     ELSE [vols EXCEPT ![i].hash = h, ![Min(c)].valid = FALSE]

find_unique_sectors(vols) ==
  FoldLeft(HashOne, vols, [i \in 1 .. Len(vols) |-> i])

(***************************************************************************)
(* disk_volume_from_efi_handle: by device path, or else by the hash.       *)
(***************************************************************************)
(* The comparison stops at the end of the shorter path, so a prefix agrees.*)
device_paths_match_disk(p, q) == p # <<>> /\ q # <<>> /\ (IsPrefix(p, q) \/ IsPrefix(q, p))

(* The whole disk starts at 0: it comes before a partition that does too.  *)
volume_by_device_path(d) ==
  LET hits == {i \in 1 .. Len(volume_index) :
                 /\ device_paths_match_disk(d.path, volume_index[i].path)
                 /\ IF d.start = -1 THEN volume_index[i].partition = 0
                    ELSE volume_index[i].first = d.start}
  IN IF hits = {} THEN 0 ELSE Min(hits)

volume_by_unique_sector(vols, h) ==
  LET hits == {i \in 1 .. Len(vols) : vols[i].valid /\ vols[i].hash = h}
  IN IF hits = {} THEN 0 ELSE Min(hits)

SameShape(v, d) == v.size = d.size /\ (d.start # -1) = (v.partition # 0)

disk_volume_from_efi_handle(d) ==
  LET direct == volume_by_device_path(d)
      vols == IF hashed THEN volume_index ELSE find_unique_sectors(volume_index)
      i == volume_by_unique_sector(vols, d.text)
  IN IF is_efi_handle_to_skip(d) THEN [vol |-> 0, vols |-> volume_index]
     ELSE IF direct # 0 THEN [vol |-> direct, vols |-> volume_index]
     ELSE IF d.text = 0 THEN [vol |-> 0, vols |-> volume_index]
     ELSE [vol |-> IF d.readok /\ i # 0 /\ SameShape(vols[i], d) THEN i ELSE 0, vols |-> vols]

(* One round of find_part_handles; a later handle replaces an earlier one. *)
FindPartHandle ==
  LET k == at - Len(machine.devs)
      d == machine.devs[k]
      x == disk_volume_from_efi_handle(d)
  IN /\ uefi
     /\ k \in 1 .. Len(machine.devs)
     /\ at' = at + 1
     /\ volume_index' = x.vols
     /\ hashed' = (hashed \/ x.vols # volume_index \/ (d.text # 0 /\ volume_by_device_path(d) = 0
                                                       /\ ~is_efi_handle_to_skip(d)))
     /\ partHandle' = IF x.vol = 0 THEN partHandle
                      ELSE [v \in DOMAIN partHandle \cup {x.vol} |->
                              IF v = x.vol THEN k ELSE partHandle[v]]
     /\ UNCHANGED <<machine, optical_indices, hdd_indices, consumed_bda_disks>>

DiInit ==
  /\ machine \in Machines /\ at = 1
  /\ volume_index = <<>> /\ optical_indices = 1 /\ hdd_indices = 1 /\ consumed_bda_disks = 0
  /\ hashed = FALSE /\ partHandle = [v \in {} |-> 0]

DiNext == IndexDrive \/ FindPartHandle
DiSpec == DiInit /\ [][DiNext]_divars

-----------------------------------------------------------------------------
(* hdd(n:p) and odd(n:p) name one volume each: no two volumes share the    *)
(* coordinates volume_get_by_coord looks for.                              *)
CoordsUnique ==
  \A i, j \in 1 .. Len(volume_index) :
    /\ volume_index[i].optical = volume_index[j].optical
    /\ volume_index[i].index = volume_index[j].index
    /\ volume_index[i].partition = volume_index[j].partition
    => i = j

(* A hash is used to tell volumes apart only while it is the hash of one   *)
(* volume, however many copies of a disk there are.                        *)
HashNamesOne ==
  \A i, j \in 1 .. Len(volume_index) :
    volume_index[i].valid /\ volume_index[j].hash = volume_index[i].hash => i = j

(* Another device whose path is a beginning or a continuation of this      *)
(* one's, which device_paths_match_disk takes for it.                      *)
Nested(d) ==
  \E i \in 1 .. Len(machine.devs) : /\ machine.devs[i].id # d.id
                                   /\ device_paths_match_disk(d.path, machine.devs[i].path)

(* The handle recorded for a volume is a handle of that volume: of the     *)
(* same disk, and of the same partition of it, except that a partition     *)
(* starting at 0 may stand for its disk.  A partition that only the        *)
(* firmware sees, such as an El Torito image, is nobody's as long as no    *)
(* partition of its size has its contents.  A device nested in another is  *)
(* excepted.                                                               *)
HandleOfVolume ==
  \A v \in DOMAIN partHandle :
    LET d == machine.devs[partHandle[v]]
        whole == volume_index[v].partition = 0
    IN ~Nested(d) =>
         /\ d.id = volume_index[v].id
         /\ d.start = -1 => whole
         /\ d.start # -1 => volume_index[v].first = d.start /\ (whole => d.start = 0)

(* A name, a unique sector or a handle of the firmware leads to one volume *)
(* and to the right one, with skipped drives, optical drives, clones and   *)
(* partitions at the start of a disk (disk.s2.c).                          *)
VolumesTold == CoordsUnique /\ HashNamesOne /\ HandleOfVolume
=============================================================================

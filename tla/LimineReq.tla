------------------------------ MODULE LimineReq ------------------------------
(***************************************************************************)
(* What a Limine protocol executable asks for and is told:                 *)
(* limine_load of common/protos/limine.c from the scan of the loaded image *)
(* for the base revision and the requests, over the choice of the paging   *)
(* mode, to the responses, with the TPM event log of lib/tpm.c and the     *)
(* device tree of lib/misc.c.                                              *)
(*                                                                         *)
(* The image is a sequence of words, up to image_size_before_bss.  The     *)
(* magic numbers are distinct codes; a pointer in the image counts half    *)
(* words, so that it may be misaligned, from physical_base or, with        *)
(* HighBit, from virtual_base.                                             *)
(***************************************************************************)
EXTENDS Integers, Sequences, FiniteSets, SequencesExt, FiniteSetsExt, TLC

CONSTANTS
  Boots,          \* pairs of an executable (items, cut, elf, section) and a
                  \* machine with its configuration (see the fields below)
  MAX_REQUESTS

VARIABLES
  kern, host,     \* the executable and the machine
  rpc,            \* where limine_load is, "panic" when it gave up
  kernel_image,   \* the words of the image
  base_revision,
  requests,       \* word offsets of the requests
  paging_mode, hhdm_offset,
  stack_size,
  resp,           \* the responses: id -> what is told (and mair, for the entry)
  loaded,         \* modules loaded so far
  next_module,    \* the loop variable of the module loop
  measured,       \* what has been extended into the TPM, as numbers: the command
                  \* line 1, the executable 2, the device tree 3 or 4, then files
  event_log       \* the snapshot tpm_get_event_log returned, <<>> before

rqvars == <<kern, host, rpc, kernel_image, base_revision, requests, paging_mode,
            hhdm_offset, stack_size, resp, loaded, next_module, measured, event_log>>

SUPPORTED_BASE_REVISION == 6
HighBit == 1000
StartMarker == <<101, 102, 103, 104>>
EndMarker == <<111, 112>>
RevMagic == <<121, 122>>
CommonMagic == <<131, 132>>
IdOf == [pm |-> 201, stack |-> 202, rsdp |-> 203, smbios |-> 204, est |-> 205,
         mod |-> 206, dtb |-> 207, fb |-> 208, fip |-> 209, tsc |-> 210,
         perf |-> 211, tpm |-> 212, mp |-> 213, date |-> 214]
Ids == DOMAIN IdOf

(* The words an item of the executable is laid out as. *)
Words(it) ==
  CASE it.k = "start" -> StartMarker
    [] it.k = "end" -> EndMarker
    [] it.k = "rev" -> Append(RevMagic, it.n)
    [] it.k = "req" -> CommonMagic \o <<IdOf[it.id], IdOf[it.id], it.rev, 0>> \o it.f
    [] it.k = "data" -> it.f

Laid(k) == FlattenSeq([i \in DOMAIN k.items |-> Words(k.items[i])])
ImageOf(k) == SubSeq(Laid(k), 1, Len(Laid(k)) - k.cut)

At(img, i, pattern) ==
  /\ i + Len(pattern) - 1 <= Len(img)
  /\ SubSeq(img, i, i + Len(pattern) - 1) = pattern

Offsets(img) == [i \in 1 .. Len(img) - 1 |-> i]   \* where the smallest test fits

(***************************************************************************)
(* The base revision.                                                      *)
(***************************************************************************)
NoTag == [rev |-> 0, at |-> 0, old |-> FALSE, stop |-> FALSE, panic |-> FALSE]

RevStep(img, s, i) ==
  IF s.stop THEN s
  ELSE IF At(img, i, StartMarker) THEN NoTag
  ELSE IF At(img, i, EndMarker) THEN [s EXCEPT !.stop = TRUE]
  ELSE IF i + 2 > Len(img) \/ ~At(img, i, RevMagic) THEN s
  ELSE IF s.at # 0 THEN [s EXCEPT !.stop = TRUE, !.panic = TRUE]
  ELSE [s EXCEPT !.rev = IF img[i + 2] > SUPPORTED_BASE_REVISION
                         THEN SUPPORTED_BASE_REVISION ELSE img[i + 2],
                 !.at = i, !.old = img[i + 2] <= SUPPORTED_BASE_REVISION]

(* The tag gets the revision that will be used and, when the executable's  *)
(* own is supported, a zero.                                               *)
Told(img, s) ==
  IF s.at = 0 THEN img
  ELSE [img EXCEPT ![s.at + 1] = s.rev, ![s.at + 2] = IF s.old THEN 0 ELSE @]

ReqPanic == rpc' = "panic"

FindRevision ==
  /\ rpc = "revision"
  /\ \E s \in {FoldLeft(LAMBDA a, i : RevStep(kernel_image, a, i), NoTag, Offsets(kernel_image))} :
       IF s.panic THEN ReqPanic /\ UNCHANGED <<kernel_image, base_revision>>
       ELSE /\ kernel_image' = Told(kernel_image, s)
            /\ base_revision' = s.rev
            /\ rpc' = IF host.arch = "aarch64" /\ s.rev < 6 THEN "panic" ELSE "requests"
  /\ UNCHANGED <<kern, host, requests, paging_mode, hhdm_offset, stack_size, resp,
                 loaded, next_module, measured, event_log>>

(***************************************************************************)
(* The requests.                                                           *)
(***************************************************************************)
(* The first request of the list with this id of which size words fit; 0   *)
(* when there is none.                                                     *)
Lookup(reqs, img, a, b, size) ==
  LET ok == SelectSeq(reqs, LAMBDA p : img[p + 2] = a /\ img[p + 3] = b /\ p + size - 1 <= Len(img))
  IN IF ok = <<>> THEN 0 ELSE ok[1]

(* mutant: the end marker is looked for once requests have been seen *)
ReqStep_Through(img, s, i) ==
  IF s.stop THEN s
  ELSE IF At(img, i, StartMarker) THEN [s EXCEPT !.reqs = <<>>]
  ELSE IF At(img, i, EndMarker) THEN [s EXCEPT !.stop = s.reqs # <<>>]
  ELSE IF i + 3 > Len(img) \/ ~At(img, i, CommonMagic) THEN s
  ELSE IF \/ Len(s.reqs) = MAX_REQUESTS
          \/ Lookup(s.reqs, img, img[i + 2], img[i + 3], 4) # 0
       THEN [s EXCEPT !.stop = TRUE, !.panic = TRUE]
  ELSE [s EXCEPT !.reqs = Append(@, i)]

ReqStep(img, s, i) ==
  IF s.stop THEN s
  ELSE IF At(img, i, StartMarker) THEN [s EXCEPT !.reqs = <<>>]
  ELSE IF At(img, i, EndMarker) THEN [s EXCEPT !.stop = TRUE]
  ELSE IF i + 3 > Len(img) \/ ~At(img, i, CommonMagic) THEN s
  ELSE IF \/ Len(s.reqs) = MAX_REQUESTS
          \/ Lookup(s.reqs, img, img[i + 2], img[i + 3], 4) # 0
       THEN [s EXCEPT !.stop = TRUE, !.panic = TRUE]
  ELSE [s EXCEPT !.reqs = Append(@, i)]

Scanned(img) ==
  FoldLeft(LAMBDA a, i : ReqStep(img, a, i), [reqs |-> <<>>, stop |-> FALSE, panic |-> FALSE],
           Offsets(img))

(* .limine_reqs: half word offsets from virtual_base, closed by a null     *)
(* pointer; an entry below virtual_base is a negative offset.              *)
Listed(img, sec) ==
  [reqs |-> [i \in DOMAIN sec |-> sec[i] \div 2 + 1],
   stop |-> TRUE,
   panic |-> \/ Len(sec) >= MAX_REQUESTS
             \/ \E i \in DOMAIN sec : \/ sec[i] < 0 \/ 2 * Len(img) - sec[i] < 8
                                      \/ sec[i] % 2 # 0]

LoadRequests ==
  /\ rpc = "requests"
  /\ \E s \in {IF base_revision = 0 /\ kern.elf /\ kern.section # <<>>
               THEN Listed(kernel_image, kern.section) ELSE Scanned(kernel_image)} :
       IF s.panic THEN ReqPanic /\ UNCHANGED requests
       ELSE rpc' = "paging" /\ requests' = s.reqs
  /\ UNCHANGED <<kern, host, kernel_image, base_revision, paging_mode, hhdm_offset, stack_size,
                 resp, loaded, next_module, measured, event_log>>

_get_request(id, size) == Lookup(requests, kernel_image, IdOf[id], IdOf[id], size)
request_has_rev1(p, size) == kernel_image[p + 4] >= 1 /\ p + size - 1 <= Len(kernel_image)
have_request(id) == _get_request(id, 4) # 0

(***************************************************************************)
(* The paging mode: modes are numbered from 0; host.va gives the bits of a *)
(* virtual address of each in gibibytes, host.top the highest the          *)
(* processor has, and host.span the top of the direct map.                 *)
(***************************************************************************)
Modes == DOMAIN host.va
Holds(m) == host.span < 2 ^ (host.va[m] - 2)
Lowest == Min({m \in Modes : Holds(m)})
Default == IF host.arch = "riscv" THEN IF host.umax >= 1 /\ host.top >= 1 THEN 1 ELSE 0 ELSE 0
Clamped(m, lo, hi) == Max({lo, Min({m, hi})})

(* The range after the configuration's PAGING_MODE, MIN_ and MAX_; empty   *)
(* when the boot is refused.                                               *)
Allowed ==
  LET none == \/ host.arch = "x86" /\ host.span > 2 ^ host.phys
              \/ \A m \in Modes : m <= host.top => ~Holds(m)
              \/ host.umin = -1 \/ host.umax = -1     \* not a mode's name
              \/ host.umax < host.umin
  IN IF none THEN {}
     ELSE IF host.umax < host.top /\ host.umax < Lowest THEN {}
     ELSE LET max == Min({host.umax, host.top})
          IN IF host.umin > Lowest /\ host.umin > max THEN {}
             ELSE Max({host.umin, Lowest}) .. max

(* What the executable's request asks for: mode, and with revision 1 the   *)
(* highest and the lowest mode.                                            *)
Asked(p) ==
  LET rev1 == request_has_rev1(p, 9)
  IN [mode |-> kernel_image[p + 6],
      max |-> IF rev1 THEN kernel_image[p + 7] ELSE kernel_image[p + 6],
      min |-> IF rev1 THEN kernel_image[p + 8] ELSE 0]

Negotiated(a) ==
  LET m == Clamped(a.mode, Min(Allowed), Max(Allowed))
      n == IF m > a.max THEN a.max ELSE m
  IN IF a.max < a.min THEN -1
     ELSE IF m > a.max /\ a.max < Min(Allowed) THEN -1
     ELSE IF n < a.min THEN IF a.min > Max(Allowed) THEN -1 ELSE a.min
     ELSE n

(* Without a request a range above the default is refused. *)
Unasked == IF Min({Default, Max(Allowed)}) < Min(Allowed) THEN -1 ELSE Min({Default, Max(Allowed)})

Slides(m) == IF host.random THEN 0 .. 2 ^ (host.va[m] - 3) - 1 ELSE {0}

ChoosePaging ==
  /\ rpc = "paging"
  /\ \E p \in {_get_request("pm", 7)} :
     \E m \in {IF Allowed = {} THEN -1 ELSE IF p = 0 THEN Unasked ELSE Negotiated(Asked(p))} :
       IF m = -1 THEN ReqPanic /\ UNCHANGED <<paging_mode, hhdm_offset, resp>>
       ELSE /\ rpc' = "features"
            /\ paging_mode' = m
            /\ hhdm_offset' \in Slides(m)
            /\ resp' = IF p = 0 THEN resp ELSE "pm" :> [mode |-> m] @@ resp
  /\ UNCHANGED <<kern, host, kernel_image, base_revision, requests, stack_size, loaded, next_module,
                 measured, event_log>>

(***************************************************************************)
(* Features that do not depend on each other.                              *)
(***************************************************************************)
(* Whether a table is told as an address in the direct map. *)

Form(id) ==
  IF base_revision <= 2 \/ base_revision >= (IF id = "rsdp" THEN 4 ELSE 5) THEN "virt" ELSE "phys"

Tables == {"rsdp", "smbios", "est"}

Features ==
  /\ rpc = "features"
  /\ rpc' = "modules"
  /\ \E p \in {_get_request("stack", 7)} :
       stack_size' = LET want == IF p # 0 /\ kernel_image[p + 6] > stack_size THEN kernel_image[p + 6]
                                 ELSE stack_size
                     IN want + ((-want) % 4)
  /\ resp' = [id \in {id \in Tables : _get_request(id, 6) # 0 /\ id \in host.has}
                |-> [form |-> Form(id)]]
             @@ [id \in {id \in {"stack"} : _get_request(id, 7) # 0} |-> [given |-> TRUE]]
             @@ resp
  /\ UNCHANGED <<kern, host, kernel_image, base_revision, requests, paging_mode, hhdm_offset, loaded,
                 next_module, measured, event_log>>

(***************************************************************************)
(* Modules.                                                                *)
(***************************************************************************)
(* The word a pointer of the executable names, or 0 when size words from   *)
(* there are not inside the image or not aligned.                          *)
get_image_ptr(addr, size, align) ==
  LET off == IF addr >= HighBit THEN addr - HighBit - host.virtual ELSE addr - host.physical
  IN IF off < 0 \/ off + size > 2 * Len(kernel_image) \/ (host.physical + off) % align # 0 THEN 0
     ELSE off \div 2 + 1

get_image_str(addr) ==
  LET p == get_image_ptr(addr, 1, 1)
  IN IF p = 0 \/ \A i \in p .. Len(kernel_image) : kernel_image[i] # 0 THEN 0 ELSE p

ModuleRequest == _get_request("mod", 6)
Internal == IF request_has_rev1(ModuleRequest, 8) THEN kernel_image[ModuleRequest + 6] ELSE 0
InternalArray == get_image_ptr(kernel_image[ModuleRequest + 7], 2 * Internal, 2)
ModuleCount == Len(host.modules) + Internal

(* An internal module: the array names its structure of path, string and   *)
(* flags (1: required).  path = 0 when one of the pointers is refused.     *)
InternalModule(i) ==
  LET s == get_image_ptr(kernel_image[InternalArray + i - 1], 6, 2)
      path == IF s = 0 THEN 0 ELSE get_image_str(kernel_image[s])
      str == IF s = 0 THEN 0 ELSE get_image_str(kernel_image[s + 1])
  IN IF path = 0 \/ str = 0 THEN [path |-> 0, required |-> TRUE]
     ELSE [path |-> kernel_image[path], required |-> kernel_image[s + 2] % 2 = 1]

ModuleIn(i) ==
  IF i <= Internal THEN InternalModule(i)
  ELSE [path |-> host.modules[i - Internal], required |-> TRUE]

ModulesBegin ==
  /\ rpc = "modules"
  /\ rpc' = IF ModuleRequest = 0 \/ ModuleCount = 0 THEN "dtb"
            ELSE IF Internal # 0 /\ InternalArray = 0 THEN "panic"
            ELSE "module"
  /\ UNCHANGED <<kern, host, kernel_image, base_revision, requests, paging_mode, hhdm_offset,
                 stack_size, resp, loaded, next_module, measured, event_log>>

LoadModule ==
  /\ rpc = "module" /\ next_module <= ModuleCount
  /\ next_module' = next_module + 1
  /\ \E m \in {ModuleIn(next_module)} :
       IF m.path \in host.files
       THEN /\ loaded' = Append(loaded, m.path)
            /\ measured' = Append(measured, m.path)
            /\ rpc' = rpc
       ELSE /\ rpc' = IF m.required THEN "panic" ELSE rpc
            /\ UNCHANGED <<loaded, measured>>
  /\ UNCHANGED <<kern, host, kernel_image, base_revision, requests, paging_mode, hhdm_offset,
                 stack_size, resp, event_log>>

ModulesDone ==
  /\ rpc = "module" /\ next_module > ModuleCount
  /\ rpc' = "dtb"
  /\ resp' = "mod" :> [modules |-> loaded] @@ resp
  /\ UNCHANGED <<kern, host, kernel_image, base_revision, requests, paging_mode, hhdm_offset,
                 stack_size, loaded, next_module, measured, event_log>>

(***************************************************************************)
(* The device tree: the file of dtb_path or global_dtb ("none", "missing", *)
(* "bad", "good") goes before the firmware's ("none", "bad", "good").      *)
(***************************************************************************)
get_device_tree_blob(required) ==
  IF host.dtb = "good" THEN "file"
  ELSE IF host.dtb # "none" /\ required THEN "panic"
  ELSE IF host.fwdtb = "good" THEN "firmware"
  ELSE IF host.fwdtb = "bad" /\ required THEN "panic"
  ELSE "none"

(* What one call of it extends into the TPM; the firmware's tree is        *)
(* measured before it is copied.                                           *)
DtbMeasures(measure, required) ==
  IF ~measure THEN <<>>
  ELSE IF host.dtb = "good" THEN <<3>>
  ELSE IF host.fwdtb # "none" /\ ~(required /\ host.dtb # "none") THEN <<4>>
  ELSE <<>>

DeviceTree ==
  /\ rpc = "dtb"
  /\ IF _get_request("dtb", 6) = 0 THEN rpc' = "fb" /\ UNCHANGED <<resp, measured>>
     ELSE \E d \in {get_device_tree_blob(TRUE)} :
            /\ measured' = measured \o DtbMeasures(TRUE, TRUE)
            /\ rpc' = IF d = "panic" THEN "panic" ELSE "fb"
            /\ resp' = IF d \in {"panic", "none"} THEN resp ELSE "dtb" :> [from |-> d] @@ resp
  /\ UNCHANGED <<kern, host, kernel_image, base_revision, requests, paging_mode, hhdm_offset,
                 stack_size, loaded, next_module, event_log>>

(***************************************************************************)
(* Framebuffers: each has an index, a depth, and on aarch64 the memory     *)
(* attribute the firmware uses (Device below 16, lower is tighter).        *)
(***************************************************************************)
NonCacheable == 68

fb_attr(attrs) ==
  LET dev(a) == a < 16
      step(acc, a) ==
        CASE acc = -1 -> a
          [] acc # -1 /\ ~dev(acc) /\ dev(a) -> a
          [] acc # -1 /\ dev(acc) /\ dev(a) -> Min({a, acc})
          [] acc # -1 /\ ~dev(acc) /\ ~dev(a) -> NonCacheable
          [] OTHER -> acc
      all == FoldLeft(step, -1, attrs)
  IN IF all = -1 THEN 0 ELSE all

(* gterm_prepare_flanterm_params gives one set of parameters per 32 bit    *)
(* framebuffer, in order; the loop hands them out again.                   *)
Prepared(fbs) == SelectSeq([i \in DOMAIN fbs |-> i], LAMBDA i : fbs[i].bpp = 32)

FipOf(fbs, i) ==
  LET k == Cardinality({j \in 1 .. i : fbs[j].bpp = 32})
  IN IF fbs[i].bpp = 32 /\ k <= Len(Prepared(fbs)) THEN Prepared(fbs)[k] ELSE 0

Framebuffer ==
  /\ rpc = "fb"
  /\ rpc' = "tpm"
  /\ \E fb \in {host.fbs # <<>> /\ _get_request("fb", 6) # 0} :
       resp' = (IF fb THEN "fb" :> [count |-> Len(host.fbs)] ELSE <<>>)
               @@ (IF fb /\ _get_request("fip", 6) # 0
                   THEN "fip" :> [params |-> [i \in DOMAIN host.fbs |-> FipOf(host.fbs, i)]]
                   ELSE <<>>)
               @@ resp
  /\ UNCHANGED <<kern, host, kernel_image, base_revision, requests, paging_mode, hhdm_offset,
                 stack_size, loaded, next_module, measured, event_log>>

(***************************************************************************)
(* The event log: host.tpm is "none", "empty" (no entry yet), "broken" (an *)
(* end that makes no sense) or "ok".                                       *)
(***************************************************************************)
tpm_capture_event_log == IF host.tpm = "ok" THEN measured ELSE <<>>

LateCall ==
  /\ rpc = "tpm"
  /\ rpc' = "exit"
  /\ \E given \in {_get_request("tpm", 6) # 0 /\ host.tpm \in {"ok", "empty"}} :
       /\ event_log' = IF given THEN tpm_capture_event_log ELSE event_log
       /\ resp' = [id \in {id \in {"tsc", "perf"} \cap host.has : _get_request(id, 6) # 0} |->
                     [given |-> TRUE]]
                  @@ (IF given THEN "tpm" :> [given |-> TRUE] ELSE <<>>) @@ resp
  /\ UNCHANGED <<kern, host, kernel_image, base_revision, requests, paging_mode, hhdm_offset,
                 stack_size, loaded, next_module, measured>>

(* The tree init_smp falls back on is opened before boot services are      *)
(* left, and not measured.                                                 *)
SmpMeasure(m) == FALSE

LeaveFirmware ==
  /\ rpc = "exit"
  /\ rpc' = "done"
  /\ measured' = IF host.arch = "aarch64" /\ have_request("mp")
                 THEN measured \o DtbMeasures(SmpMeasure(TRUE), FALSE) ELSE measured
  /\ resp' = IF host.arch = "aarch64"
             THEN "mair" :> [attr |-> fb_attr([i \in DOMAIN host.fbs |-> host.fbs[i].attr])] @@ resp
             ELSE resp
  /\ UNCHANGED <<kern, host, kernel_image, base_revision, requests, paging_mode, hhdm_offset,
                 stack_size, loaded, next_module, event_log>>

RqInit ==
  /\ \E b \in Boots : kern = b[1] /\ host = b[2]
  /\ rpc = "revision"
  /\ kernel_image = ImageOf(kern)
  /\ base_revision = 0 /\ requests = <<>>
  /\ paging_mode = -1 /\ hhdm_offset = 0
  /\ stack_size = 4
  /\ resp = <<>>
  /\ loaded = <<>> /\ next_module = 1
  /\ measured = <<1, 2>> /\ event_log = <<>>

RqNext ==
  \/ FindRevision \/ LoadRequests \/ ChoosePaging \/ Features
  \/ ModulesBegin \/ LoadModule \/ ModulesDone \/ DeviceTree
  \/ Framebuffer \/ LateCall \/ LeaveFirmware

RqSpec == RqInit /\ [][RqNext]_rqvars

(***************************************************************************)
(* Properties.                                                             *)
(***************************************************************************)
(* The items of the executable and what of them is inside the image. *)
Before(k, i) == Len(FlattenSeq([j \in 1 .. i - 1 |-> Words(k.items[j])]))
Inside(k, kind, n) ==
  {i \in DOMAIN k.items : k.items[i].k = kind /\ Before(k, i) + n <= Len(Laid(k)) - k.cut}

(* The items between the last start marker and the first end marker. *)
Section(k) ==
  LET lim == Min(Inside(k, "end", 2) \cup {Len(k.items) + 1})
      from == Max({i \in Inside(k, "start", 4) : i < lim} \cup {0})
  IN from + 1 .. lim - 1
Tags(k) == Inside(k, "rev", 3) \cap Section(k)
Asks(k) == Inside(k, "req", 4) \cap Section(k)

(* An executable that is let past the revision scan has at most one tag    *)
(* between the markers, is loaded for the revision the tag names or the    *)
(* newest one, is told that revision in the tag's second word, and finds   *)
(* its third word zero exactly when its own revision is supported.         *)
RevisionTold ==
  rpc \notin {"revision", "panic"} =>
    /\ Cardinality(Tags(kern)) <= 1
    /\ Tags(kern) = {} => base_revision = 0
    /\ \A t \in Tags(kern) :
         LET n == kern.items[t].n
             w == Before(kern, t)
         IN /\ base_revision = Min({n, SUPPORTED_BASE_REVISION})
            /\ kernel_image[w + 2] = base_revision
            /\ kernel_image[w + 3] = (IF n <= SUPPORTED_BASE_REVISION THEN 0 ELSE n)

(* The requests looked at are those between the markers whose id is whole, *)
(* each id once: nothing before a start marker or after an end marker is   *)
(* answered, and nothing between them is lost.                             *)
RequestsExact ==
  (rpc \notin {"revision", "requests", "panic"} /\ kern.section = <<>>) =>
    /\ ToSet(requests) = {Before(kern, i) + 1 : i \in Asks(kern)}
    /\ Len(requests) = Cardinality({kern.items[i].id : i \in Asks(kern)})

(* The modes everybody can live with: the processor, the direct map, the   *)
(* configuration and the executable, which without a request accepts       *)
(* nothing above the default.                                              *)
Fit(p) ==
  {m \in Modes : /\ m <= host.top /\ Holds(m)
                 /\ host.arch = "x86" => host.span <= 2 ^ host.phys
                 /\ host.umin # -1 /\ host.umax # -1
                 /\ host.umin <= m /\ m <= host.umax
                 /\ IF p = 0 THEN m <= Default ELSE Asked(p).min <= m /\ m <= Asked(p).max}
Near(m, t) == IF m > t THEN m - t ELSE t - m

(* The negotiation of the paging mode fails exactly when no mode suits the *)
(* processor, the size of the direct map, the configuration and the        *)
(* executable, and otherwise settles on the suitable mode nearest to the   *)
(* one asked for.                                                          *)
ModeExact ==
  rpc = "paging" =>
    LET p == _get_request("pm", 7)
        t == IF p = 0 THEN Default ELSE Asked(p).mode
    IN /\ rpc' = "panic" <=> Fit(p) = {}
       /\ rpc' # "panic" => /\ paging_mode' \in Fit(p)
                            /\ \A m \in Fit(p) : Near(paging_mode', t) <= Near(m, t)

(* Wherever the direct map is slid to, its top stays below the last two    *)
(* gibibytes, where the executable is mapped.                              *)
HhdmBelowKernel ==
  paging_mode # -1 => hhdm_offset + host.span <= 2 ^ (host.va[paging_mode] - 1) - 2

(* The direct map of the base revision has the memory a table lies in: all *)
(* below 4 GiB up to revision 2, memory of a mapped type, or what the      *)
(* table finder adds.                                                      *)
InDirectMap(id) ==
  \/ base_revision <= 2 /\ id \notin host.high
  \/ base_revision = 0
  \/ base_revision # 3 /\ host.lies[id] \notin {"reserved", "bad"}
  \/ base_revision >= (IF id = "rsdp" THEN 4 ELSE 5)

(* An address of the direct map is told for a firmware table only when the *)
(* direct map has it.  Revisions 1 and 2 tell it of any table; one in      *)
(* reserved memory above 4 GiB is excepted.                                *)
TableTold ==
  \A id \in Tables \cap DOMAIN resp :
    LET beyond == id \in host.high /\ host.lies[id] \in {"reserved", "bad"}
    IN resp[id].form = "virt" /\ ~(base_revision \in {1, 2} /\ beyond) => InDirectMap(id)

(* The modules told are the executable's own that exist, in order, and     *)
(* then those of the configuration; the boot goes on only when every       *)
(* required one exists and every pointer stays inside the image.           *)
ModulesExact ==
  "mod" \in DOMAIN resp =>
    LET there(m) == m.path \in host.files
        inner == SelectSeq(kern.inner, there)
    IN /\ resp["mod"].modules = [i \in DOMAIN inner |-> inner[i].path] \o host.modules
       /\ \A i \in DOMAIN kern.inner : kern.inner[i].required => there(kern.inner[i])
       /\ \A i \in DOMAIN host.modules : host.modules[i] \in host.files

(* The event log handed to the executable has everything the loader has    *)
(* extended by the time boot services are left.                            *)
EventLogWhole ==
  (rpc = "done" /\ "tpm" \in DOMAIN resp /\ host.tpm = "ok") => event_log = measured

(* Every 32 bit framebuffer is told with the parameters prepared for it,   *)
(* and no other framebuffer with any.                                      *)
FipExact ==
  "fip" \in DOMAIN resp =>
    \A i \in DOMAIN host.fbs : resp["fip"].params[i] = IF host.fbs[i].bpp = 32 THEN i ELSE 0

(* The one memory attribute all framebuffers share is no looser than what  *)
(* the firmware used for any of them: Device memory if one was, the        *)
(* tightest kind of it, and Normal cacheable only if there is just one.    *)
AttributeTight ==
  "mair" \in DOMAIN resp =>
    \A i \in DOMAIN host.fbs :
      LET a == host.fbs[i].attr IN
        /\ a < 16 => resp["mair"].attr <= a
        /\ resp["mair"].attr = a \/ resp["mair"].attr < 16 \/ resp["mair"].attr = NonCacheable

(* What the Limine protocol tells an executable is so, for every order of  *)
(* markers, tags and requests: the revision, the requests answered, paging *)
(* mode, direct map, modules, tables, event log and framebuffers           *)
(* (limine_load).                                                          *)
ToldExact ==
  [][/\ RevisionTold' /\ RequestsExact' /\ ModeExact /\ HhdmBelowKernel' /\ TableTold'
     /\ ModulesExact' /\ EventLogWhole' /\ FipExact' /\ AttributeTight']_rqvars
=============================================================================

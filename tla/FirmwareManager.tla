--------------------------- MODULE FirmwareManager ---------------------------
(***************************************************************************)
(* The boot loader's firmware manager: the administrative data in two      *)
(* copies (bl_data.c), the requests that replace an application            *)
(* (dfu_core.c, qfu.c, qfm.c), and a power supply that may fail at any     *)
(* time, in the middle of a flash page too.                                *)
(*                                                                         *)
(* The program is always in the middle of the step pc names; the action    *)
(* of that step completes it.  A host sends any request at any time, with  *)
(* the blocks of an image in their order.  A build has either application  *)
(* erase or block hashes (ENABLE_FIRMWARE_MANAGER_AUTH), the module both.  *)
(***************************************************************************)
EXTENDS Integers

CONSTANTS
  NumPartitions,    \* BL_FLASH_PARTITIONS_NUM
  BootPartition,    \* the partition at LMT_APP_ADDR
  NumPages,         \* of every partition, in blocks
  Images,           \* the images a host may have
  NumBlocks,        \* n_blocks of each, with the header
  NoImage,          \* the version of a partition that was never written
  FirstBlockNums    \* the number a host may give the first block

Partitions == 1 .. NumPartitions
Pages == 1 .. NumPages

\* An image may be a header only: it writes a descriptor and no page.  A header
\* that counts no block at all is refused, its difference to one wraps (qfu.c:225).
ASSUME FirmwareAssumption ==
  /\ NumPartitions \in Nat \ {0} /\ BootPartition \in Partitions
  /\ NumPages \in Nat \ {0}
  /\ NumBlocks \in [Images -> Nat] /\ \A image \in Images : NumBlocks[image] >= 1
  /\ NoImage \notin Images
  /\ {"erased", "torn"} \cap Images = {}
  /\ FirstBlockNums \subseteq Nat

VARIABLES
  pc,              \* the step the program is in the middle of
  caller,          \* who waits for it: "boot" or a "request"
  then,            \* what follows a write-back
  target,          \* the copy being written
  page,            \* the page being erased
  wb_needed,
  health,          \* what the CRC of each copy says
  copy,            \* ... and what it holds
  flash,           \* the pages of the partitions
  bl_data,         \* the copy in RAM
  alt,             \* active_alt_setting, part and dfu_rh: 0 is QFM
  dfu_state,       \* dfu_status is not DFU_STATUS_OK in ERROR only
  proc_status,     \* qfu_err_status, dfu_status of qfm.c
  block_cnt,
  next_block_num,
  img_hdr,
  sys_info_rsp_pending,
  provisioned      \* history: the first provisioning is over

control == <<pc, caller, then, target, page, wb_needed>>
store == <<health, copy>>
dfu == <<dfu_state, block_cnt, next_block_num>>
handler == <<alt, proc_status, img_hdr, sys_info_rsp_pending>>
vars == <<control, store, flash, bl_data, dfu, handler, provisioned>>

-----------------------------------------------------------------------------
Copies == {"main", "backup"}
Other(c) == IF c = "main" THEN "backup" ELSE "main"

Versions == Images \cup {NoImage}

\* bl_data_t, of which a boot target is one partition.
Descriptors ==
  [is_consistent : [Partitions -> BOOLEAN],
   app_version : [Partitions -> Versions],
   active_partition : Partitions]

Defaults ==
  [is_consistent |-> [p \in Partitions |-> TRUE],
   app_version |-> [p \in Partitions |-> NoImage],
   active_partition |-> BootPartition]

PageContents == [from : Images \cup {"erased", "torn"}, block : 0 .. NumPages]
ErasedPage == [from |-> "erased", block |-> 0]
TornPage == [from |-> "torn", block |-> 0]

Inconsistent(d) == {p \in Partitions : ~d.is_consistent[p]}

FirstOf(d) == CHOOSE p \in Inconsistent(d) : \A q \in Inconsistent(d) : p <= q

\* The partition bl_data_sanitize_partitions() comes to next.
FirstInconsistent == FirstOf(bl_data)

Goto(step) == pc' = step /\ UNCHANGED <<caller, then, target, page, wb_needed>>

\* bl_data_sanitize() and bl_data_shadow_writeback() are called.
Sanitize(from) ==
  /\ pc' = "sanitize" /\ caller' = from
  /\ UNCHANGED <<then, target, page, wb_needed>>

\* Mutant: only the backup is written.
WritebackBackupOnly(next) ==
  /\ pc' = "writeback" /\ target' = "backup" /\ then' = next
  /\ UNCHANGED <<caller, page, wb_needed>>

Writeback(next) ==
  /\ pc' = "writeback" /\ target' = "main" /\ then' = next
  /\ UNCHANGED <<caller, page, wb_needed>>

Return == IF caller = "boot" THEN "boot" ELSE "serve"

-----------------------------------------------------------------------------
\* bl_data.c

\* The checks of bl_data_sanitize(), bl_loop_if_not_blank() and
\* bl_data_init().
CheckCopies ==
  /\ pc = "sanitize"
  /\ \/ /\ \A c \in Copies : health[c] = "blank"
        /\ bl_data' = Defaults
        /\ Writeback("load")
     \/ /\ \A c \in Copies : health[c] # "valid"
        /\ \E c \in Copies : health[c] # "blank"
        /\ Goto("halt") /\ UNCHANGED bl_data
     \/ /\ health["main"] # "valid" /\ health["backup"] = "valid"
        /\ pc' = "recover" /\ target' = "main"
        /\ UNCHANGED <<caller, then, page, wb_needed, bl_data>>
     \/ /\ health["main"] = "valid"
        /\ health["backup"] # "valid" \/ copy["main"] # copy["backup"]
        /\ pc' = "recover" /\ target' = "backup"
        /\ UNCHANGED <<caller, then, page, wb_needed, bl_data>>
     \/ /\ \A c \in Copies : health[c] = "valid"
        /\ copy["main"] = copy["backup"]
        /\ Goto("load") /\ UNCHANGED bl_data
  /\ UNCHANGED <<store, flash, dfu, handler, provisioned>>

\* Mutant: a damaged backup is not repaired.
RecoverMainOnly ==
  /\ pc = "recover"
  /\ IF target = "main"
       THEN /\ copy' = [copy EXCEPT !.main = copy["backup"]]
            /\ health' = [health EXCEPT !.main = "valid"]
       ELSE UNCHANGED store
  /\ Goto("load")
  /\ UNCHANGED <<flash, bl_data, dfu, handler, provisioned>>

\* Mutant: source and destination are swapped.
RecoverBackwards ==
  /\ pc = "recover"
  /\ copy' = [copy EXCEPT ![Other(target)] = copy[target]]
  /\ health' = [health EXCEPT ![Other(target)] = health[target]]
  /\ Goto("load")
  /\ UNCHANGED <<flash, bl_data, dfu, handler, provisioned>>

\* bl_data_copy() from the other copy.
Recover ==
  /\ pc = "recover"
  /\ copy' = [copy EXCEPT ![target] = copy[Other(target)]]
  /\ health' = [health EXCEPT ![target] = "valid"]
  /\ Goto("load")
  /\ UNCHANGED <<flash, bl_data, dfu, handler, provisioned>>

Load ==
  /\ pc = "load"
  /\ bl_data' = copy["main"]
  /\ pc' = "scan" /\ wb_needed' = FALSE
  /\ UNCHANGED <<caller, then, target, page, store, flash, dfu, handler, provisioned>>

\* bl_data_sanitize_partitions(), between two partitions.
Scan ==
  /\ pc = "scan"
  /\ \/ /\ Inconsistent(bl_data) # {}
        /\ pc' = "erase" /\ page' = 1
        /\ UNCHANGED <<caller, then, target, wb_needed>>
     \/ /\ Inconsistent(bl_data) = {} /\ wb_needed
        /\ Writeback("return")
     \/ /\ Inconsistent(bl_data) = {} /\ ~wb_needed
        /\ Goto(Return)
  /\ UNCHANGED <<store, flash, bl_data, dfu, handler, provisioned>>

\* Mutant: the erased partition stays inconsistent.
ErasePageForgets ==
  /\ pc = "erase"
  /\ flash' = [flash EXCEPT ![FirstInconsistent][page] = ErasedPage]
  /\ IF page < NumPages
       THEN page' = page + 1 /\ UNCHANGED pc
       ELSE pc' = "scan" /\ UNCHANGED page
  /\ UNCHANGED <<caller, then, target, wb_needed, store, bl_data, dfu, handler, provisioned>>

\* bl_data_erase_partition(), page by page.
ErasePage ==
  /\ pc = "erase"
  /\ flash' = [flash EXCEPT ![FirstInconsistent][page] = ErasedPage]
  /\ \/ /\ page < NumPages
        /\ page' = page + 1
        /\ UNCHANGED <<pc, wb_needed, bl_data>>
     \/ /\ page = NumPages
        /\ bl_data' = [bl_data EXCEPT !.is_consistent[FirstInconsistent] = TRUE]
        /\ pc' = "scan" /\ wb_needed' = TRUE
        /\ UNCHANGED page
  /\ UNCHANGED <<caller, then, target, store, dfu, handler, provisioned>>

\* bl_data_shadow_writeback(), one copy after the other.
WriteCopy ==
  /\ pc = "writeback"
  /\ copy' = [copy EXCEPT ![target] = bl_data]
  /\ health' = [health EXCEPT ![target] = "valid"]
  /\ provisioned' = TRUE
  /\ \/ /\ target = "main" /\ target' = "backup"
        /\ UNCHANGED pc
     \/ /\ target = "backup" /\ UNCHANGED target
        /\ pc' = IF then = "return" THEN Return ELSE then
  /\ UNCHANGED <<caller, then, page, wb_needed, flash, bl_data, dfu, handler>>

-----------------------------------------------------------------------------
\* rom_startup.c, fm_hook.c

\* dfu_set_alt_setting(0)
StartServing ==
  /\ pc' = "serve" /\ caller' = "request"
  /\ dfu_state' = "IDLE"
  /\ alt' = 0 /\ proc_status' = "OK"
  /\ UNCHANGED <<then, target, page, wb_needed, block_cnt, next_block_num,
                 img_hdr, sys_info_rsp_pending>>

\* The application is started if there is one and nobody asks for the firmware
\* manager with its pin.
Boot ==
  /\ pc = "boot"
  /\ \/ StartServing
     \/ /\ flash[BootPartition][1].from # "erased"
        /\ Goto("application")
        /\ UNCHANGED <<dfu, handler>>
  /\ UNCHANGED <<store, flash, bl_data, provisioned>>

\* The state of the RAM when the program starts.
PoweredOn ==
  /\ pc' = "sanitize" /\ caller' = "boot"
  /\ then' = "return" /\ target' = "main" /\ page' = 1 /\ wb_needed' = FALSE
  /\ bl_data' = Defaults
  /\ alt' = 0
  /\ dfu_state' = "IDLE" /\ proc_status' = "OK"
  /\ block_cnt' = 0 /\ next_block_num' = 0
  /\ img_hdr' = NoImage /\ sys_info_rsp_pending' = FALSE

\* The power fails, or the host resets the processor.  A page being written may
\* have been left alone, be blank, or hold anything.
PowerLoss ==
  /\ PoweredOn
  /\ IF pc \in {"recover", "writeback"}
       THEN \E h \in {health[target], "blank", "torn"} :
              health' = [health EXCEPT ![target] = h]
       ELSE UNCHANGED health
  /\ LET At(p, k) ==
           flash' \in {[flash EXCEPT ![p][k] = c] :
                         c \in {flash[p][k], ErasedPage, TornPage}}
     IN CASE pc = "erase" -> At(FirstInconsistent, page)
          [] pc = "program" -> At(alt, block_cnt - 1)
          [] OTHER -> UNCHANGED flash
  /\ UNCHANGED <<copy, provisioned>>

-----------------------------------------------------------------------------
\* dfu_core.c: the requests of a host

\* A request that the state does not allow.
SetErr ==
  /\ dfu_state' = "ERROR"
  /\ UNCHANGED <<control, store, flash, bl_data, block_cnt, next_block_num,
                 handler, provisioned>>

SetAltSetting(a) ==
  /\ pc = "serve"
  /\ dfu_state' = "IDLE"
  /\ alt' = a /\ proc_status' = "OK"
  /\ IF a = 0 THEN UNCHANGED control ELSE Sanitize("request")
  /\ UNCHANGED <<store, flash, bl_data, block_cnt, next_block_num, img_hdr,
                 sys_info_rsp_pending, provisioned>>

\* The count of the block that starts or continues a transfer.
Count == IF dfu_state = "IDLE" THEN 0 ELSE block_cnt

\* dfu_process_dnload() around a block that its handler processes.
Accept(num) ==
  /\ pc = "serve"
  /\ \/ dfu_state = "IDLE" /\ num \in FirstBlockNums
     \/ dfu_state = "DNLOAD_IDLE" /\ num = next_block_num
  /\ next_block_num' = num + 1
  /\ block_cnt' = Count + 1
  /\ dfu_state' = "DNLOAD_SYNC"
  /\ UNCHANGED <<alt, store, flash, provisioned>>

\* qfm.c
QfmRequest(num) ==
  /\ alt = 0 /\ Accept(num)
  /\ UNCHANGED img_hdr
  /\ \/ /\ Count = 0
        /\ proc_status' = "OK"
        /\ \/ /\ sys_info_rsp_pending' = TRUE         \* QFM_SYS_INFO_REQ
              /\ UNCHANGED <<control, bl_data>>
           \/ /\ bl_data' = [bl_data EXCEPT           \* QFM_APP_ERASE
                               !.is_consistent = [p \in Partitions |-> FALSE]]
              /\ Writeback("sanitize")
              /\ sys_info_rsp_pending' = FALSE
           \/ /\ Writeback("return")                  \* QFM_UPDATE_FW_KEY, RV_KEY
              /\ sys_info_rsp_pending' = FALSE
              /\ UNCHANGED bl_data
     \/ /\ proc_status' = "ERR"                       \* not understood, or not the first
        /\ sys_info_rsp_pending' = FALSE
        /\ UNCHANGED <<control, bl_data>>

\* qfu.c: a header of the right length is copied and then looked at.
QfuHeader(num) ==
  /\ alt > 0 /\ Accept(num) /\ Count = 0
  /\ \/ \E image \in Images :
          /\ img_hdr' = image
          /\ \/ proc_status' = "OK" /\ NumBlocks[image] - 1 <= NumPages
             \/ proc_status' = "ERR"
     \/ UNCHANGED img_hdr /\ proc_status' = "ERR"
  /\ UNCHANGED <<control, bl_data, sys_info_rsp_pending>>

QfuBlock(num) ==
  /\ alt > 0 /\ Accept(num) /\ Count > 0
  /\ UNCHANGED <<img_hdr, sys_info_rsp_pending>>
  /\ \/ /\ proc_status' = "ERR"                       \* one too many, or its length
        /\ UNCHANGED <<control, bl_data>>
     \/ /\ block_cnt < NumBlocks[img_hdr]             \* its hash
        /\ proc_status' = "ERR"
        /\ Sanitize("request") /\ UNCHANGED bl_data
     \/ /\ block_cnt < NumBlocks[img_hdr]
        /\ UNCHANGED proc_status
        /\ IF block_cnt = 1
             THEN /\ bl_data' = [bl_data EXCEPT !.is_consistent[alt] = FALSE]
                  /\ Writeback("program")
             ELSE Goto("program") /\ UNCHANGED bl_data

\* The rest of qfu_handle_blk(): the block before block_cnt is written, and
\* compared with what the flash holds.
ProgramPage ==
  /\ pc = "program"
  /\ LET k == block_cnt - 1 IN
       \/ /\ flash' = [flash EXCEPT ![alt][k] = [from |-> img_hdr, block |-> k]]
          /\ proc_status' = "OK"
       \/ /\ flash' = [flash EXCEPT ![alt][k] = TornPage]
          /\ proc_status' = "ERR"
  /\ Goto("serve")
  /\ UNCHANGED <<store, bl_data, dfu, alt, img_hdr, sys_info_rsp_pending, provisioned>>

\* Mutant: an image may end early.
CompleteUnchecked == TRUE

\* qfu_dfu_fin_dnload_xfer()
Complete == next_block_num = NumBlocks[img_hdr]

\* An empty block ends a transfer.
Finalize ==
  /\ pc = "serve" /\ dfu_state = "DNLOAD_IDLE"
  /\ \/ /\ alt = 0
        /\ dfu_state' = "MANIFEST_SYNC"
        /\ UNCHANGED <<control, bl_data>>
     \/ /\ alt > 0 /\ Complete
        /\ bl_data' = [bl_data EXCEPT !.is_consistent[alt] = TRUE,
                                      !.app_version[alt] = img_hdr,
                                      !.active_partition = alt]
        /\ Writeback("return")
        /\ dfu_state' = "MANIFEST_SYNC"
     \/ /\ alt > 0 /\ ~Complete
        /\ Sanitize("request") /\ UNCHANGED bl_data
        /\ dfu_state' = "ERROR"
  /\ UNCHANGED <<store, flash, block_cnt, next_block_num, handler, provisioned>>

\* In every state the host may send an empty or a misnumbered block.
ProcessDnload ==
  \/ \E num \in FirstBlockNums \cup {next_block_num} :
       QfmRequest(num) \/ QfuHeader(num) \/ QfuBlock(num)
  \/ Finalize
  \/ pc = "serve" /\ SetErr

\* The numbers of an upload bind nothing but the upload: they are in order or
\* they are not.  The answer is shorter than what the host asks for or not.
ProcessUpload ==
  /\ pc = "serve"
  /\ \/ /\ dfu_state \in {"IDLE", "UPLOAD_IDLE"}
        /\ dfu_state' \in {"IDLE", "UPLOAD_IDLE"}
        /\ sys_info_rsp_pending' = IF alt = 0 THEN FALSE ELSE sys_info_rsp_pending
        /\ UNCHANGED <<control, store, flash, bl_data, block_cnt, next_block_num,
                       alt, proc_status, img_hdr, provisioned>>
     \/ dfu_state # "IDLE" /\ SetErr

GetStatus ==
  /\ pc = "serve"
  /\ \/ /\ proc_status = "ERR" /\ dfu_state \in {"DNLOAD_SYNC", "MANIFEST_SYNC"}
        /\ dfu_state' = "ERROR"
     \/ /\ proc_status = "OK" /\ dfu_state = "DNLOAD_SYNC"
        /\ dfu_state' = "DNLOAD_IDLE"
     \/ /\ proc_status = "OK" /\ dfu_state = "MANIFEST_SYNC"
        /\ dfu_state' = "IDLE"
  /\ UNCHANGED <<control, store, flash, bl_data, block_cnt, next_block_num, handler,
                 provisioned>>

ClrStatus ==
  /\ pc = "serve"
  /\ \/ /\ dfu_state = "ERROR" /\ dfu_state' = "IDLE"
        /\ proc_status' = "OK"
        /\ IF alt = 0 THEN UNCHANGED control ELSE Sanitize("request")
        /\ UNCHANGED <<store, flash, bl_data, block_cnt, next_block_num, alt, img_hdr,
                       sys_info_rsp_pending, provisioned>>
     \/ dfu_state # "ERROR" /\ SetErr

Abort ==
  /\ pc = "serve"
  /\ \/ /\ dfu_state \in {"DNLOAD_IDLE", "UPLOAD_IDLE"} /\ dfu_state' = "IDLE"
        /\ IF dfu_state = "DNLOAD_IDLE" /\ alt > 0
             THEN Sanitize("request")
             ELSE UNCHANGED control
        /\ sys_info_rsp_pending' =
             IF dfu_state = "DNLOAD_IDLE" /\ alt = 0 THEN FALSE ELSE sys_info_rsp_pending
        /\ UNCHANGED <<store, flash, bl_data, block_cnt, next_block_num, alt,
                       proc_status, img_hdr, provisioned>>
     \/ dfu_state \notin {"DNLOAD_IDLE", "UPLOAD_IDLE"} /\ SetErr

-----------------------------------------------------------------------------
Init ==
  /\ pc = "sanitize" /\ caller = "boot"
  /\ then = "return" /\ target = "main" /\ page = 1 /\ wb_needed = FALSE
  /\ health = [c \in Copies |-> "blank"]
  /\ copy = [c \in Copies |-> Defaults]
  /\ flash = [p \in Partitions |-> [k \in Pages |-> ErasedPage]]
  /\ bl_data = Defaults
  /\ alt = 0
  /\ dfu_state = "IDLE" /\ proc_status = "OK"
  /\ block_cnt = 0 /\ next_block_num = 0
  /\ img_hdr = NoImage /\ sys_info_rsp_pending = FALSE
  /\ provisioned = FALSE

\* What the program does by itself.
Proceed ==
  \/ CheckCopies \/ Recover \/ Load \/ Scan \/ ErasePage \/ WriteCopy
  \/ Boot \/ ProgramPage

Request ==
  \/ \E a \in 0 .. NumPartitions : SetAltSetting(a)
  \/ ProcessDnload \/ ProcessUpload \/ GetStatus \/ ClrStatus \/ Abort

Next == Proceed \/ Request \/ PowerLoss

\* A processor that has power runs; a host need not ask for anything.
Spec == Init /\ [][Next]_vars /\ WF_vars(Proceed)

-----------------------------------------------------------------------------
Steps == {"sanitize", "recover", "load", "scan", "erase", "writeback", "boot",
          "serve", "program", "application", "halt"}

TypeOK ==
  /\ pc \in Steps /\ caller \in {"boot", "request"}
  /\ then \in {"return", "load", "sanitize", "program"}
  /\ target \in Copies /\ page \in Pages /\ wb_needed \in BOOLEAN
  /\ health \in [Copies -> {"blank", "torn", "valid"}]
  /\ copy \in [Copies -> Descriptors]
  /\ flash \in [Partitions -> [Pages -> PageContents]]
  /\ bl_data \in Descriptors
  /\ alt \in 0 .. NumPartitions
  /\ dfu_state \in {"IDLE", "DNLOAD_SYNC", "DNLOAD_IDLE", "MANIFEST_SYNC",
                    "UPLOAD_IDLE", "ERROR"}
  /\ proc_status \in {"OK", "ERR"}
  /\ block_cnt \in Nat /\ next_block_num \in Nat
  /\ img_hdr \in Versions /\ sys_info_rsp_pending \in BOOLEAN
  /\ provisioned \in BOOLEAN

\* What a boot would find.
Stored ==
  CASE health["main"] = "valid" -> copy["main"]
    [] health["main"] # "valid" /\ health["backup"] = "valid" -> copy["backup"]
    [] OTHER -> Defaults

\* The power may fail while either copy is written, and the program is stopped
\* for good (bl_loop_if_not_blank) in the first provisioning only.
HaltsOnlyUnprovisioned ==
  /\ provisioned => \E c \in Copies : health[c] = "valid"
  /\ pc = "halt" => ~provisioned

\* The pages of a partition, f, are empty, hold every block of an image, hold
\* what a version names (a header only leaves what was there), are what a
\* descriptor says they are.
Erased(f) == \A k \in Pages : f[k] = ErasedPage

HoldsAll(f, image) ==
  /\ image \in Images /\ NumBlocks[image] - 1 \in Pages
  /\ \A k \in 1 .. NumBlocks[image] - 1 : f[k] = [from |-> image, block |-> k]

Holds(f, version) ==
  \/ HoldsAll(f, version)
  \/ /\ version \in Images /\ NumBlocks[version] = 1
     /\ \E image \in Images : HoldsAll(f, image)

Whole(d, p, f) == d.is_consistent[p] => Erased(f) \/ Holds(f, d.app_version[p])

\* A partition the stored data says is consistent is empty or holds every
\* block of the image the data names, or, if that was a header only, of an image
\* before it, whatever requests, verification failures and power losses came in
\* between.
ConsistentIsWhole == \A p \in Partitions : Whole(Stored, p, flash[p])

\* The boot loader never starts a part of an image.
StartsWhole ==
  pc = "application" => Holds(flash[BootPartition], Stored.app_version[BootPartition])

\* A page of a partition changes only while every copy a boot may use says
\* that the partition is inconsistent.
WriteAhead ==
  [][\A p \in Partitions : flash'[p] # flash[p] =>
       \A c \in Copies : health[c] = "valid" => ~copy[c].is_consistent[p]]_vars

Store ==
  INSTANCE BlStore WITH stored <- Stored, wanted <- bl_data

\* The two copies, the page writes a power loss interrupts and the repair at
\* the next start implement a store that is updated at once.
ImplementsStore == Store!Spec

\* When the power stops failing, every repair and every request comes to its
\* end: the boot loader serves a host, starts the application or, unprovisioned,
\* stops.
Recovers ==
  <>[][~PowerLoss]_vars => []<>(pc \in {"serve", "application", "halt"})
=============================================================================

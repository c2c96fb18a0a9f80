-------------------------- MODULE FirmwareInvariant --------------------------
(***************************************************************************)
(* The inductive invariant of FirmwareManager.tla, from which              *)
(* FirmwareProofs.tla proves its properties.                               *)
(***************************************************************************)
EXTENDS FirmwareManager

BothValid ==
  /\ \A c \in Copies : health[c] = "valid"
  /\ copy["main"] = copy["backup"]

\* One copy can always be trusted once there is one at all.
StoreInv ==
  /\ provisioned <=> \E c \in Copies : health[c] = "valid"
  /\ ~provisioned =>
       /\ pc \in {"sanitize", "writeback", "halt"}
       /\ flash = [p \in Partitions |-> [k \in Pages |-> ErasedPage]]
  /\ pc = "halt" => ~provisioned
  /\ pc = "recover" => health[Other(target)] = "valid"
  /\ pc = "recover" /\ target = "backup" => health["backup"] # "valid" \/ copy["main"] # copy["backup"]
  /\ pc = "recover" /\ target = "main" => health["main"] # "valid"
  /\ pc \in {"load", "scan", "erase", "boot", "serve", "program", "application"} => BothValid

WritebackInv ==
  pc = "writeback" =>
    \/ target = "main" /\ BothValid
    \/ target = "main" /\ ~provisioned /\ then = "load" /\ bl_data = Defaults
    \/ target = "backup" /\ provisioned /\ health["main"] = "valid" /\ copy["main"] = bl_data

\* The copy in RAM is the one in flash, except in the middle of a change.
RamInv ==
  /\ pc \in {"boot", "serve", "program", "application"} => bl_data = copy["main"]
  /\ pc \in {"scan", "erase"} =>
       /\ ~wb_needed => bl_data = copy["main"]
       /\ \A p \in Partitions : copy["main"].is_consistent[p] => bl_data.is_consistent[p]
  /\ pc = "erase" =>
       /\ Inconsistent(bl_data) # {}
       /\ \A k \in Pages : k < page => flash[FirstInconsistent][k] = ErasedPage
  /\ pc \in {"boot", "application"} => caller = "boot" /\ Inconsistent(bl_data) = {}
  /\ pc \in {"serve", "program"} => caller = "request"
  /\ pc = "writeback" =>
       /\ then = "return" /\ caller = "boot" => Inconsistent(bl_data) = {}
       /\ then = "program" => caller = "request"
  /\ pc = "application" => flash[BootPartition][1] # ErasedPage

\* An image is being received.
Receiving ==
  /\ alt > 0
  /\ \/ dfu_state = "DNLOAD_IDLE"
     \/ dfu_state = "DNLOAD_SYNC" /\ proc_status = "OK"

Programming == pc = "program" \/ (pc = "writeback" /\ then = "program")

\* The blocks before Written are in the flash.
Written == IF Programming THEN block_cnt - 1 ELSE block_cnt

TransferInv ==
  /\ dfu_state = "DNLOAD_IDLE" => proc_status = "OK"
  /\ Programming => Receiving /\ dfu_state = "DNLOAD_SYNC" /\ block_cnt > 1
  /\ Receiving =>
       /\ pc = "serve" \/ Programming
       /\ img_hdr \in Images /\ NumBlocks[img_hdr] - 1 <= NumPages
       /\ block_cnt \in 1 .. NumBlocks[img_hdr]
       /\ \A k \in Pages : k < Written => flash[alt][k] = [from |-> img_hdr, block |-> k]
       /\ block_cnt > 1 => ~bl_data.is_consistent[alt]
  /\ Receiving /\ FirstBlockNums \subseteq {0} => next_block_num = block_cnt

\* A partition is selected and may get a new descriptor although no block of an
\* image has been written to it.
Settled ==
  /\ pc = "serve" /\ alt > 0
  /\ \/ dfu_state \in {"IDLE", "UPLOAD_IDLE", "MANIFEST_SYNC"}
     \/ Receiving /\ block_cnt = 1

\* It is consistent then: what an earlier transfer left unfinished is erased.
SettledInv ==
  /\ Settled => bl_data.is_consistent[alt]
  /\ pc = "writeback" /\ then = "return" /\ caller = "request" /\ alt > 0 =>
       bl_data.is_consistent[alt]

WholeInv ==
  FirstBlockNums \subseteq {0} =>
    \A p \in Partitions :
      /\ \A c \in Copies : health[c] = "valid" => Whole(copy[c], p, flash[p])
      /\ pc \in {"scan", "erase", "writeback"} => Whole(bl_data, p, flash[p])

IInv == TypeOK /\ StoreInv /\ WritebackInv /\ RamInv /\ TransferInv /\ SettledInv /\ WholeInv
=============================================================================

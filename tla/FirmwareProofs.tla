--------------------------- MODULE FirmwareProofs ---------------------------
(***************************************************************************)
(* Proofs of the safety properties of FirmwareManager and of its           *)
(* refinement of BlStore, for any partitions, pages and images.  Each      *)
(* action preserves each conjunct of IInv.                                 *)
(***************************************************************************)
EXTENDS FirmwareInvariant, WellFoundedInduction, TLAPS

USE DEF vars, control, store, dfu, handler, Partitions, Pages, Copies, Steps

\* A set of partitions that is not empty has a first one.
LEMMA FirstOfType ==
  ASSUME NEW d \in Descriptors, Inconsistent(d) # {}
  PROVE  /\ FirstOf(d) \in Partitions
         /\ ~d.is_consistent[FirstOf(d)]
  <1> DEFINE T == Inconsistent(d)
             R == OpToRel(<, Nat)
  <1>1. T \subseteq Partitions /\ T # {} /\ Partitions \subseteq Nat
    BY FirmwareAssumption DEF Inconsistent
  <1>2. \E x \in T : \A y \in T : ~ (<<y, x>> \in R)
    <2>1. IsWellFoundedOn(R, Nat)
      BY NatLessThanWellFounded
    <2> HIDE DEF R, T
    <2>2. QED
      BY <1>1, <2>1, WFMin
  <1>3. \A x, y \in Nat : ~ (<<y, x>> \in R) => x <= y
    BY DEF OpToRel
  <1>4. FirstOf(d) \in T
    <2>1. \E x \in T : \A y \in T : x <= y
      BY <1>1, <1>2, <1>3
    <2>2. QED
      BY <2>1 DEF FirstOf
  <1>5. QED
    BY <1>1, <1>4 DEF Inconsistent

\* The data of the first provisioning names no inconsistent partition.
LEMMA DefaultsType == Defaults \in Descriptors /\ Inconsistent(Defaults) = {}
  BY FirmwareAssumption DEF Defaults, Descriptors, Versions, Inconsistent

\* All partitions are marked at once.
LEMMA MarkAllType ==
  ASSUME NEW d \in Descriptors,
         NEW e, e = [d EXCEPT !.is_consistent = [p \in Partitions |-> FALSE]]
  PROVE  /\ e \in Descriptors
         /\ \A p \in Partitions : ~e.is_consistent[p]
  BY DEF Descriptors

\* A page is written.
LEMMA PageType ==
  ASSUME NEW q \in Partitions, NEW k \in Pages, NEW c \in PageContents, TypeOK,
         NEW f, f = [flash EXCEPT ![q][k] = c]
  PROVE  /\ f \in [Partitions -> [Pages -> PageContents]]
         /\ f[q][k] = c
         /\ \A i \in Pages : i # k => f[q][i] = flash[q][i]
         /\ \A p \in Partitions : p # q => f[p] = flash[p]
  BY DEF TypeOK

\* Empty and torn pages are pages.
LEMMA PageContentsType ==
  /\ ErasedPage \in PageContents /\ TornPage \in PageContents
  /\ \A image \in Images, k \in Pages : [from |-> image, block |-> k] \in PageContents
  BY FirmwareAssumption DEF ErasedPage, TornPage, PageContents

\* The pages that a step writes, and what it says of them.
LEMMA PagesWritten ==
  ASSUME IInv, pc \in {"erase", "program"},
         NEW q, q = (IF pc = "erase" THEN FirstInconsistent ELSE alt),
         NEW k, k = (IF pc = "erase" THEN page ELSE block_cnt - 1)
  PROVE  /\ q \in Partitions /\ k \in Pages
         /\ \A c \in Copies : ~copy[c].is_consistent[q]
  <1>1. CASE pc = "erase"
    <2>1. Inconsistent(bl_data) # {}
      BY <1>1 DEF IInv, RamInv
    <2>2. q \in Partitions /\ ~bl_data.is_consistent[q]
      BY <1>1, <2>1, FirstOfType DEF IInv, TypeOK, FirstInconsistent
    <2>3. ~copy["main"].is_consistent[q] /\ BothValid
      BY <1>1, <2>2 DEF IInv, RamInv, StoreInv
    <2>4. QED
      BY <1>1, <2>2, <2>3 DEF IInv, TypeOK, BothValid
  <1>2. CASE pc = "program"
    <2>1. /\ alt \in Partitions /\ block_cnt - 1 \in Pages
          /\ ~bl_data.is_consistent[alt]
      BY <1>2, FirmwareAssumption DEF IInv, TypeOK, TransferInv, Receiving, Programming
    <2>2. bl_data = copy["main"] /\ BothValid
      BY <1>2 DEF IInv, RamInv, StoreInv
    <2>3. QED
      BY <1>2, <2>1, <2>2 DEF BothValid
  <1>3. QED
    BY <1>1, <1>2

\* What a descriptor says of a partition outlasts a write to another one.
LEMMA WholeElsewhere ==
  ASSUME NEW d, NEW p, NEW f, NEW g, Whole(d, p, f), g = f \/ ~d.is_consistent[p]
  PROVE  Whole(d, p, g)
  BY DEF Whole

\* The first provisioning starts from an empty flash; everything else only
\* decides what comes next.
LEMMA CheckCopiesIInv == ASSUME IInv, CheckCopies PROVE IInv'
  <1> USE FirmwareAssumption DEF IInv, CheckCopies, Goto, Writeback
  <1>1. TypeOK'
    BY DefaultsType DEF TypeOK, Versions
  <1>2. StoreInv'
    BY DEF TypeOK, StoreInv, WritebackInv, RamInv, BothValid, Other
  <1>3. WritebackInv'
    BY DEF TypeOK, StoreInv, WritebackInv, RamInv, BothValid, Other
  <1>4. RamInv'
    BY DEF TypeOK, StoreInv, WritebackInv, RamInv, BothValid, Inconsistent
  <1>5. TransferInv'
    BY DEF TypeOK, TransferInv, Receiving, Programming, Written, RamInv
  <1>6. WholeInv'
    <2>1. CASE pc' = "writeback"
      <3>1. ~provisioned /\ bl_data' = Defaults /\ UNCHANGED <<health, copy, flash>>
        BY <2>1 DEF TypeOK, StoreInv
      <3>2. \A p \in Partitions : Erased(flash[p])
        BY <3>1 DEF StoreInv, Erased
      <3>3. QED
        BY <3>1, <3>2 DEF WholeInv, Whole, StoreInv
    <2>2. CASE pc' # "writeback"
      BY <2>2 DEF WholeInv
    <2>3. QED
      BY <2>1, <2>2
  <1>7. SettledInv'
    BY DEF TypeOK, SettledInv, Settled, Receiving, RamInv, Inconsistent
  <1>8. QED
    BY <1>1, <1>2, <1>3, <1>4, <1>5, <1>6, <1>7 DEF IInv

\* The copy that is repaired is the one that cannot be trusted.
LEMMA RecoverIInv == ASSUME IInv, Recover PROVE IInv'
  <1> USE FirmwareAssumption DEF IInv, Recover, Goto
  <1>1. TypeOK'
    BY DEF TypeOK, Other
  <1>2. StoreInv'
    BY DEF TypeOK, StoreInv, WritebackInv, RamInv, BothValid, Other
  <1>3. WritebackInv'
    BY DEF TypeOK, StoreInv, WritebackInv, RamInv, BothValid, Other
  <1>4. RamInv'
    BY DEF TypeOK, StoreInv, WritebackInv, RamInv, BothValid, Inconsistent
  <1>5. TransferInv'
    BY DEF TypeOK, TransferInv, Receiving, Programming, Written, RamInv
  <1>6. WholeInv'
    BY DEF TypeOK, WholeInv, StoreInv, Other
  <1>7. SettledInv'
    BY DEF TypeOK, SettledInv, Settled, Receiving, RamInv, Inconsistent
  <1>8. QED
    BY <1>1, <1>2, <1>3, <1>4, <1>5, <1>6, <1>7 DEF IInv

\* The RAM follows the copies.
LEMMA LoadIInv == ASSUME IInv, Load PROVE IInv'
  <1> USE FirmwareAssumption DEF IInv, Load
  <1>1. TypeOK'
    BY DefaultsType DEF TypeOK, Versions
  <1>2. StoreInv'
    BY DEF TypeOK, StoreInv, WritebackInv, RamInv, BothValid, Other
  <1>3. WritebackInv'
    BY DEF TypeOK, StoreInv, WritebackInv, RamInv, BothValid, Other
  <1>4. RamInv'
    BY DEF TypeOK, StoreInv, WritebackInv, RamInv, BothValid, Inconsistent
  <1>5. TransferInv'
    BY DEF TypeOK, TransferInv, Receiving, Programming, Written, RamInv
  <1>6. WholeInv'
    BY DEF TypeOK, WholeInv, StoreInv, BothValid, WritebackInv
  <1>7. SettledInv'
    BY DEF TypeOK, SettledInv, Settled, Receiving, RamInv, Inconsistent
  <1>8. QED
    BY <1>1, <1>2, <1>3, <1>4, <1>5, <1>6, <1>7 DEF IInv

\* The partitions before an inconsistent one are settled.
LEMMA ScanIInv == ASSUME IInv, Scan PROVE IInv'
  <1> USE FirmwareAssumption DEF IInv, Scan, Goto, Writeback, Return
  <1>1. TypeOK'
    BY DefaultsType DEF TypeOK, Versions
  <1>2. StoreInv'
    BY DEF TypeOK, StoreInv, WritebackInv, RamInv, BothValid, Other
  <1>3. WritebackInv'
    BY DEF TypeOK, StoreInv, WritebackInv, RamInv, BothValid, Other
  <1>4. RamInv'
    BY DEF TypeOK, StoreInv, WritebackInv, RamInv, BothValid, Inconsistent
  <1>5. TransferInv'
    BY DEF TypeOK, TransferInv, Receiving, Programming, Written, RamInv
  <1>6. WholeInv'
    BY DEF TypeOK, WholeInv, StoreInv, BothValid, WritebackInv
  <1>7. SettledInv'
    BY DEF TypeOK, SettledInv, Settled, Receiving, RamInv, Inconsistent
  <1>8. QED
    BY <1>1, <1>2, <1>3, <1>4, <1>5, <1>6, <1>7 DEF IInv

\* The partition that is erased is inconsistent in both copies, and consistent in
\* RAM from its last page on, when it is empty.
LEMMA ErasePageIInv == ASSUME IInv, ErasePage PROVE IInv'
  <1> USE FirmwareAssumption DEF IInv, ErasePage
  <1>0. /\ FirstInconsistent \in Partitions /\ ~bl_data.is_consistent[FirstInconsistent]
        /\ \A c \in Copies : ~copy[c].is_consistent[FirstInconsistent]
    <2>1. Inconsistent(bl_data) # {}
      BY DEF RamInv
    <2>2. QED
      BY <2>1, FirstOfType, PagesWritten DEF TypeOK, FirstInconsistent
  <1>f. /\ flash' \in [Partitions -> [Pages -> PageContents]]
        /\ flash'[FirstInconsistent][page] = ErasedPage
        /\ \A i \in Pages : i # page =>
             flash'[FirstInconsistent][i] = flash[FirstInconsistent][i]
        /\ \A p \in Partitions : p # FirstInconsistent => flash'[p] = flash[p]
    BY <1>0, PageType, PageContentsType DEF TypeOK
  <1>b. /\ bl_data' \in Descriptors /\ bl_data'.app_version = bl_data.app_version
        /\ \A p \in Partitions : p # FirstInconsistent =>
             bl_data'.is_consistent[p] = bl_data.is_consistent[p]
        /\ page < NumPages => bl_data' = bl_data
        /\ page = NumPages => bl_data'.is_consistent[FirstInconsistent]
    <2>1. CASE page < NumPages
      BY <2>1 DEF TypeOK
    <2>2. CASE page = NumPages
      <3>1. bl_data' = [bl_data EXCEPT !.is_consistent[FirstInconsistent] = TRUE]
        BY <2>2 DEF TypeOK
      <3>2. bl_data' \in Descriptors /\ bl_data'.app_version = bl_data.app_version
        BY <1>0, <3>1 DEF TypeOK, Descriptors
      <3>3. bl_data'.is_consistent = [bl_data.is_consistent EXCEPT ![FirstInconsistent] = TRUE]
        BY <1>0, <3>1 DEF TypeOK, Descriptors
      <3>4. bl_data.is_consistent \in [Partitions -> BOOLEAN]
        BY DEF TypeOK, Descriptors
      <3>5. QED
        BY <1>0, <2>2, <3>2, <3>3, <3>4
    <2>3. QED
      BY <2>1, <2>2 DEF TypeOK
  <1>1. TypeOK'
    <2>1. pc' \in Steps /\ page' \in Pages
      BY DEF TypeOK
    <2>w. wb_needed' \in BOOLEAN
      BY Zenon DEF TypeOK
    <2>2. QED
      BY <1>f, <1>b, <2>1, <2>w DEF TypeOK
  <1>2. StoreInv'
    BY DEF TypeOK, StoreInv, WritebackInv, RamInv, BothValid, Other
  <1>3. WritebackInv'
    BY DEF TypeOK, StoreInv, WritebackInv, RamInv, BothValid, Other
  <1>4. RamInv'
    <2>1. CASE page < NumPages
      <3>1. FirstInconsistent' = FirstInconsistent /\ bl_data' = bl_data
        BY <1>b, <2>1 DEF FirstInconsistent
      <3>2. \A i \in Pages : i < page' => flash'[FirstInconsistent][i] = ErasedPage
        BY <1>f, <2>1 DEF TypeOK, RamInv
      <3>3. QED
        BY <2>1, <3>1, <3>2 DEF TypeOK, RamInv
    <2>2. CASE page = NumPages
      <3>1. pc' = "scan" /\ wb_needed' /\ UNCHANGED copy
        BY <2>2 DEF TypeOK
      <3>2. \A p \in Partitions : copy["main"].is_consistent[p] => bl_data'.is_consistent[p]
        BY <1>b, <2>2 DEF RamInv
      <3>3. QED
        BY <3>1, <3>2 DEF RamInv
    <2>3. QED
      BY <2>1, <2>2 DEF TypeOK
  <1>5. TransferInv'
    BY DEF TypeOK, TransferInv, Receiving, Programming, Written, RamInv
  <1>6. WholeInv'
    <2>1. page = NumPages => Erased(flash'[FirstInconsistent])
      BY <1>f DEF TypeOK, RamInv, Erased
    <2>2. ASSUME FirstBlockNums \subseteq {0}, NEW p \in Partitions
          PROVE  /\ \A c \in Copies : health[c] = "valid" => Whole(copy[c], p, flash'[p])
                 /\ Whole(bl_data', p, flash'[p])
      <3>1. \A c \in Copies : health[c] = "valid" => Whole(copy[c], p, flash'[p])
        BY <1>0, <1>f, <2>2, WholeElsewhere DEF WholeInv
      <3>2. CASE p = FirstInconsistent
        BY <1>0, <1>b, <2>1, <3>1, <3>2 DEF Whole, TypeOK
      <3>3. CASE p # FirstInconsistent
        BY <1>b, <1>f, <2>2, <3>1, <3>3 DEF WholeInv, Whole
      <3>4. QED
        BY <3>1, <3>2, <3>3
    <2>3. QED
      BY <2>2 DEF WholeInv
  <1>7. SettledInv'
    BY DEF TypeOK, SettledInv, Settled, Receiving, RamInv, Inconsistent
  <1>8. QED
    BY <1>1, <1>2, <1>3, <1>4, <1>5, <1>6, <1>7 DEF IInv

\* The second copy is written when the first can be trusted.
LEMMA WriteCopyIInv == ASSUME IInv, WriteCopy PROVE IInv'
  <1> USE FirmwareAssumption DEF IInv, WriteCopy, Return
  <1>1. TypeOK'
    BY DefaultsType DEF TypeOK, Versions
  <1>2. StoreInv'
    BY DEF TypeOK, StoreInv, WritebackInv, RamInv, BothValid, Other
  <1>3. WritebackInv'
    BY DEF TypeOK, StoreInv, WritebackInv, RamInv, BothValid, Other
  <1>4. RamInv'
    BY DEF TypeOK, StoreInv, WritebackInv, RamInv, BothValid, Inconsistent
  <1>5. TransferInv'
    BY DEF TypeOK, TransferInv, Receiving, Programming, Written, RamInv
  <1>6. WholeInv'
    BY DEF TypeOK, WholeInv, StoreInv, BothValid, WritebackInv
  <1>7. SettledInv'
    BY DEF TypeOK, SettledInv, Settled, Receiving, RamInv, Inconsistent
  <1>8. QED
    BY <1>1, <1>2, <1>3, <1>4, <1>5, <1>6, <1>7 DEF IInv

\* Every partition is consistent when an application may start.
LEMMA BootIInv == ASSUME IInv, Boot PROVE IInv'
  <1> USE FirmwareAssumption DEF IInv, Boot, StartServing, Goto
  <1>1. TypeOK'
    BY DefaultsType DEF TypeOK, Versions
  <1>2. StoreInv'
    BY DEF TypeOK, StoreInv, WritebackInv, RamInv, BothValid, Other
  <1>3. WritebackInv'
    BY DEF TypeOK, StoreInv, WritebackInv, RamInv, BothValid, Other
  <1>4. RamInv'
    BY DEF TypeOK, StoreInv, RamInv, Inconsistent, ErasedPage
  <1>5. TransferInv'
    BY DEF TypeOK, TransferInv, Receiving, Programming, Written, RamInv
  <1>6. WholeInv'
    BY DEF TypeOK, WholeInv, StoreInv, BothValid, WritebackInv
  <1>7. SettledInv'
    BY DEF TypeOK, SettledInv, Settled, Receiving, RamInv, Inconsistent
  <1>8. QED
    BY <1>1, <1>2, <1>3, <1>4, <1>5, <1>6, <1>7 DEF IInv

\* The partition that is written is inconsistent in both copies.
LEMMA ProgramPageIInv == ASSUME IInv, ProgramPage PROVE IInv'
  <1> USE FirmwareAssumption DEF IInv, ProgramPage, Goto
  <1>0. /\ alt \in Partitions /\ block_cnt - 1 \in Pages
        /\ \A c \in Copies : ~copy[c].is_consistent[alt]
    BY PagesWritten DEF TypeOK
  <1>f. /\ flash' \in [Partitions -> [Pages -> PageContents]]
        /\ proc_status' = "OK" =>
             flash'[alt][block_cnt - 1] = [from |-> img_hdr, block |-> block_cnt - 1]
        /\ \A i \in Pages : i # block_cnt - 1 => flash'[alt][i] = flash[alt][i]
        /\ \A p \in Partitions : p # alt => flash'[p] = flash[p]
    <2>1. img_hdr \in Images
      BY DEF TransferInv, Programming
    <2>2. PICK c \in PageContents :
            /\ flash' = [flash EXCEPT ![alt][block_cnt - 1] = c]
            /\ proc_status' = "OK" => c = [from |-> img_hdr, block |-> block_cnt - 1]
      BY <1>0, <2>1, PageContentsType
    <2>3. QED
      BY <1>0, <2>2 DEF TypeOK
  <1>1. TypeOK'
    BY <1>f DEF TypeOK
  <1>2. StoreInv'
    BY DEF TypeOK, StoreInv, WritebackInv, RamInv, BothValid, Other
  <1>3. WritebackInv'
    BY DEF TypeOK, StoreInv, WritebackInv, RamInv, BothValid, Other
  <1>4. RamInv'
    BY DEF TypeOK, StoreInv, WritebackInv, RamInv, BothValid, Inconsistent
  <1>5. TransferInv'
    <2>1. /\ Receiving /\ block_cnt > 1 /\ img_hdr \in Images
          /\ NumBlocks[img_hdr] - 1 <= NumPages /\ block_cnt \in 1 .. NumBlocks[img_hdr]
          /\ ~bl_data.is_consistent[alt]
          /\ \A i \in Pages : i < block_cnt - 1 => flash[alt][i] = [from |-> img_hdr, block |-> i]
          /\ FirstBlockNums \subseteq {0} => next_block_num = block_cnt
      BY DEF TransferInv, Programming, Written
    <2>2. proc_status' = "OK" => \A i \in Pages : i < block_cnt =>
            flash'[alt][i] = [from |-> img_hdr, block |-> i]
      BY <1>0, <1>f, <2>1 DEF TypeOK
    <2>3. dfu_state # "DNLOAD_IDLE"
      BY DEF TransferInv, Programming
    <2>4. QED
      BY <2>1, <2>2, <2>3 DEF TransferInv, Receiving, Programming, Written
  <1>6. WholeInv'
    BY <1>0, <1>f, WholeElsewhere DEF WholeInv
  <1>7. SettledInv'
    BY DEF SettledInv, Settled, Receiving, TransferInv, Programming
  <1>8. QED
    BY <1>1, <1>2, <1>3, <1>4, <1>5, <1>6, <1>7 DEF IInv

\* A transfer that is left behind is over.
LEMMA SetAltSettingIInv ==
  ASSUME NEW a \in 0 .. NumPartitions, IInv, SetAltSetting(a)
  PROVE  IInv'
  <1> USE FirmwareAssumption DEF IInv, SetAltSetting, Sanitize
  <1>1. TypeOK'
    BY DefaultsType DEF TypeOK, Versions
  <1>2. StoreInv'
    BY DEF TypeOK, StoreInv, WritebackInv, RamInv, BothValid, Other
  <1>3. WritebackInv'
    BY DEF TypeOK, StoreInv, WritebackInv, RamInv, BothValid, Other
  <1>4. RamInv'
    BY DEF TypeOK, StoreInv, WritebackInv, RamInv, BothValid, Inconsistent
  <1>5. TransferInv'
    BY DEF TypeOK, TransferInv, Receiving, Programming, Written, RamInv
  <1>6. WholeInv'
    BY DEF TypeOK, WholeInv, StoreInv, BothValid, WritebackInv
  <1>7. SettledInv'
    BY DEF TypeOK, SettledInv, Settled, Receiving, RamInv, Inconsistent
  <1>8. QED
    BY <1>1, <1>2, <1>3, <1>4, <1>5, <1>6, <1>7 DEF IInv

\* A write-back of what both copies hold, or of no claim at all.
LEMMA QfmRequestIInv ==
  ASSUME NEW num \in Nat, IInv, QfmRequest(num)
  PROVE  IInv'
  <1> USE FirmwareAssumption DEF IInv, QfmRequest, Accept, Count, Writeback
  <1>b. /\ bl_data' \in Descriptors
        /\ pc' = "writeback" => bl_data' = bl_data \/ \A p \in Partitions : ~bl_data'.is_consistent[p]
    BY MarkAllType DEF TypeOK
  <1>s. sys_info_rsp_pending' \in BOOLEAN
    BY Zenon DEF TypeOK
  <1>1. TypeOK'
    BY <1>b, <1>s DEF TypeOK, Versions
  <1>2. StoreInv'
    BY DEF TypeOK, StoreInv, WritebackInv, RamInv, BothValid, Other
  <1>3. WritebackInv'
    BY DEF TypeOK, StoreInv, WritebackInv, RamInv, BothValid, Other
  <1>4. RamInv'
    BY DEF TypeOK, StoreInv, WritebackInv, RamInv, BothValid, Inconsistent
  <1>5. TransferInv'
    BY DEF TypeOK, TransferInv, Receiving, Programming, Written, RamInv
  <1>6. WholeInv'
    <2>1. bl_data = copy["main"] /\ health["main"] = "valid"
      BY DEF RamInv, StoreInv, BothValid
    <2>2. QED
      BY <1>b, <2>1 DEF WholeInv, Whole
  <1>7. SettledInv'
    BY DEF TypeOK, SettledInv, Settled, Receiving, RamInv, Inconsistent
  <1>8. QED
    BY <1>1, <1>2, <1>3, <1>4, <1>5, <1>6, <1>7 DEF IInv

\* A transfer starts with a header that fits and no page written.
LEMMA QfuHeaderIInv ==
  ASSUME NEW num \in Nat, IInv, QfuHeader(num)
  PROVE  IInv'
  <1> USE FirmwareAssumption DEF IInv, QfuHeader, Accept, Count
  <1>1. TypeOK'
    BY DefaultsType DEF TypeOK, Versions
  <1>2. StoreInv'
    BY DEF TypeOK, StoreInv, WritebackInv, RamInv, BothValid, Other
  <1>3. WritebackInv'
    BY DEF TypeOK, StoreInv, WritebackInv, RamInv, BothValid, Other
  <1>4. RamInv'
    BY DEF TypeOK, StoreInv, WritebackInv, RamInv, BothValid, Inconsistent
  <1>5. TransferInv'
    BY DEF TypeOK, TransferInv, Receiving, Programming, Written, RamInv
  <1>6. WholeInv'
    BY DEF TypeOK, WholeInv, StoreInv, BothValid, WritebackInv
  <1>7. SettledInv'
    <2>1. dfu_state = "IDLE"
      BY DEF TransferInv, Receiving
    <2>2. bl_data.is_consistent[alt] /\ UNCHANGED <<pc, alt, bl_data>>
      BY <2>1 DEF SettledInv, Settled
    <2>3. QED
      BY <2>2 DEF SettledInv
  <1>8. QED
    BY <1>1, <1>2, <1>3, <1>4, <1>5, <1>6, <1>7 DEF IInv

\* A block is written behind the mark of the first.
LEMMA QfuBlockIInv ==
  ASSUME NEW num \in Nat, IInv, QfuBlock(num)
  PROVE  IInv'
  <1> USE FirmwareAssumption DEF IInv, QfuBlock, Accept, Count, Goto, Sanitize, Writeback
  <1>0. Receiving /\ alt \in Partitions /\ dfu_state = "DNLOAD_IDLE"
    BY DEF Receiving, TypeOK
  <1>b. /\ bl_data' \in Descriptors
        /\ \A p \in Partitions : bl_data'.is_consistent[p] => bl_data.is_consistent[p]
        /\ bl_data'.app_version = bl_data.app_version
        /\ pc' = "writeback" => ~bl_data'.is_consistent[alt]
        /\ bl_data' # bl_data => pc' = "writeback"
    <2>1. CASE pc' # "writeback"
      BY <2>1, <1>0 DEF TypeOK
    <2>2. CASE pc' = "writeback"
      <3>1. bl_data' = [bl_data EXCEPT !.is_consistent[alt] = FALSE]
        BY <2>2
      <3>2. QED
        BY <1>0, <2>2, <3>1 DEF TypeOK, Descriptors
    <2>3. QED
      BY <2>1, <2>2
  <1>1. TypeOK'
    BY <1>b DEF TypeOK, Versions
  <1>2. StoreInv'
    BY DEF TypeOK, StoreInv, WritebackInv, RamInv, BothValid, Other
  <1>3. WritebackInv'
    BY DEF TypeOK, StoreInv, WritebackInv, RamInv, BothValid, Other
  <1>4. RamInv'
    BY DEF TypeOK, StoreInv, WritebackInv, RamInv, BothValid, Inconsistent
  <1>5. TransferInv'
    <2>1. /\ img_hdr \in Images /\ NumBlocks[img_hdr] \in Nat
          /\ NumBlocks[img_hdr] - 1 <= NumPages /\ block_cnt \in 1 .. NumBlocks[img_hdr]
          /\ block_cnt > 1 => ~bl_data.is_consistent[alt]
          /\ \A i \in Pages : i < block_cnt => flash[alt][i] = [from |-> img_hdr, block |-> i]
          /\ FirstBlockNums \subseteq {0} => next_block_num = block_cnt
          /\ proc_status = "OK"
      BY <1>0 DEF TransferInv, Programming, Written, TypeOK
    <2>2. CASE proc_status' = "ERR"
      BY <2>2, <1>0 DEF TransferInv, Receiving, Programming
    <2>3. CASE proc_status' # "ERR"
      <3>1. /\ block_cnt < NumBlocks[img_hdr] /\ block_cnt' = block_cnt + 1
            /\ next_block_num' = next_block_num + 1
            /\ pc' = "program" \/ (pc' = "writeback" /\ then' = "program")
            /\ ~bl_data'.is_consistent[alt] /\ proc_status' = "OK"
        BY <1>0, <1>b, <2>1, <2>3 DEF TypeOK
      <3>2. Programming' /\ Receiving' /\ Written' = block_cnt
        BY <3>1, <1>0 DEF Programming, Receiving, Written, TypeOK
      <3>3. QED
        BY <2>1, <3>1, <3>2 DEF TransferInv, TypeOK
    <2>4. QED
      BY <2>2, <2>3
  <1>6. WholeInv'
    <2>1. bl_data = copy["main"] /\ health["main"] = "valid"
      BY DEF RamInv, StoreInv, BothValid
    <2>2. QED
      BY <1>b, <2>1 DEF WholeInv, Whole
  <1>7. SettledInv'
    BY DEF TypeOK, SettledInv, Settled, Receiving, RamInv, Inconsistent
  <1>8. QED
    BY <1>1, <1>2, <1>3, <1>4, <1>5, <1>6, <1>7 DEF IInv

\* The partition is consistent when as many blocks have come as the header says,
\* if the number of the last tells how many they are.
LEMMA FinalizeIInv == ASSUME IInv, Finalize PROVE IInv'
  <1> USE FirmwareAssumption DEF IInv, Finalize, Complete, Sanitize, Writeback
  <1>b. /\ bl_data' \in Descriptors
        /\ bl_data' # bl_data =>
             /\ Receiving /\ alt \in Partitions /\ next_block_num = NumBlocks[img_hdr]
             /\ bl_data'.app_version[alt] = img_hdr
             /\ \A p \in Partitions : p # alt =>
                  /\ bl_data'.is_consistent[p] = bl_data.is_consistent[p]
                  /\ bl_data'.app_version[p] = bl_data.app_version[p]
    <2>1. CASE bl_data' = bl_data
      BY <2>1 DEF TypeOK
    <2>2. CASE bl_data' # bl_data
      <3>1. /\ Receiving /\ alt \in Partitions /\ next_block_num = NumBlocks[img_hdr]
            /\ bl_data' = [bl_data EXCEPT !.is_consistent[alt] = TRUE,
                             !.app_version[alt] = img_hdr, !.active_partition = alt]
        BY <2>2 DEF TypeOK, Receiving
      <3>2. img_hdr \in Versions
        BY DEF TypeOK
      <3>3. QED
        BY <3>1, <3>2 DEF TypeOK, Descriptors
    <2>3. QED
      BY <2>1, <2>2
  <1>1. TypeOK'
    BY <1>b DEF TypeOK, Versions
  <1>2. StoreInv'
    BY DEF TypeOK, StoreInv, WritebackInv, RamInv, BothValid, Other
  <1>3. WritebackInv'
    BY DEF TypeOK, StoreInv, WritebackInv, RamInv, BothValid, Other
  <1>4. RamInv'
    BY DEF TypeOK, StoreInv, WritebackInv, RamInv, BothValid, Inconsistent
  <1>5. TransferInv'
    BY DEF TypeOK, TransferInv, Receiving, Programming, Written, RamInv
  <1>6. WholeInv'
    <2>1. bl_data = copy["main"] /\ health["main"] = "valid"
      BY DEF RamInv, StoreInv, BothValid
    <2>2. ASSUME FirstBlockNums \subseteq {0}, bl_data' # bl_data
          PROVE  Erased(flash[alt]) \/ Holds(flash[alt], img_hdr)
      <3>1. /\ img_hdr \in Images /\ NumBlocks[img_hdr] \in Nat
            /\ NumBlocks[img_hdr] - 1 <= NumPages /\ NumBlocks[img_hdr] = block_cnt
            /\ \A i \in Pages : i < block_cnt => flash[alt][i] = [from |-> img_hdr, block |-> i]
        BY <1>b, <2>2 DEF TransferInv, Programming, Written
      <3>2. CASE NumBlocks[img_hdr] > 1
        BY <3>1, <3>2 DEF Holds, HoldsAll
      <3>3. CASE NumBlocks[img_hdr] = 1
        <4>1. bl_data.is_consistent[alt]
          BY <1>b, <2>2, <3>1, <3>3 DEF SettledInv, Settled
        <4>2. Erased(flash[alt]) \/ Holds(flash[alt], bl_data.app_version[alt])
          BY <1>b, <2>1, <2>2, <4>1 DEF WholeInv, Whole
        <4>3. \A f, v : Holds(f, v) => \E image \in Images : HoldsAll(f, image)
          BY DEF Holds, HoldsAll
        <4>4. \A f : (\E image \in Images : HoldsAll(f, image)) => Holds(f, img_hdr)
          BY <3>1, <3>3 DEF Holds
        <4>5. QED
          BY <4>2, <4>3, <4>4
      <3>4. QED
        BY <3>1, <3>2, <3>3, FirmwareAssumption
    <2>3. QED
      BY <1>b, <2>1, <2>2 DEF WholeInv, Whole
  <1>7. SettledInv'
    <2>1. CASE alt = 0
      BY <2>1 DEF SettledInv, Settled
    <2>2. CASE alt > 0 /\ Complete
      <3>1. bl_data' = [bl_data EXCEPT !.is_consistent[alt] = TRUE,
                          !.app_version[alt] = img_hdr, !.active_partition = alt]
        BY <2>2
      <3>2. alt \in Partitions
        BY <2>2 DEF TypeOK
      <3>3. bl_data'.is_consistent[alt] /\ UNCHANGED alt
        BY <3>1, <3>2 DEF TypeOK, Descriptors
      <3>4. QED
        BY <3>3 DEF SettledInv, Settled
    <2>3. CASE alt > 0 /\ ~Complete
      BY <2>3 DEF SettledInv, Settled
    <2>4. QED
      BY <2>1, <2>2, <2>3 DEF TypeOK
  <1>8. QED
    BY <1>1, <1>2, <1>3, <1>4, <1>5, <1>6, <1>7 DEF IInv

\* An error ends a transfer.
LEMMA SetErrIInv == ASSUME IInv, pc = "serve", SetErr PROVE IInv'
  <1> USE FirmwareAssumption DEF IInv, SetErr
  <1>1. TypeOK'
    BY DEF TypeOK, Versions
  <1>2. StoreInv' /\ WritebackInv'
    BY DEF TypeOK, StoreInv, WritebackInv, BothValid
  <1>3. RamInv'
    BY DEF RamInv
  <1>4. TransferInv'
    BY DEF TypeOK, TransferInv, Receiving, Programming, Written
  <1>5. SettledInv'
    BY DEF SettledInv, Settled, Receiving
  <1>6. WholeInv'
    BY DEF WholeInv
  <1>7. QED
    BY <1>1, <1>2, <1>3, <1>4, <1>5, <1>6

\* An upload reads.
LEMMA ProcessUploadIInv == ASSUME IInv, ProcessUpload PROVE IInv'
  <1> USE FirmwareAssumption DEF IInv, ProcessUpload, SetErr
  <1>1. TypeOK'
    BY DefaultsType DEF TypeOK, Versions
  <1>2. StoreInv'
    BY DEF TypeOK, StoreInv, WritebackInv, RamInv, BothValid, Other
  <1>3. WritebackInv'
    BY DEF TypeOK, StoreInv, WritebackInv, RamInv, BothValid, Other
  <1>4. RamInv'
    BY DEF TypeOK, StoreInv, WritebackInv, RamInv, BothValid, Inconsistent
  <1>5. TransferInv'
    BY DEF TypeOK, TransferInv, Receiving, Programming, Written, RamInv
  <1>6. WholeInv'
    BY DEF TypeOK, WholeInv, StoreInv, BothValid, WritebackInv
  <1>7. SettledInv'
    BY DEF TypeOK, SettledInv, Settled, Receiving, RamInv, Inconsistent
  <1>8. QED
    BY <1>1, <1>2, <1>3, <1>4, <1>5, <1>6, <1>7 DEF IInv

\* A transfer goes on if its last block was good.
LEMMA GetStatusIInv == ASSUME IInv, GetStatus PROVE IInv'
  <1> USE FirmwareAssumption DEF IInv, GetStatus
  <1>1. TypeOK'
    BY DefaultsType DEF TypeOK, Versions
  <1>2. StoreInv'
    BY DEF TypeOK, StoreInv, WritebackInv, RamInv, BothValid, Other
  <1>3. WritebackInv'
    BY DEF TypeOK, StoreInv, WritebackInv, RamInv, BothValid, Other
  <1>4. RamInv'
    BY DEF TypeOK, StoreInv, WritebackInv, RamInv, BothValid, Inconsistent
  <1>5. TransferInv'
    <2>1. Receiving' => Receiving
      BY DEF Receiving
    <2>2. QED
      BY <2>1 DEF TypeOK, TransferInv, Receiving, Programming, Written, RamInv
  <1>6. WholeInv'
    BY DEF TypeOK, WholeInv, StoreInv, BothValid, WritebackInv
  <1>7. SettledInv'
    BY DEF TypeOK, SettledInv, Settled, Receiving, RamInv, Inconsistent
  <1>8. QED
    BY <1>1, <1>2, <1>3, <1>4, <1>5, <1>6, <1>7 DEF IInv

\* The repair after an error.
LEMMA ClrStatusIInv == ASSUME IInv, ClrStatus PROVE IInv'
  <1> USE FirmwareAssumption DEF IInv, ClrStatus, Sanitize, SetErr
  <1>1. TypeOK'
    BY DefaultsType DEF TypeOK, Versions
  <1>2. StoreInv'
    BY DEF TypeOK, StoreInv, WritebackInv, RamInv, BothValid, Other
  <1>3. WritebackInv'
    BY DEF TypeOK, StoreInv, WritebackInv, RamInv, BothValid, Other
  <1>4. RamInv'
    BY DEF TypeOK, StoreInv, WritebackInv, RamInv, BothValid, Inconsistent
  <1>5. TransferInv'
    BY DEF TypeOK, TransferInv, Receiving, Programming, Written, RamInv
  <1>6. WholeInv'
    BY DEF TypeOK, WholeInv, StoreInv, BothValid, WritebackInv
  <1>7. SettledInv'
    BY DEF TypeOK, SettledInv, Settled, Receiving, RamInv, Inconsistent
  <1>8. QED
    BY <1>1, <1>2, <1>3, <1>4, <1>5, <1>6, <1>7 DEF IInv

\* The repair after a transfer the host gave up.
LEMMA AbortIInv == ASSUME IInv, Abort PROVE IInv'
  <1> USE FirmwareAssumption DEF IInv, Abort, Sanitize, SetErr
  <1>1. TypeOK'
    BY DefaultsType DEF TypeOK, Versions
  <1>2. StoreInv'
    BY DEF TypeOK, StoreInv, WritebackInv, RamInv, BothValid, Other
  <1>3. WritebackInv'
    BY DEF TypeOK, StoreInv, WritebackInv, RamInv, BothValid, Other
  <1>4. RamInv'
    BY DEF TypeOK, StoreInv, WritebackInv, RamInv, BothValid, Inconsistent
  <1>5. TransferInv'
    BY DEF TypeOK, TransferInv, Receiving, Programming, Written, RamInv
  <1>6. WholeInv'
    BY DEF TypeOK, WholeInv, StoreInv, BothValid, WritebackInv
  <1>7. SettledInv'
    BY DEF TypeOK, SettledInv, Settled, Receiving, RamInv, Inconsistent
  <1>8. QED
    BY <1>1, <1>2, <1>3, <1>4, <1>5, <1>6, <1>7 DEF IInv

\* What is lost is the RAM, one page of an inconsistent partition, or the copy that
\* was not the only one to be trusted.
LEMMA PowerLossIInv == ASSUME IInv, PowerLoss PROVE IInv'
  <1> USE FirmwareAssumption DEF IInv, PowerLoss, PoweredOn
  <1>f. /\ flash' \in [Partitions -> [Pages -> PageContents]]
        /\ \A p \in Partitions : flash'[p] # flash[p] =>
             \A c \in Copies : ~copy[c].is_consistent[p]
        /\ pc \notin {"erase", "program"} => flash' = flash
    <2> DEFINE q == IF pc = "erase" THEN FirstInconsistent ELSE alt
               k == IF pc = "erase" THEN page ELSE block_cnt - 1
    <2>1. CASE pc \in {"erase", "program"}
      <3>1. /\ q \in Partitions /\ k \in Pages
            /\ \A c \in Copies : ~copy[c].is_consistent[q]
        BY <2>1, PagesWritten
      <3>2. PICK c \in {flash[q][k], ErasedPage, TornPage} : flash' = [flash EXCEPT ![q][k] = c]
        BY <2>1
      <3>3. c \in PageContents
        BY <3>1, PageContentsType DEF TypeOK
      <3> HIDE DEF q, k
      <3>4. QED
        BY <2>1, <3>1, <3>2, <3>3 DEF TypeOK
    <2>2. CASE pc \notin {"erase", "program"}
      BY <2>2 DEF TypeOK
    <2>3. QED
      BY <2>1, <2>2
  <1>h. /\ health' \in [Copies -> {"blank", "torn", "valid"}]
        /\ \A c \in Copies : health'[c] = "valid" => health[c] = "valid"
    BY DEF TypeOK
  <1>1. TypeOK'
    <2>1. wb_needed' \in BOOLEAN /\ sys_info_rsp_pending' \in BOOLEAN
      BY Zenon DEF TypeOK
    <2>2. /\ page' \in Pages /\ pc' \in Steps /\ img_hdr' \in Versions
          /\ alt' \in 0 .. NumPartitions /\ block_cnt' \in Nat /\ next_block_num' \in Nat
      BY DEF Versions
    <2>3. QED
      BY <1>f, <1>h, <2>1, <2>2, DefaultsType DEF TypeOK
  <1>2. StoreInv'
    BY DEF TypeOK, StoreInv, WritebackInv, RamInv, BothValid, Other
  <1>3. WritebackInv'
    BY DEF TypeOK, StoreInv, WritebackInv, RamInv, BothValid, Other
  <1>4. RamInv'
    BY DEF TypeOK, StoreInv, WritebackInv, RamInv, BothValid, Inconsistent
  <1>5. TransferInv'
    BY DEF TypeOK, TransferInv, Receiving, Programming, Written, RamInv
  <1>6. WholeInv'
    BY <1>f, <1>h, WholeElsewhere DEF WholeInv
  <1>7. SettledInv'
    BY DEF TypeOK, SettledInv, Settled, Receiving, RamInv, Inconsistent
  <1>8. QED
    BY <1>1, <1>2, <1>3, <1>4, <1>5, <1>6, <1>7 DEF IInv

-----------------------------------------------------------------------------
\* A device that was never provisioned satisfies the invariant.
LEMMA InitIInv == Init => IInv
  <1> SUFFICES ASSUME Init PROVE IInv
    OBVIOUS
  <1> USE FirmwareAssumption DEF Init
  <1>1. TypeOK
    <2>1. wb_needed \in BOOLEAN /\ sys_info_rsp_pending \in BOOLEAN /\ provisioned \in BOOLEAN
      BY Zenon DEF Init
    <2>2. flash \in [Partitions -> [Pages -> PageContents]]
      BY PageContentsType
    <2>3. health \in [Copies -> {"blank", "torn", "valid"}] /\ copy \in [Copies -> Descriptors]
      BY DefaultsType
    <2>4. /\ page \in Pages /\ pc \in Steps /\ img_hdr \in Versions
          /\ alt \in 0 .. NumPartitions /\ block_cnt \in Nat /\ next_block_num \in Nat
      BY DEF Versions
    <2>5. QED
      BY <2>1, <2>2, <2>3, <2>4, DefaultsType DEF TypeOK
  <1>2. StoreInv /\ WritebackInv /\ RamInv
    BY DEF StoreInv, WritebackInv, RamInv
  <1>3. TransferInv /\ SettledInv /\ WholeInv
    BY DEF TransferInv, SettledInv, Settled, Receiving, Programming, WholeInv
  <1>4. QED
    BY <1>1, <1>2, <1>3 DEF IInv

\* The invariant is about the variables only.
LEMMA StutterIInv == ASSUME IInv, UNCHANGED vars PROVE IInv'
  <1>1. TypeOK' /\ StoreInv' /\ WritebackInv' /\ RamInv'
    BY DEF IInv, TypeOK, StoreInv, WritebackInv, RamInv, BothValid, FirstInconsistent
  <1>2. TransferInv' /\ SettledInv' /\ WholeInv'
    BY DEF IInv, TransferInv, SettledInv, Settled, Receiving, Programming, Written,
       WholeInv
  <1>3. QED
    BY <1>1, <1>2 DEF IInv

\* Every step keeps the invariant.
LEMMA NextIInv == ASSUME IInv, [Next]_vars PROVE IInv'
  <1>1. CASE Proceed
    BY <1>1, CheckCopiesIInv, RecoverIInv, LoadIInv, ScanIInv, ErasePageIInv,
       WriteCopyIInv, BootIInv, ProgramPageIInv DEF Proceed
  <1>2. CASE ProcessDnload
    <2>1. FirstBlockNums \cup {next_block_num} \subseteq Nat
      BY FirmwareAssumption DEF IInv, TypeOK
    <2>2. QED
      BY <1>2, <2>1, QfmRequestIInv, QfuHeaderIInv, QfuBlockIInv, FinalizeIInv,
         SetErrIInv DEF ProcessDnload
  <1>3. CASE Request /\ ~ProcessDnload
    BY <1>3, SetAltSettingIInv, ProcessUploadIInv, GetStatusIInv, ClrStatusIInv,
       AbortIInv DEF Request
  <1>4. CASE PowerLoss
    BY <1>4, PowerLossIInv
  <1>5. QED
    BY <1>1, <1>2, <1>3, <1>4, StutterIInv DEF Next

\* The inductive invariant holds in every reachable state: in any sequence of
\* requests, repairs and power losses.
THEOREM Invariance == Spec => []IInv
  <1>1. IInv /\ [Next]_vars => IInv'
    BY NextIInv
  <1>2. QED
    BY InitIInv, <1>1, PTL DEF Spec

\* bl_loop_if_not_blank() stops the boot loader in the first provisioning or
\* never: one of the two copies is always intact.
THEOREM NeverLocksOut == Spec => []HaltsOnlyUnprovisioned
  <1>1. IInv => HaltsOnlyUnprovisioned
    BY DEF IInv, StoreInv, HaltsOnlyUnprovisioned
  <1>2. QED
    BY Invariance, <1>1, PTL

\* What a boot would find is the contents of an intact copy.
LEMMA StoredIsACopy ==
  ASSUME IInv
  PROVE  IF provisioned
           THEN \E c \in Copies : health[c] = "valid" /\ Stored = copy[c]
           ELSE Stored = Defaults
  BY DEF IInv, StoreInv, Stored

\* If the host numbers its blocks from zero, a partition that is said to be
\* consistent is empty or holds the whole of its image.
THEOREM ConsistentMeansWhole ==
  ASSUME FirstBlockNums \subseteq {0}
  PROVE  Spec => []ConsistentIsWhole
  <1>1. IInv => ConsistentIsWhole
    <2> SUFFICES ASSUME IInv, NEW p \in Partitions PROVE Whole(Stored, p, flash[p])
      BY DEF ConsistentIsWhole
    <2>1. CASE provisioned
      BY <2>1, StoredIsACopy DEF IInv, WholeInv
    <2>2. CASE ~provisioned
      BY <2>2, FirmwareAssumption DEF IInv, StoreInv, Whole, Erased
    <2>3. QED
      BY <2>1, <2>2
  <1>2. QED
    BY Invariance, <1>1, PTL

\* ... and what it starts is the whole of an image.
THEOREM StartsOnlyWhole ==
  ASSUME FirstBlockNums \subseteq {0}
  PROVE  Spec => []StartsWhole
  <1>1. IInv => StartsWhole
    <2> SUFFICES ASSUME IInv, pc = "application"
                 PROVE  Holds(flash[BootPartition], Stored.app_version[BootPartition])
      BY DEF StartsWhole
    <2> USE FirmwareAssumption
    <2>1. /\ Stored = copy["main"] /\ health["main"] = "valid" /\ bl_data = copy["main"]
          /\ Inconsistent(bl_data) = {} /\ flash[BootPartition][1] # ErasedPage
      BY DEF IInv, StoreInv, RamInv, BothValid, Stored
    <2>2. Stored.is_consistent[BootPartition]
      BY <2>1 DEF Inconsistent
    <2>3. Whole(Stored, BootPartition, flash[BootPartition])
      BY <2>1 DEF IInv, WholeInv
    <2>4. ~Erased(flash[BootPartition])
      BY <2>1 DEF Erased
    <2>5. QED
      BY <2>2, <2>3, <2>4 DEF Whole
  <1>2. QED
    BY Invariance, <1>1, PTL

\* No page of a partition changes before both copies say so.
THEOREM WritesAhead == Spec => WriteAhead
  <1>1. ASSUME IInv, [Next]_vars, NEW p \in Partitions, flash'[p] # flash[p],
               NEW c \in Copies
        PROVE  ~copy[c].is_consistent[p]
    <2>1. CASE ErasePage
      BY <1>1, <2>1, PagesWritten DEF ErasePage, IInv, TypeOK
    <2>2. CASE ProgramPage
      BY <1>1, <2>2, PagesWritten DEF ProgramPage, IInv, TypeOK
    <2>3. CASE PowerLoss
      BY <1>1, <2>3, PagesWritten DEF PowerLoss, IInv, TypeOK
    <2>4. CASE UNCHANGED flash
      BY <1>1, <2>4
    <2>5. QED
      BY <1>1, <2>1, <2>2, <2>3, <2>4 DEF Next, Proceed, Request, ProcessDnload,
         CheckCopies, Recover, Load, Scan, WriteCopy, Boot, SetAltSetting,
         QfmRequest, QfuHeader, QfuBlock, Accept, Finalize, ProcessUpload,
         GetStatus, ClrStatus, Abort, SetErr
  <1>2. IInv /\ [Next]_vars =>
          [\A p \in Partitions : flash'[p] # flash[p] =>
             \A c \in Copies : health[c] = "valid" => ~copy[c].is_consistent[p]]_vars
    BY <1>1
  <1>3. QED
    BY Invariance, <1>2, PTL DEF Spec, WriteAhead

-----------------------------------------------------------------------------
\* The two copies implement a store that is updated at once.

\* Only a write-back of the copy in RAM changes what a boot would find.
LEMMA StoredKept ==
  ASSUME IInv, [Next]_vars, ~(WriteCopy /\ target = "main")
  PROVE  Stored' = Stored /\ provisioned' = provisioned
  <1>1. CASE Recover
    BY <1>1 DEF Recover, IInv, TypeOK, StoreInv, Stored, Other
  <1>2. CASE WriteCopy
    BY <1>2 DEF WriteCopy, IInv, TypeOK, WritebackInv, Stored
  <1>3. CASE PowerLoss
    <2>1. CASE pc \in {"recover", "writeback"}
      <3>1. PICK h \in {health[target], "blank", "torn"} :
              health' = [health EXCEPT ![target] = h] /\ UNCHANGED <<copy, provisioned>>
        BY <1>3, <2>1 DEF PowerLoss
      <3>2. CASE pc = "recover"
        BY <3>1, <3>2 DEF IInv, TypeOK, StoreInv, Stored, Other
      <3>3. CASE pc = "writeback"
        BY <3>1, <3>3 DEF IInv, TypeOK, StoreInv, WritebackInv, BothValid, Stored
      <3>4. QED
        BY <2>1, <3>2, <3>3
    <2>2. CASE pc \notin {"recover", "writeback"}
      BY <1>3, <2>2 DEF PowerLoss, Stored
    <2>3. QED
      BY <2>1, <2>2
  <1>4. CASE UNCHANGED <<health, copy, provisioned>>
    BY <1>4 DEF Stored
  <1>5. QED
    BY <1>1, <1>2, <1>3, <1>4 DEF Next, Proceed, Request, ProcessDnload,
       CheckCopies, Load, Scan, ErasePage, Boot, ProgramPage, SetAltSetting,
       QfmRequest, QfuHeader, QfuBlock, Accept, Finalize, ProcessUpload,
       GetStatus, ClrStatus, Abort, SetErr

\* A step saves the data in the store at once, changes what is wanted, or does
\* neither.
LEMMA StoreStep == ASSUME IInv, [Next]_vars PROVE [Store!Next]_<<provisioned, bl_data, Stored>>
  <1>1. CASE WriteCopy /\ target = "main"
    <2>1. Stored' = bl_data /\ provisioned'
      BY <1>1 DEF WriteCopy, Stored, IInv, TypeOK
    <2>2. provisioned \/ bl_data = Defaults
      BY <1>1 DEF WriteCopy, IInv, WritebackInv, StoreInv, BothValid
    <2>3. QED
      BY <1>1, <2>1, <2>2, NextIInv DEF WriteCopy, Store!Next, Store!Save, IInv, TypeOK
  <1>2. CASE ~(WriteCopy /\ target = "main")
    <2>1. bl_data' \in Descriptors
      BY NextIInv DEF IInv, TypeOK
    <2>2. QED
      BY <1>2, <2>1, StoredKept DEF Store!Next, Store!Change
  <1>3. QED
    BY <1>1, <1>2

\* The two copies are a store whose updates happen at once or not at all
\* (bl_data.c:118-213, 264-292).
THEOREM FirmwareManagerImplementsStore == Spec => ImplementsStore
  <1>1. Init => Store!Init
    BY DEF Init, Store!Init, Stored
  <1>2. IInv /\ [Next]_vars => [Store!Next]_<<provisioned, bl_data, Stored>>
    BY StoreStep
  <1>3. QED
    BY Invariance, <1>1, <1>2, PTL DEF Spec, ImplementsStore, Store!Spec
=============================================================================

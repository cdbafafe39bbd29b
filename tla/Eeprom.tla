------------------------------- MODULE Eeprom -------------------------------
(***************************************************************************)
(* The EEPROM emulation of eeprom.c: two flash pages, each with a status   *)
(* header and a log of (data, virtual address) slots.  The last slot of a  *)
(* virtual address holds its value.  When the active page is full its      *)
(* latest values move to the other page.  One step of this model is one    *)
(* half-word program or one sector erase, so that power can be lost, or    *)
(* the flash can report an error, between any two of them.                 *)
(*                                                                         *)
(* The callers run with the kernel locked (utils_sys_lock_cnt) or before   *)
(* the other threads exist, so there is one actor beside the power.        *)
(***************************************************************************)
EXTENDS Naturals, Sequences, FiniteSets

CONSTANTS
  Addr,           \* virtual addresses the callers read and write
  Data,           \* 16-bit values, abstracted to a small set
  Blank,          \* the value 0xFFFF: a half-word that was never programmed
  NoAddr,         \* the virtual address 0xFFFF (prohibited to callers)
  NotFound,       \* EE_ReadVariable found no slot of the address
  VirtAddVarTab,  \* the addresses a page transfer moves, in table order
  Slots,          \* slots of a page after its header (PAGE_SIZE / 4 - 1)
  MaxWrites,      \* bound on calls of EE_WriteVariable
  MaxLosses,      \* bound on power losses
  MaxErrors       \* bound on flash operations that report an error

ASSUME EepromAssumption ==
  /\ Blank \in Data
  /\ NoAddr \notin Addr
  /\ NotFound \notin Data
  /\ VirtAddVarTab \in Seq(Addr)
  /\ Slots \in Nat \ {0}
  /\ MaxWrites \in Nat /\ MaxLosses \in Nat /\ MaxErrors \in Nat

VARIABLES
  hdr,       \* page status, the first half-word of each page
  log,       \* programmed slots of each page, oldest first
  pc,        \* where the running EE_ function stands
  op,        \* which one it is
  idx,       \* VarIdx of the transfer loop
  req,       \* arguments of EE_WriteVariable
  half,      \* the slot's data is programmed, its address is not yet
  tail,      \* page-level flash operations the function has left
  status,    \* what the last call returned
  degraded,  \* history: the environment struck where there is no recovery
  writes, losses, errors

ctl == <<pc, op, idx, req, half, tail, status>>
env == <<degraded, writes, losses, errors>>
vars == <<hdr, log, ctl, env>>

Page == {0, 1}
Other(p) == 1 - p
PageStatus == {"ERASED", "RECEIVE_DATA", "VALID_PAGE"}
Slot == [addr : Addr \cup {NoAddr}, data : Data]
FlashOp == [do : {"erase", "valid"}, page : Page]
Result == {"FLASH_COMPLETE", "FLASH_ERROR", "PAGE_FULL", "NO_VALID_PAGE"}

NoPage == 2
NoReq == [addr |-> NoAddr, data |-> Blank]
NB_OF_VAR == Len(VirtAddVarTab)
Erase(p) == [do |-> "erase", page |-> p]
Valid(p) == [do |-> "valid", page |-> p]

(* Flash programming clears bits and never sets one: VALID_PAGE is 0x0000, *)
(* so a valid header stays valid until its sector is erased.               *)
Program(old, new) == IF old = "VALID_PAGE" THEN old ELSE new

-----------------------------------------------------------------------------
(* Finding the pages and reading.                                          *)

ReadPage ==
  IF hdr[0] = "VALID_PAGE" THEN 0
  ELSE IF hdr[1] = "VALID_PAGE" THEN 1 ELSE NoPage

MutantWritePage == ReadPage

WritePage ==
  IF hdr[1] = "VALID_PAGE"
  THEN IF hdr[0] = "RECEIVE_DATA" THEN 0 ELSE 1
  ELSE IF hdr[0] = "VALID_PAGE"
       THEN IF hdr[1] = "RECEIVE_DATA" THEN 1 ELSE 0
       ELSE NoPage

IndexesOf(s, v) == {i \in 1..Len(s) : s[i].addr = v}

(* The scan of EE_ReadVariable from the end of a page: last write wins.    *)
Latest(s, v) ==
  IF IndexesOf(s, v) = {}
  THEN NotFound
  ELSE s[CHOOSE i \in IndexesOf(s, v) : \A j \in IndexesOf(s, v) : j <= i].data

(* Every caller treats NO_VALID_PAGE as a failed read.                     *)
EE_ReadVariable(v) ==
  IF ReadPage = NoPage THEN NotFound ELSE Latest(log[ReadPage], v)

-----------------------------------------------------------------------------
Return(result) ==
  /\ pc' = "idle"
  /\ status' = result
  /\ op' = "none" /\ idx' = 1 /\ req' = NoReq /\ half' = FALSE /\ tail' = <<>>

(* EE_VerifyPageFullWriteVariable: the data half-word, then the address.   *)
(* A slot is free iff its 32 bits are all ones, so that programming Blank  *)
(* as data leaves the slot free until its address is programmed.           *)
MutantCanPut == WritePage # NoPage /\ (half \/ Len(log[WritePage]) <= Slots)

CanPut == WritePage # NoPage /\ (half \/ Len(log[WritePage]) < Slots)

PutData(d) ==
  /\ CanPut /\ ~half
  /\ half' = TRUE
  /\ log' = IF d = Blank THEN log
            ELSE [log EXCEPT ![WritePage] =
                    Append(@, [addr |-> NoAddr, data |-> d])]

PutAddr(v, d) ==
  /\ CanPut /\ half
  /\ log' = [log EXCEPT ![WritePage] =
               IF d = Blank THEN Append(@, [addr |-> v, data |-> d])
               ELSE [@ EXCEPT ![Len(@)] = [addr |-> v, data |-> d]]]

-----------------------------------------------------------------------------
(* EE_WriteVariable: into the active page, or through EE_PageTransfer.     *)

EE_WriteVariable(v, d) ==
  /\ pc = "idle"
  /\ writes < MaxWrites
  /\ writes' = writes + 1
  /\ req' = [addr |-> v, data |-> d]
  /\ pc' = "put"
  /\ op' = "write"
  /\ UNCHANGED <<hdr, log, idx, half, tail, status, degraded, losses, errors>>

(* The requested value goes to the active page (op = "write") or to the    *)
(* first slot of the page being filled (op = "transfer").                  *)
PutRequestData ==
  /\ pc = "put"
  /\ PutData(req.data)
  /\ UNCHANGED <<hdr, pc, op, idx, req, tail, status, env>>

PutRequestAddr ==
  /\ pc = "put"
  /\ PutAddr(req.addr, req.data)
  /\ \/ /\ op = "write"
        /\ Return("FLASH_COMPLETE")
     \/ /\ op = "transfer"
        /\ pc' = "copy"
        /\ half' = FALSE
        /\ UNCHANGED <<op, idx, req, tail, status>>
  /\ UNCHANGED <<hdr, env>>

(* The active page is full and EE_PageTransfer begins; without a valid     *)
(* page, or with no room in the receiving page either, the write fails.    *)
PutFails ==
  /\ pc = "put" /\ ~CanPut
  /\ \/ /\ op = "write" /\ WritePage # NoPage
        /\ pc' = "mark"
        /\ op' = "transfer"
        /\ UNCHANGED <<idx, req, half, tail, status>>
     \/ /\ op = "write" /\ WritePage = NoPage
        /\ Return("NO_VALID_PAGE")
     \/ /\ op = "transfer"
        /\ Return("PAGE_FULL")
  /\ UNCHANGED <<hdr, log, env>>

MarkReceive ==
  /\ pc = "mark"
  /\ hdr' = [hdr EXCEPT ![Other(ReadPage)] = Program(@, "RECEIVE_DATA")]
  /\ pc' = "put"
  /\ UNCHANGED <<log, op, idx, req, half, tail, status, env>>

-----------------------------------------------------------------------------
(* The transfer loop, of EE_PageTransfer and of EE_Init.  The first skips  *)
(* the address being written, the second the one its first slot holds.     *)

FirstSlotHolds(v) ==
  /\ log[WritePage] # <<>>
  /\ log[WritePage][1].addr = v

MutantSkipped(v) == op = "transfer" /\ v = req.addr

Skipped(v) == IF op = "transfer" THEN v = req.addr ELSE FirstSlotHolds(v)

CopyVar == VirtAddVarTab[idx]
CopyNeeded ==
  /\ idx <= NB_OF_VAR
  /\ ~Skipped(CopyVar) /\ EE_ReadVariable(CopyVar) # NotFound

MutantCopySkip ==
  /\ pc = "copy" /\ idx <= NB_OF_VAR /\ ~half /\ ~CopyNeeded
  /\ UNCHANGED <<hdr, log, pc, op, idx, req, half, tail, status, env>>

CopySkip ==
  /\ pc = "copy" /\ idx <= NB_OF_VAR /\ ~half /\ ~CopyNeeded
  /\ idx' = idx + 1
  /\ UNCHANGED <<hdr, log, pc, op, req, half, tail, status, env>>

CopyData ==
  /\ pc = "copy" /\ CopyNeeded
  /\ PutData(EE_ReadVariable(CopyVar))
  /\ UNCHANGED <<hdr, pc, op, idx, req, tail, status, env>>

CopyAddr ==
  /\ pc = "copy" /\ idx <= NB_OF_VAR
  /\ PutAddr(CopyVar, EE_ReadVariable(CopyVar))
  /\ half' = FALSE
  /\ idx' = idx + 1
  /\ UNCHANGED <<hdr, pc, op, req, tail, status, env>>

(* The receiving page is full.  EE_Init's caller ignores the result.       *)
CopyFails ==
  /\ pc = "copy" /\ CopyNeeded /\ ~CanPut
  /\ Return("PAGE_FULL")
  /\ degraded' = TRUE
  /\ UNCHANGED <<hdr, log, writes, losses, errors>>

(* EE_PageTransfer erases the old page before it marks the new one valid,  *)
(* EE_Init the other way round.                                            *)
MutantTailNoInitErase ==
  IF op = "transfer" THEN <<Erase(ReadPage), Valid(Other(ReadPage))>>
                     ELSE <<Valid(Other(ReadPage))>>

TransferTail ==
  LET old == ReadPage
      new == Other(ReadPage)
  IN IF op = "transfer" THEN <<Erase(old), Valid(new)>>
                        ELSE <<Valid(new), Erase(old)>>

CopyDone ==
  /\ pc = "copy" /\ idx > NB_OF_VAR
  /\ pc' = "tail"
  /\ tail' = TransferTail
  /\ UNCHANGED <<hdr, log, op, idx, req, half, status, env>>

-----------------------------------------------------------------------------
(* Erasing a page (EE_EraseSectorIfNotEmpty) and marking one valid.        *)

NextFlashOp ==
  \/ /\ Len(tail) > 1
     /\ tail' = Tail(tail)
     /\ UNCHANGED <<pc, op, idx, req, half, status>>
  \/ /\ Len(tail) = 1
     /\ Return("FLASH_COMPLETE")

DoFlashOp ==
  /\ pc = "tail"
  /\ LET p == Head(tail).page IN
     \/ /\ Head(tail).do = "erase"
        /\ hdr' = [hdr EXCEPT ![p] = "ERASED"]
        /\ log' = [log EXCEPT ![p] = <<>>]
     \/ /\ Head(tail).do = "valid"
        /\ hdr' = [hdr EXCEPT ![p] = Program(@, "VALID_PAGE")]
        /\ UNCHANGED log
  /\ NextFlashOp
  /\ UNCHANGED env

-----------------------------------------------------------------------------
(* EE_Init: what it does for each pair of page states.                     *)

EE_Format == <<Erase(0), Valid(0), Erase(1)>>

MutantInitTail(s0, s1) ==
  CASE s0 = "ERASED" /\ s1 = "VALID_PAGE"         -> <<Valid(1)>>
    [] s0 = "ERASED" /\ s1 = "RECEIVE_DATA"       -> <<Erase(0), Valid(1)>>
    [] s0 = "RECEIVE_DATA" /\ s1 = "ERASED"       -> <<Erase(1), Valid(0)>>
    [] s0 = "VALID_PAGE" /\ s1 = "ERASED"         -> <<Valid(0)>>
    [] OTHER                                      -> EE_Format

InitTail(s0, s1) ==
  CASE s0 = "ERASED" /\ s1 = "VALID_PAGE"         -> <<Erase(0)>>
    [] s0 = "ERASED" /\ s1 = "RECEIVE_DATA"       -> <<Erase(0), Valid(1)>>
    [] s0 = "RECEIVE_DATA" /\ s1 = "ERASED"       -> <<Erase(1), Valid(0)>>
    [] s0 = "VALID_PAGE" /\ s1 = "ERASED"         -> <<Erase(1)>>
    [] OTHER                                      -> EE_Format

InitCopies(s0, s1) == {s0, s1} = {"RECEIVE_DATA", "VALID_PAGE"}

EE_Init ==
  /\ pc = "off"
  /\ op' = "init"
  /\ \/ /\ InitCopies(hdr[0], hdr[1])
        /\ pc' = "copy"
        /\ UNCHANGED tail
     \/ /\ ~InitCopies(hdr[0], hdr[1])
        /\ pc' = "tail"
        /\ tail' = InitTail(hdr[0], hdr[1])
  /\ UNCHANGED <<hdr, log, idx, req, half, status, env>>

-----------------------------------------------------------------------------
(* The environment.                                                        *)

PowerOff ==
  /\ pc' = "off"
  /\ op' = "none" /\ idx' = 1 /\ req' = NoReq /\ half' = FALSE /\ tail' = <<>>
  /\ losses < MaxLosses
  /\ losses' = losses + 1
  /\ UNCHANGED <<status, writes, errors>>

BothValid == hdr[0] = "VALID_PAGE" /\ hdr[1] = "VALID_PAGE"

PowerLoss ==
  /\ pc # "off"
  /\ PowerOff
  /\ degraded' = (degraded \/ BothValid)
  /\ UNCHANGED <<hdr, log>>

(* Power fails in the middle of a sector erase: the header already reads   *)
(* as erased and slots are still there.                                    *)
PowerLossInErase ==
  /\ pc = "tail" /\ Head(tail).do = "erase"
  /\ PowerOff
  /\ hdr' = [hdr EXCEPT ![Head(tail).page] = "ERASED"]
  /\ UNCHANGED <<log, degraded>>

Empty(p) == hdr[p] = "ERASED" /\ log[p] = <<>>

(* A program or erase operation reports an error and the function returns  *)
(* it at once, whatever it has done so far.                                *)
FlashError ==
  /\ \/ pc = "put" /\ CanPut
     \/ pc = "mark"
     \/ pc = "copy" /\ CopyNeeded /\ CanPut
     \/ pc = "tail" /\ ~(Head(tail).do = "erase" /\ Empty(Head(tail).page))
  /\ errors < MaxErrors
  /\ errors' = errors + 1
  /\ degraded' = (degraded \/ op # "write")
  /\ Return("FLASH_ERROR")
  /\ UNCHANGED <<hdr, log, writes, losses>>

-----------------------------------------------------------------------------
Init ==
  /\ hdr = [p \in Page |-> "ERASED"]
  /\ log = [p \in Page |-> <<>>]
  /\ pc = "off" /\ op = "none" /\ idx = 1 /\ req = NoReq
  /\ half = FALSE /\ tail = <<>>
  /\ status = "FLASH_COMPLETE"
  /\ degraded = FALSE
  /\ writes = 0 /\ losses = 0 /\ errors = 0

Step ==
  \/ PutRequestData \/ PutRequestAddr \/ PutFails \/ MarkReceive
  \/ CopySkip \/ CopyData \/ CopyAddr \/ CopyFails \/ CopyDone
  \/ DoFlashOp
  \/ EE_Init

Next ==
  \/ \E v \in Addr, d \in Data : EE_WriteVariable(v, d)
  \/ Step
  \/ PowerLoss \/ PowerLossInErase \/ FlashError

(* The processor executes the function it is in; nobody must call write.   *)
Spec == Init /\ [][Next]_vars /\ WF_vars(Step)
-----------------------------------------------------------------------------
(* Properties.                                                             *)

(* Every variable of the two pages and of the running EE_ function has its *)
(* type; no page ever holds more slots than fit between header and end.    *)
TypeOK ==
  /\ hdr \in [Page -> PageStatus]
  /\ log \in [Page -> Seq(Slot)]
  /\ \A p \in Page : Len(log[p]) <= Slots
  /\ pc \in {"off", "idle", "put", "mark", "copy", "tail"}
  /\ op \in {"none", "write", "transfer", "init"}
  /\ idx \in 1..(NB_OF_VAR + 1)
  /\ req \in Slot
  /\ half \in BOOLEAN
  /\ tail \in Seq(FlashOp)
  /\ status \in Result
  /\ degraded \in BOOLEAN
  /\ writes \in 0..MaxWrites /\ losses \in 0..MaxLosses /\ errors \in 0..MaxErrors

(* When EE_PageTransfer marks a page as receiving, that page holds no      *)
(* slot: an old one would come back as a value.                            *)
FreshReceivePage ==
  pc = "mark" /\ ~degraded => Empty(Other(ReadPage))

(* The value EE_Init, run to its end from here, would leave for v.         *)
Recovered(v) ==
  LET r == ReadPage
      o == Other(ReadPage)
      receiving == {p \in Page : hdr[p] = "RECEIVE_DATA"}
  IN CASE BothValid /\ tail # <<>> -> Latest(log[Other(Head(tail).page)], v)
       [] r = NoPage ->
            IF receiving = {} THEN NotFound
            ELSE Latest(log[CHOOSE p \in receiving : TRUE], v)
       [] r # NoPage /\ ~BothValid /\ hdr[o] = "RECEIVE_DATA" ->
            IF log[o] # <<>> /\ log[o][1].addr = v THEN Latest(log[o], v)
            ELSE Latest(log[r], v)
       [] OTHER -> Latest(log[r], v)

(* Between calls exactly one page is valid, the other is empty, and a read *)
(* returns the value that would survive a power loss now.                  *)
ReadsAreDurable ==
  pc = "idle" /\ ~degraded =>
    /\ \E p \in Page : hdr[p] = "VALID_PAGE" /\ Empty(Other(p))
    /\ \A v \in Addr : EE_ReadVariable(v) = Recovered(v)

(* As long as the flash reports no error, a page transfer or a recovery    *)
(* runs out of slots only after so many interrupted recoveries that their  *)
(* leftovers fill a page.                                                  *)
RoomForRecovery ==
  pc = "idle" /\ status = "PAGE_FULL" /\ errors = 0 => (losses + 1) * NB_OF_VAR >= Slots

(* The pages implement the store of EepromStore: no step but the address   *)
(* half-word of a request changes any value, power losses included.        *)
Store == INSTANCE EepromStore WITH
  mem <- [v \in Addr |-> Recovered(v)],
  pending <- IF op \in {"write", "transfer"} THEN req ELSE NoReq,
  up <- pc # "off" /\ op # "init",
  result <- status
ImplementsStore == Store!Spec

(* The same store with no excuse: one power loss after another never costs *)
(* a value, as the comments of EE_Init and EE_EraseSectorIfNotEmpty have   *)
(* it.                                                                     *)
StrictStore == INSTANCE EepromStore WITH
  mem <- [v \in Addr |-> Recovered(v)],
  pending <- IF op \in {"write", "transfer"} THEN req ELSE NoReq,
  up <- pc # "off" /\ op # "init",
  result <- status,
  degraded <- FALSE
ImplementsStrictStore == StrictStore!Spec

(* Whatever is interrupted, EE_Init and EE_WriteVariable come to an end.   *)
CallsReturn == pc # "idle" ~> pc = "idle"
=============================================================================

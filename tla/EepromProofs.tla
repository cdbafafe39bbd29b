---------------------------- MODULE EepromProofs ----------------------------
(***************************************************************************)
(* Proofs about the EEPROM emulation, for any set of addresses and values, *)
(* any table, any page size and any number of writes, power losses and     *)
(* flash errors.                                                           *)
(***************************************************************************)
EXTENDS EepromInv, SequenceTheorems, WellFoundedInduction, TLAPS

(* A non-empty set of slot indexes has a largest one, so that the scan of  *)
(* EE_ReadVariable from the end of the page finds the last write.          *)
LEMMA MaxExists ==
  ASSUME NEW n \in Nat, NEW I, I \subseteq 1..n, I # {}
  PROVE  \E i \in I : \A j \in I : j <= i
<1> DEFINE T == {n - i : i \in I}
<1>1. T \subseteq Nat /\ T # {}
  <2>1. \A i \in I : i \in Nat /\ i <= n
    OBVIOUS
  <2>2. \A i \in I : n - i \in Nat
    BY <2>1
  <2>3. PICK i \in I : TRUE
    OBVIOUS
  <2>4. n - i \in T
    BY <2>3
  <2> QED BY <2>2, <2>4
<1> DEFINE R == OpToRel(<, Nat)
<1>2. \E x \in T : \A y \in T : ~(<<y, x>> \in R)
  <2> HIDE DEF T, R
  <2> QED BY <1>1, WFMin, NatLessThanWellFounded DEF R
<1>3. PICK x \in T : \A y \in T : ~(<<y, x>> \in R)
  BY <1>2
<1>4. PICK i \in I : x = n - i
  OBVIOUS
<1>5. \A j \in I : n - j \in T /\ n - j \in Nat
  OBVIOUS
<1>6. \A j \in I : ~(n - j < n - i)
  BY <1>3, <1>4, <1>5 DEF OpToRel
<1> QED BY <1>6

(* What EE_ReadVariable's scan returns: nothing, or the data of the slot   *)
(* of the address that no other slot of it follows.                        *)
LEMMA LatestIs ==
  ASSUME NEW s \in Seq(Slot), NEW v
  PROVE  /\ IndexesOf(s, v) = {} => Latest(s, v) = NotFound
         /\ IndexesOf(s, v) # {} =>
              \E i \in 1..Len(s) : /\ s[i].addr = v
                                   /\ \A j \in IndexesOf(s, v) : j <= i
                                   /\ Latest(s, v) = s[i].data
<1>1. Len(s) \in Nat /\ IndexesOf(s, v) \subseteq 1..Len(s)
  BY DEF IndexesOf
<1>2. ASSUME IndexesOf(s, v) # {}
      PROVE  \E i \in IndexesOf(s, v) : \A j \in IndexesOf(s, v) : j <= i
  BY <1>1, <1>2, MaxExists
<1>3. ASSUME IndexesOf(s, v) # {}
      PROVE  \E i \in IndexesOf(s, v) :
               /\ \A j \in IndexesOf(s, v) : j <= i
               /\ Latest(s, v) = s[i].data
  BY <1>2, <1>3 DEF Latest
<1> QED BY <1>1, <1>3 DEF Latest, IndexesOf

(* What the scan of a page returns is the data of a slot or NotFound.      *)
LEMMA LatestType ==
  ASSUME NEW s \in Seq(Slot), NEW v
  PROVE  Latest(s, v) \in Data \cup {NotFound}
<1>1. \A i \in 1..Len(s) : s[i] \in Slot
  OBVIOUS
<1>2. \A t \in Slot : t.data \in Data
  BY DEF Slot
<1> QED BY <1>1, <1>2, LatestIs

-----------------------------------------------------------------------------
(* What EE_FindValidPage returns: a page or none, for reading and for      *)
(* writing, and a page it returns for reading is valid.                    *)
LEMMA PageFacts ==
  ASSUME TypeOK
  PROVE  /\ ReadPage \in {0, 1, NoPage} /\ WritePage \in {0, 1, NoPage}
         /\ NoPage \notin Page
         /\ WritePage = NoPage <=> ReadPage = NoPage
         /\ ReadPage # NoPage => hdr[ReadPage] = "VALID_PAGE"
BY DEF TypeOK, ReadPage, WritePage, NoPage, Page

(* A read returns a value or nothing.                                      *)
LEMMA ReadType ==
  ASSUME TypeOK, NEW v
  PROVE  EE_ReadVariable(v) \in Data \cup {NotFound}
<1>1. CASE ReadPage = NoPage
  BY <1>1 DEF EE_ReadVariable
<1>2. CASE ReadPage \in Page
  <2>1. log[ReadPage] \in Seq(Slot)
    BY <1>2 DEF TypeOK
  <2> QED BY <2>1, LatestType DEF EE_ReadVariable
<1> QED BY <1>1, <1>2, PageFacts DEF Page

(* Only the address changes a slot's meaning: typing of the two halves of  *)
(* EE_VerifyPageFullWriteVariable.                                         *)
LEMMA PutDataType ==
  ASSUME TypeOK, NEW d \in Data, PutData(d)
  PROVE  /\ log' \in [Page -> Seq(Slot)]
         /\ \A p \in Page : Len(log'[p]) <= Slots
         /\ d = Blank => Len(log[WritePage]) < Slots
<1> DEFINE e == [addr |-> NoAddr, data |-> d]
<1>1. WritePage \in Page /\ log[WritePage] \in Seq(Slot) /\ Len(log[WritePage]) < Slots
  BY PageFacts DEF PutData, CanPut, TypeOK, Page
<1>2. e \in Slot
  BY DEF Slot
<1> HIDE DEF e
<1>3. /\ Append(log[WritePage], e) \in Seq(Slot)
      /\ Len(Append(log[WritePage], e)) = Len(log[WritePage]) + 1
  BY <1>1, <1>2, AppendProperties
<1>4. log' = IF d = Blank THEN log
             ELSE [log EXCEPT ![WritePage] = Append(log[WritePage], e)]
  BY DEF PutData, e
<1>5. Slots \in Nat /\ Len(log[WritePage]) \in Nat
  BY <1>1, EepromAssumption
<1> QED BY <1>1, <1>3, <1>4, <1>5 DEF TypeOK

(* The second half-word of a slot, its address, keeps the page a page.     *)
LEMMA PutAddrType ==
  ASSUME TypeOK, NEW v \in Addr \cup {NoAddr}, NEW d \in Data, PutAddr(v, d),
         d = Blank => Len(log[WritePage]) < Slots
  PROVE  /\ log' \in [Page -> Seq(Slot)]
         /\ \A p \in Page : Len(log'[p]) <= Slots
<1> DEFINE e == [addr |-> v, data |-> d]
           s == log[WritePage]
           t == IF d = Blank THEN Append(s, e) ELSE [s EXCEPT ![Len(s)] = e]
<1>1. WritePage \in Page /\ s \in Seq(Slot) /\ Len(s) <= Slots
  BY PageFacts DEF PutAddr, CanPut, TypeOK, Page
<1>2. e \in Slot
  BY DEF Slot
<1>3. log' = [log EXCEPT ![WritePage] = t]
  BY DEF PutAddr
<1>4. Slots \in Nat /\ Len(s) \in Nat
  BY <1>1, EepromAssumption
<1>5. d = Blank => Len(s) < Slots
  OBVIOUS
<1> HIDE DEF e, s
<1>6. t \in Seq(Slot) /\ Len(t) <= Slots
  <2>1. CASE d = Blank
    <3>1. Append(s, e) \in Seq(Slot) /\ Len(Append(s, e)) = Len(s) + 1
      BY <1>1, <1>2, AppendProperties
    <3> QED BY <2>1, <3>1, <1>4, <1>5
  <2>2. CASE d # Blank
    <3>1. t = [s EXCEPT ![Len(s)] = e]
      BY <2>2
    <3>2. [s EXCEPT ![Len(s)] = e] \in Seq(Slot) /\ Len([s EXCEPT ![Len(s)] = e]) = Len(s)
      <4>1. CASE Len(s) = 0
        <5>1. s = <<>>
          BY <4>1, <1>1, EmptySeq
        <5>2. [s EXCEPT ![Len(s)] = e] = s
          BY <5>1, <4>1
        <5> QED BY <5>2, <1>1
      <4>2. CASE Len(s) \in 1..Len(s)
        BY <4>2, <1>1, <1>2, ExceptSeq
      <4> QED BY <4>1, <4>2, <1>4
    <3> QED BY <3>1, <3>2, <1>1
  <2> QED BY <2>1, <2>2
<1> HIDE DEF t
<1> QED BY <1>1, <1>3, <1>6 DEF TypeOK

-----------------------------------------------------------------------------
(* While no header changes, EE_FindValidPage returns the same pages.       *)
LEMMA SameHeaders ==
  ASSUME hdr' = hdr
  PROVE  /\ ReadPage' = ReadPage /\ WritePage' = WritePage
         /\ Receiving' <=> Receiving
BY DEF ReadPage, WritePage, Receiving, Other, NoPage

(* The read page is untouched by a put, so reads are unchanged.            *)
LEMMA SameReads ==
  ASSUME hdr' = hdr, NEW v, ReadPage # NoPage => log'[ReadPage] = log[ReadPage]
  PROVE  EE_ReadVariable(v)' = EE_ReadVariable(v)
<1>1. ReadPage' = ReadPage
  BY SameHeaders
<1>2. CASE ReadPage = NoPage
  BY <1>1, <1>2 DEF EE_ReadVariable
<1>3. CASE ReadPage # NoPage
  <2>1. (log[ReadPage])' = log[ReadPage]
    BY <1>1, <1>3
  <2>2. Latest(log[ReadPage], v)' = Latest(log[ReadPage], v)
    BY <2>1 DEF Latest, IndexesOf
  <2> QED BY <1>1, <1>3, <2>2 DEF EE_ReadVariable
<1> QED BY <1>2, <1>3

(* The address the transfer loop is at is a virtual address.               *)
LEMMA CopyVarType ==
  ASSUME TypeOK, idx <= NB_OF_VAR
  PROVE  CopyVar \in Addr
BY EepromAssumption DEF TypeOK, CopyVar, NB_OF_VAR

(* A put into the receiving page leaves the other page alone.              *)
LEMMA PutElsewhere ==
  ASSUME TypeOK, Receiving, NEW v, NEW d, PutData(d) \/ PutAddr(v, d)
  PROVE  log'[ReadPage] = log[ReadPage]
<1>1. ReadPage \in Page /\ WritePage # ReadPage
  BY PageFacts DEF Receiving, Other, Page
<1> QED BY <1>1 DEF PutData, PutAddr, TypeOK

(* A function that returns leaves the control variables at rest.           *)
LEMMA ReturnType ==
  ASSUME TypeOK, NEW r \in Result, Return(r)
  PROVE  /\ pc' = "idle" /\ op' = "none" /\ idx' \in 1..(NB_OF_VAR + 1)
         /\ req' \in Slot /\ half' = FALSE /\ tail' \in Seq(FlashOp)
         /\ status' \in Result
<1>1. NB_OF_VAR \in Nat
  BY EepromAssumption DEF NB_OF_VAR
<1> QED BY <1>1, EepromAssumption DEF Return, NoReq, Slot

(* A blank flash satisfies TypeInv.                                        *)
LEMMA InitInv == Init => TypeInv
<1> SUFFICES ASSUME Init PROVE TypeInv
  OBVIOUS
<1>1. NB_OF_VAR \in Nat
  BY EepromAssumption DEF NB_OF_VAR
<1>2. TypeOK
  <2>1. hdr \in [Page -> PageStatus]
    BY DEF Init, PageStatus
  <2>2. log \in [Page -> Seq(Slot)] /\ \A p \in Page : Len(log[p]) <= Slots
    BY EepromAssumption DEF Init
  <2>3. req \in Slot /\ tail \in Seq(FlashOp) /\ status \in Result
    BY EepromAssumption DEF Init, NoReq, Slot, Result
  <2>4. idx \in 1..(NB_OF_VAR + 1)
    BY <1>1 DEF Init
  <2>5. writes \in 0..MaxWrites /\ losses \in 0..MaxLosses /\ errors \in 0..MaxErrors
    BY EepromAssumption DEF Init
  <2> QED BY <2>1, <2>2, <2>3, <2>4, <2>5 DEF Init, TypeOK
<1> QED BY <1>2 DEF TypeInv, Init, Phase, HalfRoom

(* Every step of the code and of the environment preserves TypeInv: types, *)
(* the point each function is at, the room found for a Blank value.        *)
LEMMA NextInv == TypeInv /\ [Next]_vars => TypeInv'
<1> SUFFICES ASSUME TypeInv, [Next]_vars PROVE TypeInv'
  OBVIOUS
<1> USE DEF TypeInv
<1>0. NB_OF_VAR \in Nat
  BY EepromAssumption DEF NB_OF_VAR
<1>1. ASSUME NEW v \in Addr, NEW d \in Data, EE_WriteVariable(v, d) PROVE TypeInv'
  <2>1. req' \in Slot
    BY <1>1 DEF EE_WriteVariable, Slot
  <2>2. TypeOK'
    BY <1>1, <2>1, EepromAssumption DEF EE_WriteVariable, TypeOK
  <2> QED BY <1>1, <2>2 DEF EE_WriteVariable, Phase, HalfRoom
<1>2. CASE PutRequestData
  <2>1. req.data \in Data
    BY DEF TypeOK, Slot
  <2>2. TypeOK'
    BY <1>2, <2>1, PutDataType DEF PutRequestData, PutData, env, TypeOK
  <2>3. Phase'
    BY <1>2, SameHeaders DEF PutRequestData, PutData, env, Phase
  <2>4. HalfRoom'
    BY <1>2, <2>1, PutDataType, SameHeaders DEF PutRequestData, PutData, env, HalfRoom
  <2> QED BY <2>2, <2>3, <2>4
<1>3. CASE PutRequestAddr
  <2>1. req.data \in Data /\ req.addr \in Addr \cup {NoAddr}
    BY DEF TypeOK, Slot
  <2>2. req.data = Blank => Len(log[WritePage]) < Slots
    BY <1>3 DEF PutRequestAddr, PutAddr, HalfRoom
  <2>3. log' \in [Page -> Seq(Slot)] /\ \A p \in Page : Len(log'[p]) <= Slots
    BY <1>3, <2>1, <2>2, PutAddrType DEF PutRequestAddr
  <2>4. CASE op = "write" /\ Return("FLASH_COMPLETE")
    BY <1>3, <2>3, <2>4, ReturnType DEF PutRequestAddr, env, TypeOK, Phase, HalfRoom, Result
  <2>5. CASE op = "transfer" /\ pc' = "copy" /\ half' = FALSE
             /\ UNCHANGED <<op, idx, req, tail, status>>
    <3>1. TypeOK'
      BY <1>3, <2>3, <2>5 DEF PutRequestAddr, env, TypeOK
    <3>2. Phase'
      BY <1>3, <2>5, SameHeaders DEF PutRequestAddr, Phase
    <3> QED BY <2>5, <3>1, <3>2 DEF HalfRoom
  <2> QED BY <1>3, <2>4, <2>5 DEF PutRequestAddr
<1>4. CASE PutFails
  <2>1. CASE op = "write" /\ WritePage # NoPage /\ pc' = "mark" /\ op' = "transfer"
             /\ UNCHANGED <<idx, req, half, tail, status>>
    <3>1. ~half
      BY <1>4, <2>1 DEF PutFails, CanPut
    <3> QED BY <1>4, <2>1, <3>1, SameHeaders, PageFacts
            DEF PutFails, env, TypeOK, Phase, HalfRoom
  <2>2. ASSUME NEW r \in Result, Return(r) PROVE TypeInv'
    BY <1>4, <2>2, ReturnType DEF PutFails, env, TypeOK, Phase, HalfRoom
  <2> QED BY <1>4, <2>1, <2>2 DEF PutFails, Result
<1>5. CASE MarkReceive
  <2>1. TypeOK'
    BY <1>5 DEF MarkReceive, env, TypeOK, Program, PageStatus
  <2>2. Receiving'
    BY <1>5 DEF MarkReceive, Phase, TypeOK, Receiving, ReadPage, WritePage, NoPage, Other,
                Program, PageStatus, Page
  <2>3. ~half
    BY <1>5 DEF MarkReceive, Phase
  <2> QED BY <1>5, <2>1, <2>2, <2>3 DEF MarkReceive, Phase, HalfRoom
<1>6. CASE CopySkip
  <2>1. TypeOK'
    BY <1>6, <1>0 DEF CopySkip, env, TypeOK
  <2> QED BY <1>6, <2>1, SameHeaders DEF CopySkip, Phase, HalfRoom
<1>7. CASE CopyData
  <2> DEFINE d == EE_ReadVariable(CopyVar)
  <2>1. d \in Data /\ d # NotFound /\ idx <= NB_OF_VAR
    BY <1>7, ReadType DEF CopyData, CopyNeeded
  <2>2. PutData(d)
    BY <1>7 DEF CopyData
  <2>3. TypeOK'
    BY <1>7, <2>1, <2>2, PutDataType DEF CopyData, PutData, env, TypeOK
  <2>4. Phase'
    BY <1>7, SameHeaders DEF CopyData, PutData, Phase
  <2>5. EE_ReadVariable(CopyVar)' = d
    <3>1. Receiving /\ hdr' = hdr /\ CopyVar' = CopyVar
      BY <1>7 DEF CopyData, Phase, CopyVar
    <3> QED BY <2>2, <3>1, PutElsewhere, SameReads DEF EE_ReadVariable
  <2>6. d = Blank => Len(log[WritePage]) < Slots /\ log' = log
    BY <2>1, <2>2, PutDataType DEF PutData
  <2> HIDE DEF d
  <2>7. HalfRoom'
    BY <1>7, <2>1, <2>5, <2>6, SameHeaders DEF CopyData, HalfRoom
  <2> QED BY <2>3, <2>4, <2>7
<1>8. CASE CopyAddr
  <2> DEFINE d == EE_ReadVariable(CopyVar)
  <2>1. d \in Data /\ CopyVar \in Addr
    BY <1>8, ReadType, CopyVarType DEF CopyAddr, PutAddr, HalfRoom
  <2>2. d = Blank => Len(log[WritePage]) < Slots
    BY <1>8 DEF CopyAddr, PutAddr, HalfRoom
  <2>3. log' \in [Page -> Seq(Slot)] /\ \A p \in Page : Len(log'[p]) <= Slots
    BY <1>8, <2>1, <2>2, PutAddrType DEF CopyAddr
  <2>4. idx' \in 1..(NB_OF_VAR + 1) /\ half' = FALSE
    BY <1>8, <1>0 DEF CopyAddr, TypeOK
  <2>5. UNCHANGED <<hdr, pc, op, req, tail, status, env>>
    BY <1>8 DEF CopyAddr
  <2>6. TypeOK'
    BY <2>3, <2>4, <2>5 DEF env, TypeOK
  <2> QED BY <1>8, <2>6, SameHeaders DEF CopyAddr, Phase, HalfRoom
<1>9. CASE CopyFails
  <2>1. "PAGE_FULL" \in Result
    BY DEF Result
  <2> QED BY <1>9, <2>1, ReturnType DEF CopyFails, TypeOK, Phase, HalfRoom
<1>10. CASE CopyDone
  <2>1. TransferTail \in Seq(FlashOp) /\ TransferTail # <<>>
    <3>1. ReadPage \in Page /\ Other(ReadPage) \in Page
      BY <1>10, PageFacts DEF CopyDone, Phase, Receiving, Other, Page
    <3>2. \A p \in Page : Erase(p) \in FlashOp /\ Valid(p) \in FlashOp
      BY DEF Erase, Valid, FlashOp
    <3> QED BY <3>1, <3>2 DEF TransferTail
  <2>2. TypeOK'
    BY <1>10, <2>1 DEF CopyDone, env, TypeOK
  <2>3. ~half
    BY <1>10, <1>0 DEF CopyDone, HalfRoom, TypeOK
  <2> QED BY <1>10, <2>1, <2>2, <2>3 DEF CopyDone, Phase, HalfRoom
<1>11. CASE DoFlashOp
  <2>1. /\ hdr' \in [Page -> PageStatus] /\ log' \in [Page -> Seq(Slot)]
        /\ \A p \in Page : Len(log'[p]) <= Slots
    <3> DEFINE q == Head(tail).page
    <3>1. CASE hdr' = [hdr EXCEPT ![q] = "ERASED"] /\ log' = [log EXCEPT ![q] = <<>>]
      <4>1. hdr' \in [Page -> PageStatus]
        BY <3>1 DEF TypeOK, PageStatus
      <4>2. log' \in [Page -> Seq(Slot)]
        <5>1. log \in [Page -> Seq(Slot)]
          BY DEF TypeOK
        <5>2. <<>> \in Seq(Slot)
          BY EmptySeq
        <5> QED BY <3>1, <5>1, <5>2
      <4>3. \A p \in Page : Len(log'[p]) <= Slots
        BY <3>1, EepromAssumption DEF TypeOK
      <4> QED BY <4>1, <4>2, <4>3
    <3>2. CASE hdr' = [hdr EXCEPT ![q] = Program(@, "VALID_PAGE")] /\ UNCHANGED log
      BY <3>2 DEF TypeOK, PageStatus, Program
    <3> QED BY <1>11, <3>1, <3>2 DEF DoFlashOp
  <2>2. CASE Len(tail) > 1 /\ tail' = Tail(tail) /\ UNCHANGED <<pc, op, idx, req, half, status>>
    <3>1. tail \in Seq(FlashOp)
      BY DEF TypeOK
    <3>2. tail' \in Seq(FlashOp) /\ tail' # <<>>
      BY <2>2, <3>1
    <3>3. TypeOK'
      BY <1>11, <2>1, <2>2, <3>2 DEF DoFlashOp, env, TypeOK
    <3> QED BY <1>11, <2>2, <3>2, <3>3 DEF DoFlashOp, Phase, HalfRoom
  <2>3. CASE Return("FLASH_COMPLETE")
    BY <1>11, <2>1, <2>3, ReturnType DEF DoFlashOp, env, TypeOK, Phase, HalfRoom, Result
  <2> QED BY <1>11, <2>2, <2>3 DEF DoFlashOp, NextFlashOp
<1>12. CASE EE_Init
  <2>1. ~half
    BY <1>12 DEF EE_Init, Phase
  <2>2. CASE InitCopies(hdr[0], hdr[1])
    <3>1. TypeOK'
      BY <1>12, <2>2 DEF EE_Init, env, TypeOK
    <3>2. Receiving'
      BY <1>12, <2>2 DEF EE_Init, InitCopies, Receiving, ReadPage, WritePage, NoPage, Other
    <3> QED BY <1>12, <2>1, <2>2, <3>1, <3>2 DEF EE_Init, Phase, HalfRoom
  <2>3. CASE ~InitCopies(hdr[0], hdr[1])
    <3>1. InitTail(hdr[0], hdr[1]) \in Seq(FlashOp) /\ InitTail(hdr[0], hdr[1]) # <<>>
      <4>1. \A p \in Page : Erase(p) \in FlashOp /\ Valid(p) \in FlashOp
        BY DEF Erase, Valid, FlashOp
      <4> QED BY <4>1 DEF InitTail, EE_Format, Page
    <3>2. TypeOK'
      BY <1>12, <2>3, <3>1 DEF EE_Init, env, TypeOK
    <3> QED BY <1>12, <2>1, <2>3, <3>1, <3>2 DEF EE_Init, Phase, HalfRoom
  <2> QED BY <2>2, <2>3
<1>13. CASE PowerLoss \/ PowerLossInErase
  <2>1. /\ pc' = "off" /\ op' = "none" /\ half' = FALSE
        /\ idx' \in 1..(NB_OF_VAR + 1) /\ req' \in Slot /\ tail' \in Seq(FlashOp)
        /\ losses' \in 0..MaxLosses
    <3>1. PowerOff
      BY <1>13 DEF PowerLoss, PowerLossInErase
    <3>2. NoReq \in Slot /\ 1 \in 1..(NB_OF_VAR + 1)
      BY <1>0, EepromAssumption DEF NoReq, Slot
    <3>3. losses' \in 0..MaxLosses
      BY <3>1, EepromAssumption DEF PowerOff, TypeOK
    <3> QED BY <3>1, <3>2, <3>3 DEF PowerOff
  <2>2. hdr' \in [Page -> PageStatus] /\ log' = log /\ degraded' \in BOOLEAN
    BY <1>13 DEF PowerLoss, PowerLossInErase, TypeOK, PageStatus, BothValid
  <2>3. UNCHANGED <<status, writes, errors>>
    BY <1>13 DEF PowerLoss, PowerLossInErase, PowerOff
  <2>4. TypeOK'
    BY <2>1, <2>2, <2>3 DEF TypeOK
  <2> QED BY <2>1, <2>4 DEF Phase, HalfRoom
<1>14. CASE FlashError
  <2>1. /\ pc' = "idle" /\ op' = "none" /\ idx' \in 1..(NB_OF_VAR + 1)
        /\ req' \in Slot /\ half' = FALSE /\ tail' \in Seq(FlashOp) /\ status' \in Result
    BY <1>14, ReturnType DEF FlashError, Result
  <2>2. errors' \in 0..MaxErrors /\ degraded' \in BOOLEAN
    BY <1>14, EepromAssumption DEF FlashError, TypeOK
  <2>3. TypeOK'
    BY <1>14, <2>1, <2>2 DEF FlashError, TypeOK
  <2> QED BY <2>1, <2>3 DEF Phase, HalfRoom
<1>15. CASE UNCHANGED vars
  <2>1. TypeOK'
    BY <1>15 DEF vars, ctl, env, TypeOK
  <2>2. Phase'
    BY <1>15, SameHeaders DEF vars, ctl, Phase
  <2>3. EE_ReadVariable(CopyVar)' = EE_ReadVariable(CopyVar)
    BY <1>15, SameReads DEF vars, ctl, CopyVar, EE_ReadVariable
  <2> QED BY <1>15, <2>1, <2>2, <2>3, SameHeaders DEF vars, ctl, HalfRoom
<1> QED
  BY <1>1, <1>2, <1>3, <1>4, <1>5, <1>6, <1>7, <1>8, <1>9, <1>10, <1>11, <1>12, <1>13,
     <1>14, <1>15 DEF Next, Step

(* Every variable keeps its type and no page ever holds more slots than it *)
(* has room for, whatever is interrupted and whatever fails.               *)
THEOREM TypeCorrect == Spec => []TypeOK
<1>1. TypeInv => TypeOK
  BY DEF TypeInv
<1> QED BY <1>1, InitInv, NextInv, PTL DEF Spec

-----------------------------------------------------------------------------
(* The states of the two pages.                                            *)

(* There are two pages.                                                    *)
LEMMA OtherPage == \A p \in Page : Other(p) \in Page /\ Other(Other(p)) = p /\ Other(p) # p
BY DEF Page, Other

(* A step that changes no page changes no page state.                      *)
LEMMA SamePages ==
  ASSUME hdr' = hdr, log' = log
  PROVE  /\ AllEmpty' <=> AllEmpty
         /\ \A p \in Page : (Clean(p)' <=> Clean(p)) /\ (Filling(p)' <=> Filling(p))
                             /\ (Empty(p)' <=> Empty(p))
BY DEF AllEmpty, Clean, Filling, Empty, Other, Page

(* With one valid page and the other empty, reads and writes go to it.     *)
LEMMA CleanWrite ==
  ASSUME TypeOK, NEW p \in Page, Clean(p)
  PROVE  ReadPage = p /\ WritePage = p
BY DEF TypeOK, Clean, Empty, ReadPage, WritePage, Other, Page, NoPage

(* While a page receives, writes go to it and reads to the other one.      *)
LEMMA FillingWrite ==
  ASSUME TypeOK, NEW p \in Page, Filling(p)
  PROVE  WritePage = p /\ ReadPage = Other(p)
BY DEF TypeOK, Filling, ReadPage, WritePage, Other, Page, NoPage

(* A blank flash satisfies PagesInv.                                       *)
LEMMA InitPages == Init => PagesInv
<1> SUFFICES ASSUME Init PROVE PagesInv
  OBVIOUS
<1>1. AllEmpty
  BY DEF Init, AllEmpty, Empty, Page
<1> QED BY <1>1 DEF Init, PagesInv

(* Every step takes the pages to a state that goes with the point of the   *)
(* code it leads to, unless it degrades them.                              *)
LEMMA NextPages == TypeInv /\ PagesInv /\ [Next]_vars => PagesInv'
<1> SUFFICES ASSUME TypeInv, PagesInv, [Next]_vars, ~degraded' PROVE PagesInv'
  BY DEF PagesInv
<1> USE DEF TypeInv
<1>0. ~degraded
  BY DEF TypeOK, Next, Step, vars, env, EE_WriteVariable, PutRequestData, PutRequestAddr,
         PutFails, MarkReceive, CopySkip, CopyData, CopyAddr, CopyFails, CopyDone, DoFlashOp,
         EE_Init, PowerLoss, PowerLossInErase, FlashError
<1>1. ASSUME NEW v \in Addr, NEW d \in Data, EE_WriteVariable(v, d) PROVE PagesInv'
  BY <1>0, <1>1, SamePages DEF EE_WriteVariable, PagesInv
<1>2. ASSUME NEW v, NEW d, PutData(d) \/ PutAddr(v, d), hdr' = hdr
      PROVE  \A p \in Page : /\ Clean(p) => Clean(p)'
                             /\ Filling(p) => Filling(p)'
  <2>1. ASSUME NEW p \in Page, Clean(p) PROVE Clean(p)'
    <3>1. WritePage = p /\ Other(p) \in Page /\ Other(p) # p
      BY <2>1, CleanWrite, OtherPage
    <3>2. log'[Other(p)] = log[Other(p)]
      BY <1>2, <3>1 DEF PutData, PutAddr, TypeOK
    <3> QED BY <1>2, <2>1, <3>2 DEF Clean, Empty
  <2>2. ASSUME NEW p \in Page, Filling(p) PROVE Filling(p)'
    BY <1>2, <2>2 DEF Filling
  <2> QED BY <2>1, <2>2
<1>3. CASE PutRequestData
  BY <1>0, <1>2, <1>3 DEF PutRequestData, PutData, PagesInv
<1>4. CASE PutRequestAddr
  <2>1. CASE op = "write" /\ Return("FLASH_COMPLETE")
    <3>1. \E p \in Page : Clean(p)
      BY <1>0, <1>4, <2>1 DEF PutRequestAddr, PagesInv
    <3> QED BY <1>2, <1>4, <2>1, <3>1 DEF PutRequestAddr, PagesInv, Return
  <2>2. CASE op = "transfer" /\ pc' = "copy"
    <3>1. \E p \in Page : Filling(p)
      BY <1>0, <1>4, <2>2 DEF PutRequestAddr, PagesInv
    <3> QED BY <1>2, <1>4, <2>2, <3>1 DEF PutRequestAddr, PagesInv
  <2> QED BY <1>4, <2>1, <2>2 DEF PutRequestAddr
<1>5. CASE PutFails
  <2>1. CASE op = "write" /\ pc' = "mark" /\ op' = "transfer"
    BY <1>0, <1>5, <2>1, SamePages DEF PutFails, PagesInv
  <2>2. CASE op = "write" /\ WritePage = NoPage
    <3>1. PICK p \in Page : Clean(p)
      BY <1>0, <1>5, <2>2 DEF PutFails, PagesInv
    <3> QED BY <2>2, <3>1, CleanWrite DEF NoPage, Page
  <2>3. CASE op = "transfer"
    <3>1. PICK p \in Page : Filling(p) /\ (~half => log[p] = <<>>)
      BY <1>0, <1>5, <2>3 DEF PutFails, PagesInv
    <3>2. WritePage = p /\ p # NoPage
      BY <3>1, FillingWrite DEF NoPage, Page
    <3>3. CanPut
      BY <3>1, <3>2, EepromAssumption DEF CanPut
    <3> QED BY <1>5, <3>3 DEF PutFails
  <2> QED BY <1>5, <2>1, <2>2, <2>3 DEF PutFails
<1>6. CASE MarkReceive
  <2>1. PICK p \in Page : Clean(p)
    BY <1>0, <1>6 DEF MarkReceive, PagesInv
  <2>2. ReadPage = p /\ Other(p) \in Page /\ Other(Other(p)) = p /\ Other(p) # p
    BY <2>1, CleanWrite, OtherPage
  <2>3. hdr'[Other(p)] = "RECEIVE_DATA" /\ hdr'[p] = "VALID_PAGE" /\ log'[Other(p)] = <<>>
    BY <1>6, <2>1, <2>2 DEF MarkReceive, Clean, Empty, Program, TypeOK
  <2>4. Filling(Other(p))' /\ log'[Other(p)] = <<>>
    BY <2>2, <2>3 DEF Filling
  <2> QED BY <1>6, <2>2, <2>4 DEF MarkReceive, Phase, PagesInv
<1>7. CASE CopySkip
  BY <1>0, <1>7, SamePages DEF CopySkip, PagesInv
<1>8. CASE CopyData
  BY <1>0, <1>2, <1>8 DEF CopyData, PagesInv
<1>9. CASE CopyAddr
  BY <1>0, <1>2, <1>9 DEF CopyAddr, PagesInv
<1>10. CASE CopyFails
  BY <1>10 DEF CopyFails
<1>11. CASE CopyDone
  <2>1. PICK p \in Page : Filling(p)
    BY <1>0, <1>11 DEF CopyDone, PagesInv
  <2>2. Filling(p)' /\ ReadPage = Other(p) /\ Other(ReadPage) = p
    BY <1>11, <2>1, SamePages, FillingWrite, OtherPage DEF CopyDone
  <2>3. TailState(p, Other(p))'
    BY <1>11, <2>2 DEF CopyDone, TransferTail, TailState, Filling
  <2> QED BY <1>11, <2>3 DEF CopyDone, PagesInv
<1>12. CASE EE_Init
  <2>1. hdr' = hdr /\ log' = log
    BY <1>12 DEF EE_Init
  <2>2. CASE InitCopies(hdr[0], hdr[1])
    <3>1. \E p \in Page : Filling(p)
      BY <2>2 DEF InitCopies, Filling, Page, Other
    <3> QED BY <1>12, <2>1, <2>2, <3>1, SamePages DEF EE_Init, PagesInv
  <2>3. CASE ~InitCopies(hdr[0], hdr[1]) /\ AllEmpty
    <3>1. InitTail(hdr[0], hdr[1]) = EE_Format
      BY <2>3 DEF AllEmpty, Empty, InitTail
    <3>2. FormatState'
      BY <1>12, <2>1, <2>3, <3>1, SamePages DEF EE_Init, FormatState
    <3> QED BY <1>12, <2>3, <3>2 DEF EE_Init, PagesInv
  <2>4. CASE ~InitCopies(hdr[0], hdr[1]) /\ ~AllEmpty
    <3>1. PICK p \in Page : OffState(p, Other(p))
      BY <1>0, <1>12, <2>4 DEF EE_Init, PagesInv
    <3>2. CASE hdr[p] = "VALID_PAGE" /\ hdr[Other(p)] = "ERASED"
      <4>1. InitTail(hdr[0], hdr[1]) = <<Erase(Other(p))>>
        BY <3>2 DEF InitTail, Page, Other
      <4>2. TailState(p, Other(p))'
        BY <1>12, <2>1, <2>4, <3>2, <4>1 DEF EE_Init, TailState
      <4> QED BY <1>12, <2>4, <4>2 DEF EE_Init, PagesInv
    <3>3. CASE hdr[p] = "RECEIVE_DATA" /\ hdr[Other(p)] = "ERASED"
      <4>1. InitTail(hdr[0], hdr[1]) = <<Erase(Other(p)), Valid(p)>>
        BY <3>3 DEF InitTail, Page, Other
      <4>2. TailState(p, Other(p))'
        BY <1>12, <2>1, <2>4, <3>3, <4>1 DEF EE_Init, TailState
      <4> QED BY <1>12, <2>4, <4>2 DEF EE_Init, PagesInv
    <3>4. CASE hdr[p] = "VALID_PAGE" /\ hdr[Other(p)] = "RECEIVE_DATA"
      BY <2>4, <3>4 DEF InitCopies, Page, Other
    <3>5. hdr[Other(p)] \in PageStatus
      BY OtherPage DEF TypeOK
    <3> QED BY <3>1, <3>2, <3>3, <3>4, <3>5 DEF OffState, PageStatus
  <2> QED BY <2>2, <2>3, <2>4
<1>13. CASE DoFlashOp
  <2>0. NextFlashOp /\ pc = "tail"
    BY <1>13 DEF DoFlashOp
  <2>1. CASE FormatState
    <3>1. CASE tail = EE_Format
      <4>1. Head(tail) = Erase(0) /\ Len(tail) = 3 /\ Tail(tail) = <<Valid(0), Erase(1)>>
        BY <3>1 DEF EE_Format
      <4>5. tail' = <<Valid(0), Erase(1)>> /\ pc' = "tail"
        <5>1. Len(tail) # 1
          BY <4>1
        <5>2. tail' = Tail(tail) /\ pc' = pc
          BY <2>0, <5>1, Zenon DEF NextFlashOp
        <5> QED BY <2>0, <4>1, <5>2
      <4>2. hdr' = [hdr EXCEPT ![0] = "ERASED"] /\ log' = [log EXCEPT ![0] = <<>>]
        BY <1>13, <4>1 DEF DoFlashOp, Erase
      <4>3. FormatState'
        BY <2>1, <4>2, <4>5 DEF FormatState, AllEmpty, Empty, TypeOK, Page
      <4> QED BY <4>3, <4>5 DEF PagesInv
    <3>2. CASE tail = <<Valid(0), Erase(1)>>
      <4>1. Head(tail) = Valid(0) /\ Len(tail) = 2 /\ Tail(tail) = <<Erase(1)>>
        BY <3>2
      <4>5. tail' = <<Erase(1)>> /\ pc' = "tail"
        <5>1. Len(tail) # 1
          BY <4>1
        <5>2. tail' = Tail(tail) /\ pc' = pc
          BY <2>0, <5>1, Zenon DEF NextFlashOp
        <5> QED BY <2>0, <4>1, <5>2
      <4>2. hdr' = [hdr EXCEPT ![0] = "VALID_PAGE"] /\ log' = log
        BY <1>13, <2>1, <4>1 DEF DoFlashOp, Valid, Program
      <4>3. TailState(0, Other(0))'
        BY <2>1, <4>2, <4>5
           DEF FormatState, AllEmpty, Empty, TailState, TypeOK, Page, Other
      <4> QED BY <4>3, <4>5 DEF PagesInv, Page
    <3> QED BY <2>1, <3>1, <3>2 DEF FormatState
  <2>2. ASSUME NEW p \in Page, TailState(p, Other(p)) PROVE PagesInv'
    <3> DEFINE q == Other(p)
    <3>0. q \in Page /\ q # p /\ Other(q) = p
      BY OtherPage
    <3> HIDE DEF q
    <3>1. CASE tail = <<Erase(q), Valid(p)>> /\ hdr[p] = "RECEIVE_DATA"
      <4>1. Head(tail) = Erase(q) /\ Len(tail) = 2 /\ Tail(tail) = <<Valid(p)>>
        BY <3>1
      <4>5. tail' = <<Valid(p)>> /\ pc' = "tail"
        <5>1. Len(tail) # 1
          BY <4>1
        <5>2. tail' = Tail(tail) /\ pc' = pc
          BY <2>0, <5>1, Zenon DEF NextFlashOp
        <5> QED BY <2>0, <4>1, <5>2
      <4>2. hdr' = [hdr EXCEPT ![q] = "ERASED"] /\ log' = [log EXCEPT ![q] = <<>>]
        BY <1>13, <4>1 DEF DoFlashOp, Erase
      <4>3. hdr'[p] = "RECEIVE_DATA" /\ Empty(q)'
        BY <3>0, <3>1, <4>2 DEF Empty, TypeOK
      <4>4. TailState(p, Other(p))'
        BY <4>3, <4>5 DEF TailState, q
      <4> QED BY <4>4, <4>5 DEF PagesInv
    <3>2. CASE tail = <<Valid(p)>> /\ Empty(q)
      <4>1. Head(tail) = Valid(p) /\ Len(tail) = 1
        BY <3>2
      <4>2. hdr' = [hdr EXCEPT ![p] = "VALID_PAGE"] /\ log' = log
        BY <1>13, <4>1 DEF DoFlashOp, Valid, Program
      <4>3. Clean(p)'
        BY <3>0, <3>2, <4>2 DEF Clean, Empty, TypeOK, q
      <4> QED BY <2>0, <4>1, <4>3 DEF NextFlashOp, Return, PagesInv
    <3>3. CASE tail = <<Valid(p), Erase(q)>> /\ Filling(p)
      <4>1. Head(tail) = Valid(p) /\ Len(tail) = 2 /\ Tail(tail) = <<Erase(q)>>
        BY <3>3
      <4>5. tail' = <<Erase(q)>> /\ pc' = "tail"
        <5>1. Len(tail) # 1
          BY <4>1
        <5>2. tail' = Tail(tail) /\ pc' = pc
          BY <2>0, <5>1, Zenon DEF NextFlashOp
        <5> QED BY <2>0, <4>1, <5>2
      <4>2. hdr' = [hdr EXCEPT ![p] = "VALID_PAGE"] /\ log' = log
        BY <1>13, <4>1 DEF DoFlashOp, Valid, Program
      <4>3. hdr'[p] = "VALID_PAGE" /\ hdr'[q] = "VALID_PAGE"
        BY <3>0, <3>3, <4>2 DEF Filling, TypeOK, q
      <4>4. TailState(p, Other(p))'
        BY <4>3, <4>5 DEF TailState, q
      <4> QED BY <4>4, <4>5 DEF PagesInv
    <3>4. CASE tail = <<Erase(q)>> /\ hdr[p] = "VALID_PAGE"
      <4>1. Head(tail) = Erase(q) /\ Len(tail) = 1
        BY <3>4
      <4>2. hdr' = [hdr EXCEPT ![q] = "ERASED"] /\ log' = [log EXCEPT ![q] = <<>>]
        BY <1>13, <4>1 DEF DoFlashOp, Erase
      <4>3. Clean(p)'
        BY <3>0, <3>4, <4>2 DEF Clean, Empty, TypeOK, q
      <4> QED BY <2>0, <4>1, <4>3 DEF NextFlashOp, Return, PagesInv
    <3> QED BY <2>2, <3>1, <3>2, <3>3, <3>4 DEF TailState, q
  <2> QED BY <1>0, <1>13, <2>1, <2>2 DEF DoFlashOp, PagesInv
<1>14. CASE PowerLoss
  <2>1. hdr' = hdr /\ log' = log /\ ~BothValid /\ pc' = "off"
    BY <1>14, <1>0 DEF PowerLoss, PowerOff
  <2>2. ASSUME AllEmpty \/ \E p \in Page : OffState(p, Other(p)) PROVE PagesInv'
    BY <2>1, <2>2, SamePages DEF PagesInv, OffState
  <2>3. \A p \in Page : Clean(p) \/ Filling(p) => \E q \in Page : OffState(q, Other(q))
    BY OtherPage DEF Clean, Filling, Empty, OffState
  <2>4. \A p \in Page : TailState(p, Other(p)) => \E q \in Page : OffState(q, Other(q))
    BY <2>1, OtherPage DEF TailState, OffState, BothValid, Empty, Filling, TypeOK, PageStatus,
                           Page, Other
  <2>5. pc \in {"idle", "put", "mark", "copy", "tail"}
    BY <1>14 DEF PowerLoss, TypeOK
  <2> QED BY <1>0, <2>2, <2>3, <2>4, <2>5 DEF PagesInv, Phase, FormatState
<1>15. CASE PowerLossInErase
  <2> DEFINE e == Head(tail).page
  <2>1. hdr' = [hdr EXCEPT ![e] = "ERASED"] /\ log' = log /\ pc' = "off"
    BY <1>15 DEF PowerLossInErase, PowerOff
  <2>2. CASE FormatState
    <3>1. AllEmpty'
      BY <2>1, <2>2 DEF FormatState, AllEmpty, Empty, TypeOK, Page
    <3> QED BY <2>1, <3>1 DEF PagesInv
  <2>3. ASSUME NEW p \in Page, TailState(p, Other(p)) PROVE PagesInv'
    <3>1. e = Other(p) /\ hdr[p] \in {"VALID_PAGE", "RECEIVE_DATA"}
      BY <1>15, <2>3 DEF PowerLossInErase, TailState, Erase, Valid
    <3>2. OffState(p, Other(p))'
      BY <2>1, <3>1, OtherPage DEF OffState, TypeOK
    <3> QED BY <2>1, <3>2 DEF PagesInv
  <2> QED BY <1>0, <1>15, <2>2, <2>3 DEF PowerLossInErase, PagesInv
<1>16. CASE FlashError
  <2>1. op = "write" /\ hdr' = hdr /\ log' = log /\ pc' = "idle"
    BY <1>16 DEF FlashError, Return
  <2>2. pc = "put"
    BY <1>16, <2>1 DEF FlashError, Phase
  <2> QED BY <1>0, <2>1, <2>2, SamePages DEF PagesInv
<1>17. CASE UNCHANGED vars
  <2>1. \A p \in Page : /\ TailState(p, Other(p))' <=> TailState(p, Other(p))
                        /\ OffState(p, Other(p))' <=> OffState(p, Other(p))
    BY <1>17 DEF vars, ctl, TailState, OffState, Filling, Empty
  <2>2. FormatState' <=> FormatState
    BY <1>17, SamePages DEF vars, ctl, FormatState
  <2> QED BY <1>0, <1>17, <2>1, <2>2, SamePages DEF vars, ctl, env, PagesInv
<1> QED
  BY <1>1, <1>3, <1>4, <1>5, <1>6, <1>7, <1>8, <1>9, <1>10, <1>11, <1>12, <1>13, <1>14,
     <1>15, <1>16, <1>17 DEF Next, Step

(* PagesInv holds in every reachable state.                                *)
LEMMA PagesCorrect == Spec => [](TypeInv /\ PagesInv)
BY InitInv, InitPages, NextInv, NextPages, PTL DEF Spec

(* A page transfer never fills a page that still holds slots, and between  *)
(* calls one page is valid and the other empty: the recovery of EE_Init    *)
(* restores this after any number of power losses it is built for.         *)
THEOREM FreshPages == Spec => []FreshReceivePage
<1>1. TypeInv /\ PagesInv => FreshReceivePage
  <2> SUFFICES ASSUME TypeOK, PagesInv, pc = "mark", ~degraded
               PROVE  Empty(Other(ReadPage))
    BY DEF FreshReceivePage, TypeInv
  <2>1. PICK p \in Page : Clean(p)
    BY DEF PagesInv
  <2> QED BY <2>1, CleanWrite DEF Clean
<1> QED BY <1>1, PagesCorrect, PTL

(* Between calls a read returns what EE_Init would recover: one page is    *)
(* valid, the other empty.                                                 *)
LEMMA ReadsRecover == TypeInv /\ PagesInv => ReadsAreDurable
<1> SUFFICES ASSUME TypeOK, PagesInv, pc = "idle", ~degraded
             PROVE  /\ \E p \in Page : hdr[p] = "VALID_PAGE" /\ Empty(Other(p))
                    /\ \A v \in Addr : EE_ReadVariable(v) = Recovered(v)
  BY DEF ReadsAreDurable, TypeInv
<1>1. PICK p \in Page : Clean(p)
  BY DEF PagesInv
<1>2. ReadPage = p /\ p # NoPage /\ Other(p) \in Page /\ Other(p) # p
  BY <1>1, CleanWrite, OtherPage DEF NoPage, Page
<1>3. hdr[Other(p)] = "ERASED" /\ ~BothValid
  BY <1>1 DEF Clean, Empty, BothValid, Page, Other
<1>4. ASSUME NEW v \in Addr PROVE EE_ReadVariable(v) = Recovered(v)
  BY <1>2, <1>3 DEF EE_ReadVariable, Recovered
<1> QED
  BY <1>1, <1>4 DEF Clean

(* So it does in every reachable state.                                    *)
THEOREM DurableReads == Spec => []ReadsAreDurable
BY ReadsRecover, PagesCorrect, PTL

-----------------------------------------------------------------------------
(* The values of a page after its two half-words.                          *)

(* The last slot of an address has its value.                              *)
LEMMA LatestAt ==
  ASSUME NEW s \in Seq(Slot), NEW v, NEW i \in 1..Len(s), s[i].addr = v,
         \A j \in 1..Len(s) : j > i => s[j].addr # v
  PROVE  Latest(s, v) = s[i].data
<1>1. i \in IndexesOf(s, v)
  BY DEF IndexesOf
<1>2. PICK k \in 1..Len(s) : /\ s[k].addr = v
                             /\ \A j \in IndexesOf(s, v) : j <= k
                             /\ Latest(s, v) = s[k].data
  BY <1>1, LatestIs
<1>3. i <= k /\ ~(k > i)
  BY <1>1, <1>2
<1>4. k = i
  BY <1>2, <1>3
<1> QED
  BY <1>2, <1>4

(* So has the last slot of a page.                                         *)
LEMMA LatestLast ==
  ASSUME NEW s \in Seq(Slot), s # <<>>
  PROVE  Latest(s, s[Len(s)].addr) = s[Len(s)].data
<1>1. Len(s) \in Nat /\ Len(s) \in 1..Len(s) /\ \A j \in 1..Len(s) : ~(j > Len(s))
  BY EmptySeq
<1> QED
  BY <1>1, LatestAt

(* Two pages with the same slots of an address, at the same places, have   *)
(* the same value of it.                                                   *)
LEMMA LatestSame ==
  ASSUME NEW s \in Seq(Slot), NEW t \in Seq(Slot), NEW v, IndexesOf(s, v) = IndexesOf(t, v),
         \A i \in IndexesOf(s, v) : s[i] = t[i]
  PROVE  Latest(s, v) = Latest(t, v)
<1>1. CASE IndexesOf(s, v) = {}
  BY <1>1, LatestIs
<1>2. CASE IndexesOf(s, v) # {}
  <2>1. PICK k \in 1..Len(s) : /\ s[k].addr = v
                               /\ \A j \in IndexesOf(s, v) : j <= k
                               /\ Latest(s, v) = s[k].data
    BY <1>2, LatestIs
  <2>2. k \in IndexesOf(s, v)
    BY <2>1 DEF IndexesOf
  <2>3. k \in 1..Len(t) /\ t[k].addr = v /\ t[k] = s[k]
    BY <2>2 DEF IndexesOf
  <2>4. \A j \in 1..Len(t) : j > k => t[j].addr # v
    <3> SUFFICES ASSUME NEW j \in 1..Len(t), j > k, t[j].addr = v PROVE FALSE
      OBVIOUS
    <3>1. j \in IndexesOf(s, v)
      BY DEF IndexesOf
    <3> QED
      BY <2>1, <3>1
  <2>5. Latest(t, v) = t[k].data
    BY <2>3, <2>4, LatestAt
  <2> QED
    BY <2>1, <2>3, <2>5
<1> QED
  BY <1>1, <1>2

First(s, v) == s # <<>> /\ s[1].addr = v

(* A new slot at the end of a page: it has the value of its address, and   *)
(* all other addresses keep theirs.                                        *)
LEMMA AppendedValues ==
  ASSUME NEW s \in Seq(Slot), NEW e \in Slot, NEW t \in Seq(Slot), Len(t) = Len(s) + 1,
         \A i \in 1..Len(s) : t[i] = s[i], t[Len(s) + 1] = e
  PROVE  /\ t # <<>> /\ t[Len(t)] = e
         /\ Latest(t, e.addr) = e.data
         /\ \A v \in Addr : v # e.addr => Latest(t, v) = Latest(s, v) /\ (First(t, v) <=> First(s, v))
         /\ First(s, e.addr) => First(t, e.addr)
         /\ s = <<>> => First(t, e.addr)
<1>1. /\ t \in Seq(Slot) /\ Len(t) = Len(s) + 1 /\ Len(s) \in Nat
      /\ \A i \in 1..Len(s) : t[i] = s[i]
      /\ t[Len(s) + 1] = e
  OBVIOUS
<1>2. t # <<>> /\ t[Len(t)] = e
  BY <1>1
<1>3. Latest(t, e.addr) = e.data
  <2>1. Latest(t, t[Len(t)].addr) = t[Len(t)].data
    BY <1>1, <1>2, LatestLast
  <2> QED
    BY <1>2, <2>1
<1>4. ASSUME NEW v \in Addr, v # e.addr
      PROVE  Latest(t, v) = Latest(s, v) /\ (First(t, v) <=> First(s, v))
  <2>1. IndexesOf(t, v) = IndexesOf(s, v) /\ \A i \in IndexesOf(t, v) : t[i] = s[i]
    BY <1>1, <1>4 DEF IndexesOf
  <2>2. Latest(t, v) = Latest(s, v)
    BY <1>1, <2>1, LatestSame
  <2>3. CASE s = <<>>
    BY <1>1, <1>2, <1>4, <2>2, <2>3 DEF First
  <2>4. CASE s # <<>>
    <3>1. 1 \in 1..Len(s)
      BY <1>1, <2>4, EmptySeq
    <3> QED
      BY <1>1, <1>2, <2>2, <2>4, <3>1 DEF First
  <2> QED
    BY <2>3, <2>4
<1>5. First(s, e.addr) => First(t, e.addr)
  <2> SUFFICES ASSUME First(s, e.addr) PROVE First(t, e.addr)
    OBVIOUS
  <2>1. 1 \in 1..Len(s)
    BY <1>1, EmptySeq DEF First
  <2> QED
    BY <1>1, <1>2, <2>1 DEF First
<1>6. s = <<>> => First(t, e.addr)
  BY <1>1, <1>2 DEF First
<1> QED
  BY <1>1, <1>2, <1>3, <1>4, <1>5, <1>6

(* The address written to a slot that has only its data yet: the same.     *)
LEMMA CompletedValues ==
  ASSUME NEW s \in Seq(Slot), NEW e \in Slot, s # <<>>, s[Len(s)].addr = NoAddr,
         NEW t, t = [s EXCEPT ![Len(s)] = e]
  PROVE  /\ t \in Seq(Slot) /\ Len(t) = Len(s)
         /\ Latest(t, e.addr) = e.data
         /\ \A v : v # e.addr /\ v # NoAddr =>
                    Latest(t, v) = Latest(s, v) /\ (First(t, v) <=> First(s, v))
         /\ First(s, e.addr) => First(t, e.addr)
         /\ Len(s) = 1 => First(t, e.addr)
<1>1. Len(s) \in Nat /\ Len(s) \in 1..Len(s) /\ 1 \in 1..Len(s)
  BY EmptySeq
<1>2. /\ t \in Seq(Slot) /\ Len(t) = Len(s) /\ t # <<>>
      /\ \A i \in 1..Len(s) : t[i] = IF i = Len(s) THEN e ELSE s[i]
  BY <1>1, ExceptSeq
<1>3. Latest(t, e.addr) = e.data
  <2>1. t[Len(t)] = e
    BY <1>1, <1>2
  <2>2. Latest(t, t[Len(t)].addr) = t[Len(t)].data
    BY <1>2, LatestLast
  <2> QED
    BY <2>1, <2>2
<1>4. ASSUME NEW v, v # e.addr, v # NoAddr
      PROVE  Latest(t, v) = Latest(s, v) /\ (First(t, v) <=> First(s, v))
  <2>1. IndexesOf(t, v) = IndexesOf(s, v) /\ \A i \in IndexesOf(t, v) : t[i] = s[i]
    BY <1>1, <1>2, <1>4 DEF IndexesOf
  <2>2. Latest(t, v) = Latest(s, v)
    BY <1>2, <2>1, LatestSame
  <2> QED
    BY <1>1, <1>2, <1>4, <2>2 DEF First
<1> QED
  BY <1>1, <1>2, <1>3, <1>4 DEF First
(* The first half-word of a slot changes no value.                         *)
LEMMA PutDataValues ==
  ASSUME TypeOK, NEW d \in Data, PutData(d)
  PROVE  /\ WritePage \in Page
         /\ \A p \in Page : p # WritePage => log'[p] = log[p]
         /\ \A p \in Page, v \in Addr : /\ Latest(log'[p], v) = Latest(log[p], v)
                                        /\ First(log'[p], v) <=> First(log[p], v)
         /\ Len(log'[WritePage]) = Len(log[WritePage]) + IF d = Blank THEN 0 ELSE 1
         /\ d # Blank => /\ log'[WritePage] # <<>>
                         /\ log'[WritePage][Len(log'[WritePage])].addr = NoAddr
<1> DEFINE e == [addr |-> NoAddr, data |-> d]
           w == WritePage
<1>1. w \in Page /\ log \in [Page -> Seq(Slot)] /\ log[w] \in Seq(Slot)
  BY PageFacts DEF PutData, CanPut, TypeOK, Page
<1>2. e \in Slot /\ e.addr = NoAddr /\ \A v \in Addr : v # e.addr
  BY EepromAssumption DEF Slot
<1>3. CASE d = Blank
  <2>1. log' = log /\ Len(log[w]) \in Nat
    BY <1>1, <1>3 DEF PutData
  <2> QED
    BY <1>1, <1>3, <2>1
<1>4. CASE d # Blank
  <2>1. log' = [log EXCEPT ![w] = Append(log[w], e)]
    BY <1>4 DEF PutData
  <2> HIDE DEF e, w
  <2>2. log'[w] = Append(log[w], e) /\ \A p \in Page : p # w => log'[p] = log[p]
    BY <1>1, <2>1
  <2>3. /\ Len(log'[w]) = Len(log[w]) + 1 /\ log'[w] # <<>> /\ log'[w][Len(log'[w])] = e
        /\ \A v \in Addr : v # e.addr => /\ Latest(log'[w], v) = Latest(log[w], v)
                                         /\ First(log'[w], v) <=> First(log[w], v)
    <3>1. /\ log[w] \in Seq(Slot) /\ e \in Slot /\ log'[w] \in Seq(Slot)
          /\ Len(log'[w]) = Len(log[w]) + 1
          /\ \A i \in 1..Len(log[w]) : log'[w][i] = log[w][i]
          /\ log'[w][Len(log[w]) + 1] = e
      BY <1>1, <1>2, <2>2, AppendProperties
    <3> QED
      BY <3>1, AppendedValues
  <2>4. ASSUME NEW p \in Page, NEW v \in Addr
        PROVE  /\ Latest(log'[p], v) = Latest(log[p], v)
               /\ First(log'[p], v) <=> First(log[p], v)
    <3>1. v # e.addr
      BY <1>2
    <3>2. CASE p = w
      BY <2>3, <3>1, <3>2
    <3>3. CASE p # w
      BY <2>2, <3>3
    <3> QED
      BY <3>2, <3>3
  <2> QED
    BY <1>1, <1>2, <1>4, <2>2, <2>3, <2>4 DEF w
<1> QED
  BY <1>3, <1>4

(* The second one, the address, gives it the value.                        *)
LEMMA PutAddrValues ==
  ASSUME TypeOK, NEW v \in Addr, NEW d \in Data, PutAddr(v, d), HalfSlot(d)
  PROVE  /\ WritePage \in Page
         /\ \A p \in Page : p # WritePage => log'[p] = log[p]
         /\ Latest(log'[WritePage], v) = d
         /\ \A u \in Addr : u # v => /\ Latest(log'[WritePage], u) = Latest(log[WritePage], u)
                                     /\ First(log'[WritePage], u) <=> First(log[WritePage], u)
         /\ First(log[WritePage], v) => First(log'[WritePage], v)
         /\ Len(log'[WritePage]) = Len(log[WritePage]) + IF d = Blank THEN 1 ELSE 0
         /\ Len(log'[WritePage]) = 1 => First(log'[WritePage], v)
<1> DEFINE e == [addr |-> v, data |-> d]
           w == WritePage
           s == log[w]
<1>1. w \in Page /\ log \in [Page -> Seq(Slot)] /\ s \in Seq(Slot)
  BY PageFacts DEF PutAddr, CanPut, TypeOK, Page
<1>2. e \in Slot /\ e.addr = v /\ e.data = d /\ v # NoAddr /\ \A u \in Addr : u # NoAddr
  BY EepromAssumption DEF Slot
<1>3. log' = [log EXCEPT ![w] = IF d = Blank THEN Append(s, e) ELSE [s EXCEPT ![Len(s)] = e]]
  BY DEF PutAddr
<1>4. d # Blank => s # <<>> /\ s[Len(s)].addr = NoAddr
  BY DEF HalfSlot
<1> DEFINE t == IF d = Blank THEN Append(s, e) ELSE [s EXCEPT ![Len(s)] = e]
<1>5. log'[w] = t /\ \A p \in Page : p # w => log'[p] = log[p]
  BY <1>1, <1>3
<1>6. /\ Latest(t, v) = d
      /\ \A u \in Addr : u # v => Latest(t, u) = Latest(s, u) /\ (First(t, u) <=> First(s, u))
      /\ First(s, v) => First(t, v)
      /\ Len(t) = Len(s) + IF d = Blank THEN 1 ELSE 0
      /\ Len(t) = 1 => First(t, v)
  <2> HIDE DEF e, s, w
  <2>0. Len(s) \in Nat /\ (Len(s) = 0 => s = <<>>)
    BY <1>1, EmptySeq
  <2>1. CASE d = Blank
    <3>1. t = Append(s, e)
      BY <2>1
    <3> HIDE DEF t
    <3>2. /\ Len(t) = Len(s) + 1 /\ Latest(t, e.addr) = e.data
          /\ \A u \in Addr : u # e.addr => Latest(t, u) = Latest(s, u) /\ (First(t, u) <=> First(s, u))
          /\ First(s, e.addr) => First(t, e.addr)
          /\ s = <<>> => First(t, e.addr)
      <4>1. /\ s \in Seq(Slot) /\ e \in Slot /\ t \in Seq(Slot) /\ Len(t) = Len(s) + 1
            /\ \A i \in 1..Len(s) : t[i] = s[i]
            /\ t[Len(s) + 1] = e
        BY <1>1, <1>2, <3>1, AppendProperties
      <4> QED
        BY <4>1, AppendedValues
    <3> QED
      BY <1>2, <2>0, <2>1, <3>2
  <2>2. CASE d # Blank
    <3>1. t = [s EXCEPT ![Len(s)] = e]
      BY <2>2
    <3> HIDE DEF t
    <3>2. /\ Len(t) = Len(s) /\ Latest(t, e.addr) = e.data
          /\ \A u : u # e.addr /\ u # NoAddr =>
                     Latest(t, u) = Latest(s, u) /\ (First(t, u) <=> First(s, u))
          /\ First(s, e.addr) => First(t, e.addr)
          /\ Len(s) = 1 => First(t, e.addr)
      BY <1>1, <1>2, <1>4, <2>2, <3>1, CompletedValues
    <3> QED
      BY <1>2, <2>0, <2>2, <3>2
  <2> QED
    BY <2>1, <2>2
<1> HIDE DEF t
<1> QED
  BY <1>1, <1>5, <1>6
-----------------------------------------------------------------------------
(* The values in the pages.                                                *)

(* A request has an address, and the transfer loop starts at the first.    *)
LEMMA RequestNext == TypeInv /\ RequestInv /\ [Next]_vars => RequestInv'
<1> SUFFICES ASSUME TypeInv, RequestInv, [Next]_vars PROVE RequestInv'
  OBVIOUS
<1> USE DEF RequestInv
<1>1. ASSUME NEW v \in Addr, NEW d \in Data, EE_WriteVariable(v, d) PROVE RequestInv'
  BY <1>1 DEF EE_WriteVariable
<1>2. CASE PutRequestData \/ MarkReceive
  BY <1>2 DEF PutRequestData, MarkReceive
<1>3. CASE PutRequestAddr \/ PutFails
  BY <1>3 DEF PutRequestAddr, PutFails, Return
<1>4. CASE CopySkip \/ CopyData \/ CopyAddr \/ CopyDone
  BY <1>4 DEF CopySkip, CopyData, CopyAddr, CopyDone
<1>5. CASE CopyFails \/ FlashError
  BY <1>5 DEF CopyFails, FlashError, Return
<1>6. CASE DoFlashOp
  BY <1>6 DEF DoFlashOp, NextFlashOp, Return
<1>7. CASE EE_Init
  BY <1>7 DEF EE_Init
<1>8. CASE PowerLoss \/ PowerLossInErase
  BY <1>8 DEF PowerLoss, PowerLossInErase, PowerOff
<1>9. CASE UNCHANGED vars
  BY <1>9 DEF vars, ctl
<1> QED
  BY <1>1, <1>2, <1>3, <1>4, <1>5, <1>6, <1>7, <1>8, <1>9 DEF Next, Step

(* Nothing but the first half-word of a slot leaves a slot half done.      *)
LEMMA HalfNext == TypeInv /\ HalfInv /\ [Next]_vars => HalfInv'
<1> SUFFICES ASSUME TypeInv, HalfInv, [Next]_vars PROVE HalfInv'
  OBVIOUS
<1>0. TypeOK /\ Phase
  BY DEF TypeInv
<1>1. CASE ~half'
  BY <1>1 DEF HalfInv
<1>2. CASE PutRequestData
  <2>1. req.data \in Data /\ PutData(req.data) /\ UNCHANGED <<hdr, pc, req>> /\ pc = "put"
    BY <1>0, <1>2 DEF TypeOK, Slot, PutRequestData
  <2>2. WritePage' = WritePage
    BY <2>1, SameHeaders
  <2> QED
    BY <1>0, <2>1, <2>2, PutDataValues DEF HalfInv, HalfSlot
<1>3. CASE CopyData
  <2> DEFINE d == EE_ReadVariable(CopyVar)
             v == CopyVar
  <2>1. /\ d \in Data /\ PutData(d) /\ UNCHANGED <<hdr, pc, op, idx, req>> /\ pc = "copy"
        /\ ~Skipped(v) /\ v \in Addr
    BY <1>0, <1>3, ReadType, CopyVarType DEF CopyData, CopyNeeded
  <2>2. WritePage' = WritePage /\ WritePage \in Page /\ v' = v
    BY <1>0, <2>1, SameHeaders, PutDataValues DEF CopyVar
  <2>3. d' = d
    BY <1>0, <2>1, <2>2, PutElsewhere, SameReads DEF Phase, EE_ReadVariable
  <2>4. Skipped(v)' <=> Skipped(v)
    <3>1. First(log'[WritePage], v) <=> First(log[WritePage], v)
      BY <1>0, <2>1, <2>2, PutDataValues
    <3>2. FirstSlotHolds(v)' <=> FirstSlotHolds(v)
      BY <2>2, <3>1 DEF FirstSlotHolds, First
    <3> QED
      BY <2>1, <2>2, <3>2 DEF Skipped
  <2>5. HalfSlot(d)'
    BY <1>0, <2>1, <2>2, <2>3, PutDataValues DEF HalfSlot
  <2> QED
    BY <2>1, <2>4, <2>5 DEF HalfInv
<1>4. CASE UNCHANGED vars
  <2>1. EE_ReadVariable(CopyVar)' = EE_ReadVariable(CopyVar)
    BY <1>4, SameReads DEF vars, ctl, CopyVar, EE_ReadVariable
  <2>2. Skipped(CopyVar)' <=> Skipped(CopyVar)
    BY <1>4, SameHeaders DEF vars, ctl, CopyVar, Skipped, FirstSlotHolds
  <2> QED
    BY <1>4, <2>1, <2>2, SameHeaders DEF vars, ctl, HalfInv, HalfSlot
<1>5. ASSUME Next, ~PutRequestData, ~CopyData PROVE ~half'
  <2>1. ASSUME NEW v \in Addr, NEW d \in Data, EE_WriteVariable(v, d) PROVE ~half'
    BY <1>0, <2>1 DEF EE_WriteVariable, Phase, TypeOK
  <2>2. CASE PutRequestAddr \/ CopyAddr \/ CopyFails \/ PowerLoss \/ PowerLossInErase \/ FlashError
    BY <2>2, Zenon DEF PutRequestAddr, CopyAddr, CopyFails, PowerLoss, PowerLossInErase, FlashError,
                       PowerOff, Return
  <2>3. CASE PutFails
    BY <1>0, <2>3 DEF PutFails, Return, CanPut, Phase, TypeOK
  <2>4. CASE MarkReceive \/ CopySkip \/ EE_Init
    BY <1>0, <2>4 DEF MarkReceive, CopySkip, EE_Init, Phase, TypeOK
  <2>5. CASE CopyDone
    <3>1. NB_OF_VAR \in Nat
      BY EepromAssumption DEF NB_OF_VAR
    <3> QED
      BY <1>0, <2>5, <3>1 DEF CopyDone, Phase, TypeOK, TypeInv, HalfRoom
  <2>6. CASE DoFlashOp
    BY <1>0, <2>6 DEF DoFlashOp, NextFlashOp, Return, Phase, TypeOK
  <2> QED
    BY <1>5, <2>1, <2>2, <2>3, <2>4, <2>5, <2>6 DEF Next, Step
<1> QED
  BY <1>1, <1>2, <1>3, <1>4, <1>5

(* Only one page receives.                                                 *)
LEMMA FillingOnce ==
  ASSUME NEW p \in Page, NEW q \in Page, Filling(p), Filling(q)
  PROVE  p = q
BY DEF Filling, Page, Other

(* A page in which no slot has an address has no value.                    *)
LEMMA NoValues ==
  ASSUME NEW s \in Seq(Slot), NEW v \in Addr, \A i \in 1..Len(s) : s[i].addr = NoAddr
  PROVE  Latest(s, v) = NotFound
<1>1. v # NoAddr
  BY EepromAssumption
<1>2. IndexesOf(s, v) = {}
  BY <1>1 DEF IndexesOf
<1> QED
  BY <1>2, LatestIs

KeptIn(l, p, v) == First(l[p], v) \/ Latest(l[p], v) = Latest(l[Other(p)], v)

(* The values of the page being filled depend on the slots only.           *)
LEMMA KeptDefs ==
  ASSUME NEW p, NEW v
  PROVE  /\ Kept(p, v) <=> KeptIn(log, p, v)
         /\ Kept(p, v)' <=> KeptIn(log', p, v)
         /\ Missing(p, v) <=> Latest(log[p], v) = NotFound
         /\ Missing(p, v)' <=> Latest(log'[p], v) = NotFound
         /\ FirstHolds(p, v) <=> First(log[p], v)
         /\ FirstHolds(p, v)' <=> First(log'[p], v)
         /\ Filling(p) <=> hdr[p] = "RECEIVE_DATA" /\ hdr[Other(p)] = "VALID_PAGE"
         /\ Filling(p)' <=> hdr'[p] = "RECEIVE_DATA" /\ hdr'[Other(p)] = "VALID_PAGE"
BY DEF Kept, KeptIn, Missing, FirstHolds, First, Filling

(* Until its first address is written the page being filled has no value.  *)
LEMMA NothingYet ==
  ASSUME TypeInv, HalfInv, ValuesInv, ~degraded, pc = "put", op = "transfer",
         NEW p \in Page, Filling(p), NEW v \in Addr
  PROVE  Missing(p, v)
<1>1. Len(log[p]) = IF half /\ req.data # Blank THEN 1 ELSE 0
  BY DEF ValuesInv
<1>2. WritePage = p /\ log[p] \in Seq(Slot)
  BY FillingWrite DEF TypeInv, TypeOK
<1>3. \A i \in 1..Len(log[p]) : log[p][i].addr = NoAddr
  BY <1>1, <1>2 DEF HalfInv, HalfSlot
<1> QED
  BY <1>2, <1>3, NoValues DEF Missing

(* Every step keeps the values where EE_Init and the transfer find them.   *)
LEMMA ValuesNext ==
  ASSUME TypeInv, PagesInv, PagesInv', RequestInv, HalfInv, ValuesInv, [Next]_vars
  PROVE  ValuesInv'
<1> SUFFICES ASSUME ~degraded' PROVE ValuesInv'
  BY DEF ValuesInv
<1>0. ~degraded /\ TypeOK /\ Phase
  BY DEF TypeInv, TypeOK, Next, Step, vars, env, EE_WriteVariable, PutRequestData, PutRequestAddr,
         PutFails, MarkReceive, CopySkip, CopyData, CopyAddr, CopyFails, CopyDone, DoFlashOp,
         EE_Init, PowerLoss, PowerLossInErase, FlashError
<1>1. ASSUME pc' \in {"idle", "mark"} \/ (pc' = "put" /\ op' = "write") PROVE ValuesInv'
  BY <1>1 DEF ValuesInv
<1>2. ASSUME NEW v \in Addr, NEW d \in Data, EE_WriteVariable(v, d) PROVE ValuesInv'
  BY <1>1, <1>2 DEF EE_WriteVariable
<1>3. CASE PutFails
  BY <1>1, <1>3, Zenon DEF PutFails, Return
<1>4. CASE CopyFails \/ FlashError
  BY <1>1, <1>4, Zenon DEF CopyFails, FlashError, Return
<1>5. CASE PutRequestData
  <2>1. CASE op = "write"
    BY <1>1, <1>5, <2>1 DEF PutRequestData
  <2>2. CASE op = "transfer"
    <3>1. /\ req.data \in Data /\ PutData(req.data) /\ ~half /\ half'
          /\ UNCHANGED <<hdr, pc, op, req>> /\ pc = "put"
      BY <1>0, <1>5 DEF TypeOK, Slot, PutRequestData, PutData
    <3>2. ASSUME NEW p \in Page, Filling(p)'
          PROVE  Len(log'[p]) = IF req.data # Blank THEN 1 ELSE 0
      <4>1. Filling(p)
        BY <3>1, <3>2 DEF Filling
      <4>2. WritePage = p /\ Len(log[p]) = 0
        BY <1>0, <2>2, <3>1, <4>1, FillingWrite DEF ValuesInv
      <4>3. Len(log'[p]) = Len(log[p]) + IF req.data = Blank THEN 0 ELSE 1
        BY <1>0, <3>1, <4>2, PutDataValues
      <4> QED
        BY <4>2, <4>3
    <3> QED
      BY <3>1, <3>2 DEF ValuesInv
  <2> QED
    BY <1>0, <1>5, <2>1, <2>2 DEF PutRequestData, Phase
<1>6. CASE PutRequestAddr
  <2>1. CASE op = "write"
    BY <1>1, <1>6, <2>1 DEF PutRequestAddr, Return
  <2>2. CASE op = "transfer"
    <3>1. /\ req.data \in Data /\ req.addr \in Addr /\ PutAddr(req.addr, req.data)
          /\ HalfSlot(req.data) /\ half
          /\ UNCHANGED <<hdr, op, req, idx>> /\ pc = "put" /\ pc' = "copy" /\ idx = 1
      BY <1>0, <1>6, <2>2 DEF TypeOK, Slot, PutRequestAddr, PutAddr, RequestInv, HalfInv
    <3>2. Passed' = {}
      BY <3>1 DEF Passed
    <3>3. ASSUME NEW p \in Page, Filling(p)'
          PROVE  /\ First(log'[p], req.addr)
                 /\ Latest(log'[p], req.addr) = req.data
                 /\ \A v \in Addr : KeptIn(log', p, v) \/ Latest(log'[p], v) = NotFound
      <4>1. Filling(p)
        BY <3>1, <3>3 DEF Filling
      <4>2. WritePage = p /\ Len(log[p]) = IF req.data # Blank THEN 1 ELSE 0
        BY <1>0, <2>2, <3>1, <4>1, FillingWrite DEF ValuesInv
      <4>3. /\ Latest(log'[p], req.addr) = req.data
            /\ \A u \in Addr : u # req.addr => Latest(log'[p], u) = Latest(log[p], u)
            /\ Len(log'[p]) = Len(log[p]) + IF req.data = Blank THEN 1 ELSE 0
            /\ Len(log'[p]) = 1 => First(log'[p], req.addr)
        BY <1>0, <3>1, <4>2, PutAddrValues
      <4>4. First(log'[p], req.addr)
        BY <4>2, <4>3
      <4>5. \A u \in Addr : Latest(log[p], u) = NotFound
        BY <1>0, <2>2, <3>1, <4>1, NothingYet DEF Missing
      <4> QED
        BY <4>3, <4>4, <4>5 DEF KeptIn
    <3>4. CopyInv'
      BY <3>1, <3>2, <3>3, KeptDefs DEF CopyInv, Requested
    <3> QED
      BY <3>1, <3>4 DEF ValuesInv
  <2> QED
    BY <1>0, <1>6, <2>1, <2>2 DEF PutRequestAddr, Phase
<1>7. CASE MarkReceive
  <2>1. pc' = "put" /\ op' = "transfer" /\ ~half'
    BY <1>0, <1>7 DEF MarkReceive, Phase, TypeOK
  <2>2. PICK q \in Page : Filling(q)' /\ log'[q] = <<>>
    BY <2>1 DEF PagesInv
  <2>3. \A p \in Page : Filling(p)' => p = q
    BY <2>2 DEF Filling, Page, Other
  <2> QED
    BY <2>1, <2>2, <2>3 DEF ValuesInv
<1>8. CASE CopySkip
  <2>1. /\ UNCHANGED <<hdr, log, pc, op, req>> /\ idx' = idx + 1 /\ pc = "copy" /\ CopyInv
        /\ idx \in Nat /\ idx >= 1
    BY <1>0, <1>8 DEF CopySkip, ValuesInv, TypeOK
  <2>2. Passed' \subseteq Passed \cup {CopyVar}
    BY <2>1 DEF Passed, CopyVar
  <2>3. ASSUME NEW p \in Page, Filling(p)
        PROVE  CopyVar \in Addr => Kept(p, CopyVar) \/ ~Missing(p, CopyVar)
    <3>1. WritePage = p /\ ReadPage = Other(p) /\ ReadPage # NoPage
      BY <1>0, <2>3, FillingWrite, OtherPage DEF Page, NoPage
    <3>2. Skipped(CopyVar) \/ EE_ReadVariable(CopyVar) = NotFound
      BY <1>8 DEF CopySkip, CopyNeeded
    <3>3. CASE Skipped(CopyVar)
      BY <2>1, <2>3, <3>1, <3>3 DEF Skipped, FirstSlotHolds, CopyInv, FirstHolds, Kept
    <3>4. CASE EE_ReadVariable(CopyVar) = NotFound
      BY <3>1, <3>4 DEF EE_ReadVariable, Missing, Kept
    <3> QED
      BY <3>2, <3>3, <3>4
  <2>4. ASSUME NEW p \in Page, Filling(p), NEW v \in Addr
        PROVE  Kept(p, v) \/ (Missing(p, v) /\ v \notin Passed')
    BY <2>1, <2>2, <2>3, <2>4 DEF CopyInv
  <2>5. CopyInv'
    BY <2>1, <2>4 DEF CopyInv, Requested, Kept, Missing, FirstHolds, Filling
  <2> QED
    BY <2>1, <2>5 DEF ValuesInv
<1>9. CASE CopyData
  <2> DEFINE d == EE_ReadVariable(CopyVar)
  <2>1. /\ d \in Data /\ PutData(d) /\ UNCHANGED <<hdr, pc, op, idx, req>> /\ pc = "copy" /\ CopyInv
    BY <1>0, <1>9, ReadType DEF CopyData, CopyNeeded, ValuesInv
  <2>2. \A p \in Page, v \in Addr : /\ Latest(log'[p], v) = Latest(log[p], v)
                                    /\ First(log'[p], v) <=> First(log[p], v)
    BY <1>0, <2>1, PutDataValues
  <2> HIDE DEF d
  <2>3. Passed' = Passed
    BY <2>1 DEF Passed
  <2>4. ASSUME NEW p \in Page, Filling(p)'
        PROVE  /\ \A v \in Addr : KeptIn(log', p, v) \/ (Latest(log'[p], v) = NotFound /\ v \notin Passed)
               /\ op = "transfer" => First(log'[p], req.addr) /\ Latest(log'[p], req.addr) = req.data
    <3>1. Filling(p) /\ Other(p) \in Page /\ (op = "transfer" => req.addr \in Addr)
      BY <2>1, <2>4, OtherPage DEF Filling, RequestInv
    <3>2. /\ \A v \in Addr : KeptIn(log, p, v) \/ (Latest(log[p], v) = NotFound /\ v \notin Passed)
          /\ op = "transfer" => First(log[p], req.addr) /\ Latest(log[p], req.addr) = req.data
      BY <2>1, <3>1, KeptDefs DEF CopyInv, Requested
    <3> QED
      BY <2>2, <3>1, <3>2 DEF KeptIn
  <2>5. CopyInv'
    BY <2>1, <2>3, <2>4, KeptDefs DEF CopyInv, Requested
  <2> QED
    BY <2>1, <2>5 DEF ValuesInv
<1>10. CASE CopyAddr
  <2> DEFINE w == CopyVar
             d == EE_ReadVariable(w)
  <2>1. /\ d \in Data /\ w \in Addr /\ PutAddr(w, d) /\ HalfSlot(d) /\ ~Skipped(w)
        /\ UNCHANGED <<hdr, pc, op, req>> /\ pc = "copy" /\ CopyInv
        /\ idx' = idx + 1 /\ idx \in Nat /\ idx >= 1
    BY <1>0, <1>10, ReadType, CopyVarType
       DEF CopyAddr, PutAddr, TypeInv, HalfRoom, HalfInv, ValuesInv, TypeOK
  <2>2. Passed' \subseteq Passed \cup {w}
    BY <2>1 DEF Passed, CopyVar
  <2>3. ASSUME NEW p \in Page, Filling(p)'
        PROVE  /\ \A v \in Addr : KeptIn(log', p, v) \/ (Latest(log'[p], v) = NotFound /\ v \notin Passed')
               /\ op = "transfer" => First(log'[p], req.addr) /\ Latest(log'[p], req.addr) = req.data
    <3>1. Filling(p) /\ Other(p) \in Page /\ Other(p) # p /\ (op = "transfer" => req.addr \in Addr)
      BY <2>1, <2>3, OtherPage DEF Filling, RequestInv
    <3>2. /\ \A v \in Addr : KeptIn(log, p, v) \/ (Latest(log[p], v) = NotFound /\ v \notin Passed)
          /\ op = "transfer" => First(log[p], req.addr) /\ Latest(log[p], req.addr) = req.data
      BY <2>1, <3>1, KeptDefs DEF CopyInv, Requested
    <3>3. WritePage = p /\ ReadPage = Other(p) /\ ReadPage # NoPage
      BY <1>0, <3>1, FillingWrite DEF Page, NoPage
    <3>4. d = Latest(log[Other(p)], w)
      BY <3>3 DEF EE_ReadVariable
    <3>5. op = "transfer" => w # req.addr
      BY <2>1 DEF Skipped
    <3>6. /\ log'[Other(p)] = log[Other(p)]
          /\ Latest(log'[p], w) = d
          /\ \A u \in Addr : u # w => /\ Latest(log'[p], u) = Latest(log[p], u)
                                      /\ First(log'[p], u) <=> First(log[p], u)
      BY <1>0, <2>1, <3>1, <3>3, PutAddrValues
    <3> HIDE DEF w, d
    <3> QED
      BY <2>2, <3>1, <3>2, <3>4, <3>5, <3>6 DEF KeptIn
  <2>4. CopyInv'
    BY <2>1, <2>3, KeptDefs DEF CopyInv, Requested
  <2> QED
    BY <2>1, <2>4 DEF ValuesInv
<1>11. CASE CopyDone
  <2>1. /\ UNCHANGED <<hdr, log, op, req, idx>> /\ pc = "copy" /\ pc' = "tail" /\ CopyInv
        /\ tail' = TransferTail /\ idx > NB_OF_VAR /\ idx \in Nat /\ NB_OF_VAR \in Nat
    BY <1>0, <1>11, EepromAssumption DEF CopyDone, ValuesInv, TypeOK, NB_OF_VAR
  <2>2. Moved \subseteq Passed
    BY <2>1 DEF Moved, Passed
  <2>3. PICK p \in Page : Filling(p)
    BY <1>0, <2>1 DEF PagesInv
  <2>4. ReadPage = Other(p) /\ Other(ReadPage) = p
    BY <1>0, <2>3, FillingWrite, OtherPage
  <2>5. \A q \in Page : Filling(q)' =>
          \A v \in Addr : Kept(q, v)' \/ (Missing(q, v)' /\ v \notin Moved)
    BY <2>1, <2>2 DEF CopyInv, Kept, Missing, FirstHolds, Filling
  <2>6. op = "transfer" => tail' = <<Erase(Other(p)), Valid(p)>> /\ hdr'[p] = "RECEIVE_DATA" /\ Requested(p)'
    BY <2>1, <2>3, <2>4 DEF TransferTail, Filling, CopyInv, Requested
  <2>7. TailInv'
    BY <2>1, <2>5, <2>6 DEF TailInv
  <2> QED
    BY <2>1, <2>7 DEF ValuesInv
<1>12. CASE EE_Init
  <2>1. UNCHANGED <<hdr, log, idx>> /\ pc = "off" /\ op' = "init" /\ idx = 1
    BY <1>12 DEF EE_Init, RequestInv
  <2>2. CASE pc' = "copy"
    <3>1. Passed' = {}
      BY <2>1 DEF Passed
    <3>2. \A p \in Page : Filling(p) => \A v \in Addr : Kept(p, v) \/ Missing(p, v)
      BY <1>0, <2>1 DEF ValuesInv
    <3>3. CopyInv'
      BY <2>1, <3>1, <3>2 DEF CopyInv, Kept, Missing, FirstHolds, Filling
    <3> QED
      BY <2>2, <3>3 DEF ValuesInv
  <2>3. CASE pc' = "tail" /\ ~InitCopies(hdr[0], hdr[1])
    <3>1. \A p \in Page : ~Filling(p)'
      BY <2>1, <2>3 DEF Filling, InitCopies, Page, Other
    <3>2. TailInv'
      BY <2>1, <3>1 DEF TailInv
    <3> QED
      BY <2>3, <3>2 DEF ValuesInv
  <2> QED
    BY <1>12, <2>2, <2>3 DEF EE_Init
<1>13. CASE DoFlashOp
  <2>0. NextFlashOp /\ pc = "tail" /\ TailInv
    BY <1>0, <1>13 DEF DoFlashOp, ValuesInv
  <2>1. CASE Len(tail) = 1
    BY <1>1, <2>0, <2>1 DEF NextFlashOp, Return
  <2>2. CASE Len(tail) # 1
    <3>1. tail' = Tail(tail) /\ pc' = "tail" /\ op' = op /\ req' = req
      BY <2>0, <2>2, Zenon DEF NextFlashOp
    <3>2. \A x \in Page : ~Filling(x)'
      <4>1. CASE FormatState
        BY <1>0, <1>13, <4>1 DEF DoFlashOp, FormatState, AllEmpty, Empty, EE_Format, Erase, Valid,
                                 Program, Filling, TypeOK, Page, Other
      <4>2. ASSUME NEW p \in Page, TailState(p, Other(p)) PROVE \A x \in Page : ~Filling(x)'
        <5>1. CASE tail = <<Erase(Other(p)), Valid(p)>>
          <6>1. hdr' = [hdr EXCEPT ![Other(p)] = "ERASED"]
            BY <1>13, <5>1 DEF DoFlashOp, Erase
          <6> QED
            BY <1>0, <6>1 DEF TypeOK, Filling, Page, Other
        <5>2. CASE tail = <<Valid(p), Erase(Other(p))>> /\ Filling(p)
          <6>1. hdr' = [hdr EXCEPT ![p] = "VALID_PAGE"]
            BY <1>13, <5>2 DEF DoFlashOp, Valid, Program
          <6> QED
            BY <1>0, <5>2, <6>1 DEF TypeOK, Filling, Page, Other
        <5> QED
          BY <2>2, <4>2, <5>1, <5>2 DEF TailState
      <4> QED
        BY <1>0, <2>0, <4>1, <4>2 DEF PagesInv
    <3>3. ASSUME op = "transfer"
          PROVE  \E p \in Page : /\ tail' = <<Valid(p)>>
                                 /\ hdr'[p] = "RECEIVE_DATA" /\ Requested(p)'
      <4>1. PICK p \in Page : /\ tail \in {<<Erase(Other(p)), Valid(p)>>, <<Valid(p)>>}
                              /\ hdr[p] = "RECEIVE_DATA" /\ Requested(p)
        BY <2>0, <3>3 DEF TailInv
      <4>2. tail = <<Erase(Other(p)), Valid(p)>>
        BY <2>2, <4>1
      <4>3. /\ hdr' = [hdr EXCEPT ![Other(p)] = "ERASED"]
            /\ log' = [log EXCEPT ![Other(p)] = <<>>]
            /\ tail' = <<Valid(p)>>
        BY <1>13, <3>1, <4>2 DEF DoFlashOp, Erase
      <4>4. hdr'[p] = hdr[p] /\ log'[p] = log[p]
        BY <1>0, <4>3, OtherPage DEF TypeOK
      <4> QED
        BY <3>1, <4>1, <4>3, <4>4 DEF Requested
    <3>4. TailInv'
      BY <3>1, <3>2, <3>3 DEF TailInv
    <3> QED
      BY <3>1, <3>4 DEF ValuesInv
  <2> QED
    BY <2>1, <2>2
<1>14. CASE PowerLoss
  <2>1. hdr' = hdr /\ log' = log /\ pc' = "off" /\ pc # "off"
    BY <1>14 DEF PowerLoss, PowerOff
  <2>2. ASSUME NEW p \in Page, Filling(p), NEW v \in Addr PROVE Kept(p, v) \/ Missing(p, v)
    <3>1. CASE pc \in {"idle", "mark"} \/ (pc = "put" /\ op = "write")
      <4>1. PICK q \in Page : Clean(q)
        BY <1>0, <3>1 DEF PagesInv
      <4> QED
        BY <2>2, <4>1 DEF Clean, Empty, Filling, Page, Other
    <3>2. CASE pc = "put" /\ op = "transfer"
      BY <1>0, <2>2, <3>2, NothingYet
    <3>3. CASE pc = "copy"
      BY <1>0, <2>2, <3>3 DEF ValuesInv, CopyInv
    <3>4. CASE pc = "tail"
      BY <1>0, <2>2, <3>4 DEF ValuesInv, TailInv
    <3> QED
      BY <1>0, <2>1, <3>1, <3>2, <3>3, <3>4 DEF TypeOK, Phase
  <2> QED
    BY <2>1, <2>2 DEF ValuesInv, Kept, Missing, FirstHolds, Filling
<1>15. CASE PowerLossInErase
  <2> DEFINE e == Head(tail).page
  <2>1. hdr' = [hdr EXCEPT ![e] = "ERASED"] /\ pc' = "off"
    BY <1>15 DEF PowerLossInErase, PowerOff
  <2>2. e \in Page
    <3>1. tail # <<>> /\ tail \in Seq(FlashOp)
      BY <1>0, <1>15 DEF PowerLossInErase, Phase, TypeOK
    <3>2. Head(tail) \in FlashOp
      BY <3>1
    <3> QED
      BY <3>2 DEF FlashOp
  <2> HIDE DEF e
  <2>3. \A p \in Page : ~Filling(p)'
    BY <1>0, <2>1, <2>2 DEF TypeOK, Filling, Page, Other
  <2> QED
    BY <2>1, <2>3 DEF ValuesInv
<1>16. CASE UNCHANGED vars
  <2>1. UNCHANGED <<hdr, log, pc, op, idx, req, half, tail>>
    BY <1>16 DEF vars, ctl
  <2>2. (CopyInv' <=> CopyInv) /\ (TailInv' <=> TailInv)
    BY <2>1 DEF CopyInv, TailInv, Kept, Missing, FirstHolds, Filling, Requested, Passed
  <2> QED
    BY <1>0, <2>1, <2>2 DEF ValuesInv, Kept, Missing, FirstHolds, Filling
<1> QED
  BY <1>2, <1>3, <1>4, <1>5, <1>6, <1>7, <1>8, <1>9, <1>10, <1>11, <1>12, <1>13, <1>14,
     <1>15, <1>16 DEF Next, Step

-----------------------------------------------------------------------------
(* What EE_Init would recover.                                            *)

(* What EE_Init would leave, as an operator of the pages: their headers,   *)
(* their slots and the operations that are left.                           *)
ReadOf(h) ==
  IF h[0] = "VALID_PAGE" THEN 0
  ELSE IF h[1] = "VALID_PAGE" THEN 1 ELSE NoPage
BothOf(h) == h[0] = "VALID_PAGE" /\ h[1] = "VALID_PAGE"
RecoveredOf(h, l, t, v) ==
  LET r == ReadOf(h)
      o == Other(ReadOf(h))
      receiving == {p \in Page : h[p] = "RECEIVE_DATA"}
  IN CASE BothOf(h) /\ t # <<>> -> Latest(l[Other(Head(t).page)], v)
       [] r = NoPage ->
            IF receiving = {} THEN NotFound
            ELSE Latest(l[CHOOSE p \in receiving : TRUE], v)
       [] r # NoPage /\ ~BothOf(h) /\ h[o] = "RECEIVE_DATA" ->
            IF First(l[o], v) THEN Latest(l[o], v)
            ELSE Latest(l[r], v)
       [] OTHER -> Latest(l[r], v)

(* Recovered is that operator, now and after a step.                       *)
LEMMA RecoveredNow ==
  ASSUME NEW v
  PROVE  Recovered(v) = RecoveredOf(hdr, log, tail, v)
BY DEF Recovered, RecoveredOf, ReadPage, ReadOf, BothValid, BothOf, First

(* The same after a step.                                                  *)
LEMMA RecoveredThen ==
  ASSUME NEW v
  PROVE  Recovered(v)' = RecoveredOf(hdr', log', tail', v)
BY DEF Recovered, RecoveredOf, ReadPage, ReadOf, BothValid, BothOf, First

(* Which page it takes a value from, for each pair of headers.             *)
LEMMA RecoveredValid ==
  ASSUME NEW h, NEW l, NEW t, NEW v, NEW p \in Page, h[p] = "VALID_PAGE", h[Other(p)] = "ERASED"
  PROVE  RecoveredOf(h, l, t, v) = Latest(l[p], v)
<1>1. ReadOf(h) = p /\ ~BothOf(h) /\ p # NoPage
  BY DEF Page, Other, ReadOf, BothOf, NoPage
<1> QED
  BY <1>1 DEF RecoveredOf

(* With a page being filled: its first slot's value is already moved.      *)
LEMMA RecoveredFilling ==
  ASSUME NEW h, NEW l, NEW t, NEW v, NEW p \in Page, h[p] = "RECEIVE_DATA", h[Other(p)] = "VALID_PAGE"
  PROVE  RecoveredOf(h, l, t, v) = IF First(l[p], v) THEN Latest(l[p], v) ELSE Latest(l[Other(p)], v)
<1>1. ReadOf(h) = Other(p) /\ ~BothOf(h) /\ Other(p) # NoPage /\ Other(Other(p)) = p
  BY DEF Page, Other, ReadOf, BothOf, NoPage
<1> QED
  BY <1>1 DEF RecoveredOf

(* With the old page erased: everything is in the new one.                 *)
LEMMA RecoveredReceive ==
  ASSUME NEW h, NEW l, NEW t, NEW v, NEW p \in Page, h[p] = "RECEIVE_DATA", h[Other(p)] = "ERASED"
  PROVE  RecoveredOf(h, l, t, v) = Latest(l[p], v)
<1>1. ReadOf(h) = NoPage /\ ~BothOf(h)
  BY DEF Page, Other, ReadOf, BothOf, NoPage
<1>2. {q \in Page : h[q] = "RECEIVE_DATA"} = {p}
  BY DEF Page, Other
<1>3. (CHOOSE q \in {p} : TRUE) = p
  OBVIOUS
<1> QED
  BY <1>1, <1>2, <1>3 DEF RecoveredOf

(* With both valid: the page that is not about to be erased.               *)
LEMMA RecoveredBoth ==
  ASSUME NEW h, NEW l, NEW t, NEW v, BothOf(h), t # <<>>
  PROVE  RecoveredOf(h, l, t, v) = Latest(l[Other(Head(t).page)], v)
BY DEF RecoveredOf, ReadOf, NoPage, BothOf

(* With both erased: nothing.                                              *)
LEMMA RecoveredNone ==
  ASSUME NEW h, NEW l, NEW t, NEW v, h[0] = "ERASED", h[1] = "ERASED"
  PROVE  RecoveredOf(h, l, t, v) = NotFound
<1>1. ReadOf(h) = NoPage /\ ~BothOf(h) /\ {q \in Page : h[q] = "RECEIVE_DATA"} = {}
  BY DEF ReadOf, BothOf, NoPage, Page
<1> QED
  BY <1>1 DEF RecoveredOf

(* The operations that are left matter only with both pages valid.         *)
LEMMA RecoveredTail ==
  ASSUME NEW h, NEW l, NEW t, NEW u, NEW v, ~BothOf(h)
  PROVE  RecoveredOf(h, l, t, v) = RecoveredOf(h, l, u, v)
BY DEF RecoveredOf

(* A step that leaves the pages alone changes nothing, unless both pages   *)
(* are valid.                                                              *)
LEMMA SamePagesValue ==
  ASSUME hdr' = hdr, log' = log, ~BothValid \/ tail' = tail, NEW v
  PROVE  Recovered(v)' = Recovered(v)
<1>1. ~BothOf(hdr) \/ tail' = tail
  BY DEF BothValid, BothOf
<1>2. RecoveredOf(hdr, log, tail', v) = RecoveredOf(hdr, log, tail, v)
  BY <1>1, RecoveredTail
<1> QED
  BY <1>2, RecoveredNow, RecoveredThen

(* Neither is valid beside a page that is empty or being filled.           *)
LEMMA NotBoth ==
  ASSUME NEW p \in Page, Clean(p) \/ Filling(p) \/ Empty(p)
  PROVE  ~BothValid
BY DEF Clean, Filling, Empty, BothValid, Page, Other

(* A value that the transfer has kept is recovered from the new page.      *)
LEMMA KeptRecovered ==
  ASSUME NEW h \in [Page -> PageStatus], NEW l, NEW t, NEW v, NEW p \in Page,
         h[p] = "RECEIVE_DATA", h[Other(p)] # "RECEIVE_DATA",
         h[Other(p)] = "VALID_PAGE" => KeptIn(l, p, v)
  PROVE  RecoveredOf(h, l, t, v) = Latest(l[p], v)
<1>1. h[Other(p)] \in {"VALID_PAGE", "ERASED"}
  BY OtherPage DEF PageStatus
<1> QED
  BY <1>1, RecoveredFilling, RecoveredReceive DEF KeptIn

(* The page-level operations change no value: the page that is erased is   *)
(* not the one a value is recovered from, and the page marked valid is.    *)
LEMMA FlashOpKeeps ==
  ASSUME TypeInv, PagesInv, ValuesInv, ~degraded, DoFlashOp \/ PowerLossInErase,
         NEW v \in Addr \cap Moved
  PROVE  Recovered(v)' = Recovered(v)
<1>0. /\ TypeOK /\ pc = "tail" /\ TailInv /\ hdr \in [Page -> PageStatus]
      /\ DoFlashOp => NextFlashOp
  BY DEF TypeInv, TypeOK, DoFlashOp, PowerLossInErase, ValuesInv
<1>1. ASSUME NEW p \in Page, Head(tail) = Erase(p), hdr[p] # "RECEIVE_DATA"
      PROVE  /\ hdr' = [hdr EXCEPT ![p] = "ERASED"] /\ hdr' \in [Page -> PageStatus]
             /\ log'[Other(p)] = log[Other(p)]
  <2>1. hdr' = [hdr EXCEPT ![p] = "ERASED"]
    BY <1>1 DEF DoFlashOp, PowerLossInErase, Erase
  <2>2. log'[Other(p)] = log[Other(p)]
    BY <1>0, <1>1, OtherPage DEF DoFlashOp, PowerLossInErase, Erase, TypeOK
  <2> QED
    BY <1>0, <2>1, <2>2 DEF PageStatus
<1>2. ASSUME NEW p \in Page, Head(tail) = Valid(p)
      PROVE  /\ hdr' = [hdr EXCEPT ![p] = "VALID_PAGE"] /\ hdr' \in [Page -> PageStatus]
             /\ log' = log /\ DoFlashOp
  <2>1. hdr' = [hdr EXCEPT ![p] = "VALID_PAGE"] /\ log' = log /\ DoFlashOp
    BY <1>2 DEF DoFlashOp, PowerLossInErase, Valid, Program
  <2> QED
    BY <1>0, <2>1 DEF PageStatus
<1>3. CASE FormatState
  <2>0. /\ hdr[0] = "ERASED" /\ hdr[1] = "ERASED" /\ log[0] = <<>> /\ log[1] = <<>>
        /\ 0 \in Page /\ Other(0) = 1
    BY <1>3 DEF FormatState, AllEmpty, Empty, Page, Other
  <2>1. RecoveredOf(hdr, log, tail, v) = NotFound
    BY <2>0, RecoveredNone
  <2>2. CASE Head(tail) = Erase(0)
    <3>1. hdr' \in [Page -> PageStatus] /\ hdr'[0] = "ERASED" /\ hdr'[1] = "ERASED"
      BY <1>0, <1>1, <2>0, <2>2 DEF Page
    <3>2. RecoveredOf(hdr', log', tail', v) = NotFound
      BY <3>1, RecoveredNone
    <3> QED
      BY <2>1, <3>2, RecoveredNow, RecoveredThen
  <2>3. CASE Head(tail) = Valid(0)
    <3>1. hdr' \in [Page -> PageStatus] /\ hdr'[0] = "VALID_PAGE" /\ hdr'[1] = "ERASED" /\ log'[0] = <<>>
      BY <1>0, <1>2, <2>0, <2>3 DEF Page
    <3>2. Latest(<<>>, v) = NotFound
      BY DEF Latest, IndexesOf
    <3>3. RecoveredOf(hdr', log', tail', v) = NotFound
      BY <2>0, <3>1, <3>2, RecoveredValid
    <3> QED
      BY <2>1, <3>3, RecoveredNow, RecoveredThen
  <2> QED
    BY <1>3, <2>2, <2>3 DEF FormatState, EE_Format
<1>4. ASSUME NEW p \in Page, TailState(p, Other(p)) PROVE Recovered(v)' = Recovered(v)
  <2> DEFINE q == Other(p)
  <2>0. q \in Page /\ Other(q) = p /\ q # p
    BY OtherPage
  <2>1. CASE tail = <<Erase(q), Valid(p)>> /\ hdr[p] = "RECEIVE_DATA" /\ hdr[q] # "RECEIVE_DATA"
    <3>1. Head(tail) = Erase(q)
      BY <2>1
    <3>2. RecoveredOf(hdr, log, tail, v) = Latest(log[p], v)
      <4>1. hdr[q] = "VALID_PAGE" => KeptIn(log, p, v)
        BY <1>0, <2>1, KeptDefs DEF TailInv, Filling
      <4>2. CASE hdr[q] = "VALID_PAGE"
        <5>1. RecoveredOf(hdr, log, tail, v) =
                IF First(log[p], v) THEN Latest(log[p], v) ELSE Latest(log[q], v)
          BY <2>1, <4>2, RecoveredFilling
        <5> QED
          BY <4>1, <4>2, <5>1 DEF KeptIn
      <4>3. CASE hdr[q] = "ERASED"
        BY <2>1, <4>3, RecoveredReceive
      <4> QED
        BY <1>0, <2>0, <2>1, <4>2, <4>3 DEF PageStatus
    <3>3. /\ hdr' \in [Page -> PageStatus] /\ hdr'[p] = "RECEIVE_DATA" /\ hdr'[q] = "ERASED"
          /\ log'[p] = log[p]
      BY <1>0, <1>1, <2>0, <2>1, <3>1
    <3>4. RecoveredOf(hdr', log', tail', v) = Latest(log[p], v)
      BY <3>3, RecoveredReceive
    <3> QED
      BY <3>2, <3>4, RecoveredNow, RecoveredThen
  <2>2. CASE tail = <<Valid(p)>> /\ hdr[p] = "RECEIVE_DATA" /\ Empty(q)
    <3>1. Head(tail) = Valid(p)
      BY <2>2
    <3>2. RecoveredOf(hdr, log, tail, v) = Latest(log[p], v)
      BY <2>2, RecoveredReceive DEF Empty
    <3>3. /\ hdr' \in [Page -> PageStatus] /\ hdr'[p] = "VALID_PAGE" /\ hdr'[q] = "ERASED"
          /\ log'[p] = log[p]
      BY <1>0, <1>2, <2>0, <2>2, <3>1 DEF Empty
    <3>4. RecoveredOf(hdr', log', tail', v) = Latest(log[p], v)
      BY <3>3, RecoveredValid
    <3> QED
      BY <3>2, <3>4, RecoveredNow, RecoveredThen
  <2>3. CASE tail = <<Valid(p), Erase(q)>> /\ Filling(p)
    <3>1. Head(tail) = Valid(p) /\ Len(tail) # 1 /\ Tail(tail) = <<Erase(q)>>
      BY <2>3
    <3>2. RecoveredOf(hdr, log, tail, v) = Latest(log[p], v)
      <4>1. KeptIn(log, p, v)
        BY <1>0, <2>3, KeptDefs DEF TailInv
      <4> QED
        BY <1>0, <2>3, <4>1, KeptRecovered DEF Filling
    <3>3. /\ hdr' \in [Page -> PageStatus] /\ hdr'[p] = "VALID_PAGE" /\ hdr'[q] = "VALID_PAGE"
          /\ log' = log /\ DoFlashOp
      BY <1>0, <1>2, <2>0, <2>3, <3>1 DEF Filling
    <3>4. tail' = <<Erase(q)>>
      <4>1. tail' = Tail(tail)
        BY <1>0, <3>1, <3>3, Zenon DEF NextFlashOp
      <4> QED
        BY <3>1, <4>1
    <3>5. BothOf(hdr') /\ tail' # <<>> /\ Other(Head(tail').page) = p
      BY <2>0, <3>3, <3>4 DEF BothOf, Erase, Page
    <3>6. RecoveredOf(hdr', log', tail', v) = Latest(log[p], v)
      BY <3>3, <3>5, RecoveredBoth
    <3> QED
      BY <3>2, <3>6, RecoveredNow, RecoveredThen
  <2>4. CASE tail = <<Erase(q)>> /\ hdr[p] = "VALID_PAGE" /\ hdr[q] # "RECEIVE_DATA"
    <3>1. Head(tail) = Erase(q) /\ tail # <<>> /\ Head(tail).page = q
      BY <2>4 DEF Erase
    <3>2. RecoveredOf(hdr, log, tail, v) = Latest(log[p], v)
      <4>1. CASE hdr[q] = "VALID_PAGE"
        <5>1. BothOf(hdr)
          BY <2>0, <2>4, <4>1 DEF BothOf, Page
        <5> QED
          BY <2>0, <3>1, <5>1, RecoveredBoth
      <4>2. CASE hdr[q] = "ERASED"
        BY <2>4, <4>2, RecoveredValid
      <4> QED
        BY <1>0, <2>0, <2>4, <4>1, <4>2 DEF PageStatus
    <3>3. /\ hdr' \in [Page -> PageStatus] /\ hdr'[p] = "VALID_PAGE" /\ hdr'[q] = "ERASED"
          /\ log'[p] = log[p]
      BY <1>0, <1>1, <2>0, <2>4, <3>1
    <3>4. RecoveredOf(hdr', log', tail', v) = Latest(log[p], v)
      BY <3>3, RecoveredValid
    <3> QED
      BY <3>2, <3>4, RecoveredNow, RecoveredThen
  <2> QED
    BY <1>4, <2>1, <2>2, <2>3, <2>4 DEF TailState
<1> QED
  BY <1>0, <1>3, <1>4 DEF PagesInv

(* The two half-words of a slot and the store: the data changes nothing,   *)
(* and so does the address of a value that is copied; the address of a     *)
(* request stores it.                                                      *)
LEMMA PutDataKeeps ==
  ASSUME TypeOK, NEW d \in Data, PutData(d), hdr' = hdr, NEW p \in Page, Clean(p) \/ Filling(p),
         NEW v \in Addr
  PROVE  Recovered(v)' = Recovered(v)
<1>1. \A q \in Page : /\ Latest(log'[q], v) = Latest(log[q], v)
                      /\ First(log'[q], v) <=> First(log[q], v)
  BY PutDataValues
<1>2. RecoveredOf(hdr', log', tail', v) = RecoveredOf(hdr, log, tail, v)
  <2>1. CASE Clean(p)
    <3>1. hdr[p] = "VALID_PAGE" /\ hdr[Other(p)] = "ERASED"
      BY <2>1 DEF Clean, Empty
    <3>2. RecoveredOf(hdr', log', tail', v) = Latest(log'[p], v)
      BY <3>1, RecoveredValid
    <3>3. RecoveredOf(hdr, log, tail, v) = Latest(log[p], v)
      BY <3>1, RecoveredValid
    <3> QED
      BY <1>1, <3>2, <3>3
  <2>2. CASE Filling(p)
    <3>1. hdr[p] = "RECEIVE_DATA" /\ hdr[Other(p)] = "VALID_PAGE" /\ Other(p) \in Page
      BY <2>2, OtherPage DEF Filling
    <3>2. RecoveredOf(hdr', log', tail', v) =
            IF First(log'[p], v) THEN Latest(log'[p], v) ELSE Latest(log'[Other(p)], v)
      BY <3>1, RecoveredFilling
    <3>3. RecoveredOf(hdr, log, tail, v) =
            IF First(log[p], v) THEN Latest(log[p], v) ELSE Latest(log[Other(p)], v)
      BY <3>1, RecoveredFilling
    <3> QED
      BY <1>1, <3>1, <3>2, <3>3
  <2> QED
    BY <2>1, <2>2
<1> QED
  BY <1>2, RecoveredNow, RecoveredThen

(* The address of a request: in the active page.                           *)
LEMMA WriteApplies ==
  ASSUME TypeOK, HalfSlot(req.data), req.addr \in Addr, req.data \in Data, PutAddr(req.addr, req.data),
         hdr' = hdr, NEW p \in Page, Clean(p), NEW v \in Addr
  PROVE  Recovered(v)' = IF v = req.addr THEN req.data ELSE Recovered(v)
<1>1. WritePage = p /\ hdr[p] = "VALID_PAGE" /\ hdr[Other(p)] = "ERASED"
  BY CleanWrite DEF Clean, Empty
<1>2. /\ Latest(log'[p], req.addr) = req.data
      /\ v # req.addr => Latest(log'[p], v) = Latest(log[p], v)
  BY <1>1, PutAddrValues
<1>3. /\ RecoveredOf(hdr', log', tail', v) = Latest(log'[p], v)
      /\ RecoveredOf(hdr, log, tail, v) = Latest(log[p], v)
  BY <1>1, RecoveredValid
<1> QED
  BY <1>2, <1>3, RecoveredNow, RecoveredThen

(* And as the first slot of the page being filled.                         *)
LEMMA TransferApplies ==
  ASSUME TypeInv, HalfInv, ValuesInv, ~degraded, pc = "put", op = "transfer", half,
         HalfSlot(req.data), req.addr \in Addr, req.data \in Data, PutAddr(req.addr, req.data),
         hdr' = hdr, NEW p \in Page, Filling(p), NEW v \in Addr
  PROVE  Recovered(v)' = IF v = req.addr THEN req.data ELSE Recovered(v)
<1>0. TypeOK
  BY DEF TypeInv
<1>1. /\ WritePage = p /\ hdr[p] = "RECEIVE_DATA" /\ hdr[Other(p)] = "VALID_PAGE"
      /\ Other(p) \in Page /\ Other(p) # p /\ log[p] \in Seq(Slot)
  BY <1>0, FillingWrite, OtherPage DEF Filling, TypeOK
<1>2. Len(log[p]) = IF req.data # Blank THEN 1 ELSE 0
  BY DEF ValuesInv
<1>3. /\ Latest(log'[p], req.addr) = req.data
      /\ Len(log'[p]) = Len(log[p]) + IF req.data = Blank THEN 1 ELSE 0
      /\ Len(log'[p]) = 1 => First(log'[p], req.addr)
      /\ log'[Other(p)] = log[Other(p)]
  BY <1>0, <1>1, PutAddrValues
<1>4. First(log'[p], req.addr) /\ (v # req.addr => ~First(log'[p], v))
  <2>1. First(log'[p], req.addr)
    BY <1>2, <1>3
  <2> QED
    BY <2>1 DEF First
<1>5. ~First(log[p], v)
  <2>1. CASE req.data = Blank
    <3>1. log[p] = <<>>
      BY <1>1, <1>2, <2>1, EmptySeq
    <3> QED
      BY <3>1 DEF First
  <2>2. CASE req.data # Blank
    <3>1. log[p][1].addr = NoAddr
      BY <1>1, <1>2, <2>2 DEF HalfSlot
    <3> QED
      BY <3>1, EepromAssumption DEF First
  <2> QED
    BY <2>1, <2>2
<1>6. /\ RecoveredOf(hdr', log', tail', v) =
           IF First(log'[p], v) THEN Latest(log'[p], v) ELSE Latest(log'[Other(p)], v)
      /\ RecoveredOf(hdr, log, tail, v) =
           IF First(log[p], v) THEN Latest(log[p], v) ELSE Latest(log[Other(p)], v)
  <2>1. hdr'[p] = "RECEIVE_DATA" /\ hdr'[Other(p)] = "VALID_PAGE"
    BY <1>1
  <2>2. RecoveredOf(hdr', log', tail', v) =
          IF First(log'[p], v) THEN Latest(log'[p], v) ELSE Latest(log'[Other(p)], v)
    BY <2>1, RecoveredFilling
  <2>3. RecoveredOf(hdr, log, tail, v) =
          IF First(log[p], v) THEN Latest(log[p], v) ELSE Latest(log[Other(p)], v)
    BY <1>1, RecoveredFilling
  <2> QED
    BY <2>2, <2>3
<1> QED
  BY <1>3, <1>4, <1>5, <1>6, RecoveredNow, RecoveredThen

(* A value that is copied was recovered from the old page, and now is from *)
(* either page.                                                            *)
LEMMA CopyKeeps ==
  ASSUME TypeInv, RequestInv, HalfInv, ValuesInv, ~degraded, CopyAddr, NEW p \in Page, Filling(p),
         NEW v \in Addr
  PROVE  Recovered(v)' = Recovered(v)
<1> DEFINE w == CopyVar
           d == EE_ReadVariable(w)
<1>1. /\ TypeOK /\ d \in Data /\ w \in Addr /\ PutAddr(w, d) /\ HalfSlot(d) /\ ~Skipped(w)
      /\ hdr' = hdr /\ CopyInv
  BY ReadType, CopyVarType DEF CopyAddr, PutAddr, TypeInv, HalfRoom, HalfInv, ValuesInv
<1>2. /\ WritePage = p /\ ReadPage = Other(p) /\ ReadPage # NoPage
      /\ hdr[p] = "RECEIVE_DATA" /\ hdr[Other(p)] = "VALID_PAGE" /\ Other(p) \in Page /\ Other(p) # p
  BY <1>1, FillingWrite, OtherPage DEF Filling, Page, NoPage
<1>3. d = Latest(log[Other(p)], w)
  BY <1>2 DEF EE_ReadVariable
<1>4. /\ log'[Other(p)] = log[Other(p)]
      /\ Latest(log'[p], w) = d
      /\ \A u \in Addr : u # w => /\ Latest(log'[p], u) = Latest(log[p], u)
                                  /\ First(log'[p], u) <=> First(log[p], u)
  BY <1>1, <1>2, PutAddrValues
<1>5. ~First(log[p], w)
  <2>1. CASE op = "transfer"
    <3>1. First(log[p], req.addr) /\ req.addr # w
      BY <1>1, <2>1, KeptDefs DEF CopyInv, Skipped
    <3> QED
      BY <3>1 DEF First
  <2>2. CASE op # "transfer"
    BY <1>1, <1>2, <2>2 DEF Skipped, FirstSlotHolds, First
  <2> QED
    BY <2>1, <2>2
<1> HIDE DEF w, d
<1>6. RecoveredOf(hdr', log', tail', v) = RecoveredOf(hdr, log, tail, v)
  <2>1. RecoveredOf(hdr', log', tail', v) =
          IF First(log'[p], v) THEN Latest(log'[p], v) ELSE Latest(log'[Other(p)], v)
    BY <1>1, <1>2, RecoveredFilling
  <2>2. RecoveredOf(hdr, log, tail, v) =
          IF First(log[p], v) THEN Latest(log[p], v) ELSE Latest(log[Other(p)], v)
    BY <1>2, RecoveredFilling
  <2>3. CASE v = w
    BY <1>3, <1>4, <1>5, <2>1, <2>2, <2>3
  <2>4. CASE v # w
    BY <1>4, <2>1, <2>2, <2>4
  <2> QED
    BY <2>3, <2>4
<1> QED
  BY <1>6, RecoveredNow, RecoveredThen

(* Marking a page as receiving changes no value: it has none.              *)
LEMMA MarkKeeps ==
  ASSUME TypeOK, MarkReceive, NEW p \in Page, Clean(p), NEW v \in Addr
  PROVE  Recovered(v)' = Recovered(v)
<1> DEFINE q == Other(p)
<1>1. ReadPage = p /\ q \in Page /\ Other(q) = p /\ q # p /\ hdr[p] = "VALID_PAGE" /\ hdr[q] = "ERASED"
      /\ log[q] = <<>>
  BY CleanWrite, OtherPage DEF Clean, Empty
<1>2. hdr'[q] = "RECEIVE_DATA" /\ hdr'[p] = "VALID_PAGE" /\ log' = log
  BY <1>1 DEF MarkReceive, Program, TypeOK
<1>4. hdr'[Other(q)] = "VALID_PAGE"
  BY <1>1, <1>2
<1>3. RecoveredOf(hdr', log', tail', v) = RecoveredOf(hdr, log, tail, v)
  <2>1. RecoveredOf(hdr', log', tail', v) =
          IF First(log'[q], v) THEN Latest(log'[q], v) ELSE Latest(log'[Other(q)], v)
    <3> HIDE DEF q
    <3>1. q \in Page /\ hdr'[q] = "RECEIVE_DATA" /\ hdr'[Other(q)] = "VALID_PAGE"
      BY <1>1, <1>2, <1>4
    <3> QED
      BY <3>1, RecoveredFilling
  <2>2. RecoveredOf(hdr, log, tail, v) = Latest(log[p], v)
    <3>1. hdr[p] = "VALID_PAGE" /\ hdr[Other(p)] = "ERASED"
      BY <1>1
    <3> QED
      BY <3>1, RecoveredValid
  <2>3. ~First(log'[q], v)
    BY <1>1, <1>2 DEF First
  <2> QED
    BY <1>1, <1>2, <2>1, <2>2, <2>3
<1> QED
  BY <1>3, RecoveredNow, RecoveredThen

(* The steps that may follow when nothing is degraded.                     *)
LEMMA NotDegraded ==
  ASSUME TypeInv, [Next]_vars, ~degraded'
  PROVE  ~degraded /\ degraded' = degraded /\ TypeOK /\ Phase
<1>1. TypeOK /\ Phase
  BY DEF TypeInv
<1>2. ~degraded
  BY <1>1 DEF TypeOK, Next, Step, vars, env, EE_WriteVariable, PutRequestData, PutRequestAddr,
         PutFails, MarkReceive, CopySkip, CopyData, CopyAddr, CopyFails, CopyDone, DoFlashOp,
         EE_Init, PowerLoss, PowerLossInErase, FlashError
<1> QED
  BY <1>1, <1>2 DEF TypeOK, Next, Step, vars, env, EE_WriteVariable, PutRequestData, PutRequestAddr,
         PutFails, MarkReceive, CopySkip, CopyData, CopyAddr, CopyFails, CopyDone, DoFlashOp,
         EE_Init, PowerLoss, PowerLossInErase, FlashError

(* The address half-word of a request gives its address the value, and no  *)
(* other address another one.                                              *)
LEMMA RequestApplies ==
  ASSUME TypeInv, PagesInv, RequestInv, HalfInv, ValuesInv, ~degraded, PutRequestAddr,
         NEW v \in Addr
  PROVE  Recovered(v)' = IF v = req.addr THEN req.data ELSE Recovered(v)
<1>1. /\ PutAddr(req.addr, req.data) /\ half /\ pc = "put" /\ hdr' = hdr /\ req.data \in Data
      /\ op \in {"write", "transfer"} /\ TypeOK
  BY DEF PutRequestAddr, PutAddr, TypeInv, TypeOK, Slot
<1>2. req.addr \in Addr /\ HalfSlot(req.data)
  BY <1>1 DEF HalfInv, RequestInv
<1>3. CASE op = "write"
  <2>1. PICK p \in Page : Clean(p)
    BY <1>1, <1>3 DEF PagesInv
  <2> QED
    BY <1>1, <1>2, <2>1, WriteApplies
<1>4. CASE op = "transfer"
  <2>1. PICK p \in Page : Filling(p)
    BY <1>1, <1>4 DEF PagesInv
  <2> QED
    BY <1>1, <1>2, <1>4, <2>1, TransferApplies
<1> QED
  BY <1>1, <1>3, <1>4

(* No other step of the code or of the environment changes the value of an *)
(* address that a page transfer moves.                                     *)
LEMMA ValueKept ==
  ASSUME TypeInv, PagesInv, RequestInv, HalfInv, ValuesInv, [Next]_vars, ~PutRequestAddr, ~degraded',
         NEW v \in Addr \cap Moved
  PROVE  Recovered(v)' = Recovered(v)
<1>0. ~degraded /\ TypeOK /\ Phase
  BY NotDegraded
<1>1. ASSUME hdr' = hdr, log' = log, NEW p \in Page, Clean(p) \/ Filling(p)
      PROVE  Recovered(v)' = Recovered(v)
  BY <1>1, NotBoth, SamePagesValue
<1>2. ASSUME NEW w \in Addr, NEW d \in Data, EE_WriteVariable(w, d) PROVE Recovered(v)' = Recovered(v)
  BY <1>2, SamePagesValue DEF EE_WriteVariable
<1>3. CASE PutRequestData
  <2>1. req.data \in Data /\ PutData(req.data) /\ hdr' = hdr /\ pc = "put"
    BY <1>0, <1>3 DEF TypeOK, Slot, PutRequestData
  <2>2. \E p \in Page : Clean(p) \/ Filling(p)
    BY <1>0, <2>1 DEF PagesInv, Phase
  <2> QED
    BY <1>0, <2>1, <2>2, PutDataKeeps
<1>4. CASE PutFails
  <2>1. pc = "put" /\ hdr' = hdr /\ log' = log
    BY <1>4 DEF PutFails
  <2>2. \E p \in Page : Clean(p) \/ Filling(p)
    BY <1>0, <2>1 DEF PagesInv, Phase
  <2> QED
    BY <1>1, <2>1, <2>2
<1>5. CASE MarkReceive
  <2>1. \E p \in Page : Clean(p)
    BY <1>0, <1>5 DEF MarkReceive, PagesInv
  <2> QED
    BY <1>0, <1>5, <2>1, MarkKeeps
<1>6. CASE CopySkip \/ CopyDone \/ CopyFails
  <2>1. hdr' = hdr /\ log' = log /\ pc = "copy"
    BY <1>6 DEF CopySkip, CopyDone, CopyFails
  <2>2. \E p \in Page : Filling(p)
    BY <1>0, <2>1 DEF PagesInv
  <2> QED
    BY <1>1, <2>1, <2>2
<1>7. CASE CopyData
  <2>1. /\ EE_ReadVariable(CopyVar) \in Data /\ PutData(EE_ReadVariable(CopyVar))
        /\ hdr' = hdr /\ pc = "copy"
    BY <1>0, <1>7, ReadType DEF CopyData, CopyNeeded
  <2>2. \E p \in Page : Filling(p)
    BY <1>0, <2>1 DEF PagesInv
  <2> QED
    BY <1>0, <2>1, <2>2, PutDataKeeps
<1>8. CASE CopyAddr
  <2>1. \E p \in Page : Filling(p)
    BY <1>0, <1>8 DEF CopyAddr, PagesInv
  <2> QED
    BY <1>0, <1>8, <2>1, CopyKeeps
<1>9. CASE DoFlashOp \/ PowerLossInErase
  BY <1>0, <1>9, FlashOpKeeps
<1>10. CASE EE_Init
  <2>1. hdr' = hdr /\ log' = log /\ pc = "off"
    BY <1>10 DEF EE_Init
  <2>2. AllEmpty \/ \E p \in Page : OffState(p, Other(p))
    BY <1>0, <2>1 DEF PagesInv
  <2>3. ~BothValid
    BY <2>2 DEF AllEmpty, Empty, OffState, BothValid, Page, Other
  <2> QED
    BY <2>1, <2>3, SamePagesValue
<1>11. CASE PowerLoss
  BY <1>11, SamePagesValue DEF PowerLoss
<1>12. CASE FlashError
  <2>1. op = "write" /\ hdr' = hdr /\ log' = log
    BY <1>12 DEF FlashError
  <2>2. pc = "put"
    BY <1>0, <1>12, <2>1 DEF FlashError, Phase
  <2>3. \E p \in Page : Clean(p)
    BY <1>0, <2>1, <2>2 DEF PagesInv
  <2> QED
    BY <1>1, <2>1, <2>3
<1>13. CASE UNCHANGED vars
  BY <1>13, SamePagesValue DEF vars, ctl
<1> QED
  BY <1>2, <1>3, <1>4, <1>5, <1>6, <1>7, <1>8, <1>9, <1>10, <1>11, <1>12, <1>13 DEF Next, Step

(* The value a transfer was called for is in place when it has erased the  *)
(* old page and marks the new one valid.                                   *)
LEMMA TransferDone ==
  ASSUME TypeInv, PagesInv, ValuesInv, ~degraded, pc = "tail", op = "transfer", Len(tail) = 1
  PROVE  Recovered(req.addr) = req.data
<1>1. PICK p \in Page : /\ tail \in {<<Erase(Other(p)), Valid(p)>>, <<Valid(p)>>}
                        /\ hdr[p] = "RECEIVE_DATA" /\ Latest(log[p], req.addr) = req.data
  BY DEF ValuesInv, TailInv, Requested
<1>2. tail = <<Valid(p)>>
  BY <1>1
<1>3. FormatState \/ \E q \in Page : TailState(q, Other(q))
  BY DEF PagesInv
<1>4. ~FormatState
  BY <1>2 DEF FormatState, EE_Format
<1>5. PICK q \in Page : TailState(q, Other(q))
  BY <1>3, <1>4
<1>6. q = p /\ Empty(Other(q))
  BY <1>2, <1>5 DEF TailState, Valid, Erase
<1>7. hdr[Other(p)] = "ERASED"
  BY <1>6 DEF Empty
<1> QED
  BY <1>1, <1>7, RecoveredReceive, RecoveredNow

-----------------------------------------------------------------------------
(* The refinement of EepromStore.                                          *)

StoreMem == [v \in Addr |-> Recovered(v)]
StorePending == IF op \in {"write", "transfer"} THEN req ELSE NoReq
StoreUp == pc # "off" /\ op # "init"

(* The steps of EepromStore under the refinement mapping.                  *)
LEMMA StoreStutters ==
  ASSUME StoreMem' = StoreMem, StorePending' = StorePending, StoreUp' <=> StoreUp,
         status' = status, degraded' = degraded
  PROVE  UNCHANGED Store!vars
BY DEF Store!vars, StoreMem, StorePending, StoreUp

(* A call of EE_WriteVariable.                                             *)
LEMMA StoreWrites ==
  ASSUME ~degraded', StoreUp, StoreUp', StorePending = NoReq,
         StorePending' \in [addr : Addr, data : Data], StoreMem' = StoreMem, status' = status
  PROVE  Store!Next
BY DEF Store!Next, Store!Write, StoreMem, StorePending, StoreUp

(* The first slot of the page being filled is programmed.                  *)
LEMMA StoreCommits ==
  ASSUME ~degraded', StoreUp' <=> StoreUp, StorePending # NoReq, StorePending' = StorePending, status' = status,
         StoreMem' = [StoreMem EXCEPT ![StorePending.addr] = StorePending.data]
  PROVE  Store!Next
BY DEF Store!Next, Store!Commit, Store!Applied, StoreMem, StorePending, StoreUp

(* A write returns FLASH_COMPLETE.                                         *)
LEMMA StoreAcks ==
  ASSUME ~degraded', StoreUp' <=> StoreUp, StorePending # NoReq, StorePending' = NoReq,
         status' = "FLASH_COMPLETE",
         StoreMem' = [StoreMem EXCEPT ![StorePending.addr] = StorePending.data]
  PROVE  Store!Next
BY DEF Store!Next, Store!Ack, Store!Applied, StoreMem, StorePending, StoreUp

(* A write returns anything else.                                          *)
LEMMA StoreFails ==
  ASSUME ~degraded', StoreUp' <=> StoreUp, StorePending # NoReq, StorePending' = NoReq,
         status' # "FLASH_COMPLETE", StoreMem' = StoreMem
  PROVE  Store!Next
BY DEF Store!Next, Store!Fail, StoreMem, StorePending, StoreUp

(* Power is lost.                                                          *)
LEMMA StoreLosesPower ==
  ASSUME ~degraded', ~StoreUp', StorePending' = NoReq, status' = status, StoreMem' = StoreMem
  PROVE  Store!Next
BY DEF Store!Next, Store!PowerLoss, StoreMem, StorePending, StoreUp

(* EE_Init returns.                                                        *)
LEMMA StoreBoots ==
  ASSUME ~degraded', ~StoreUp, StoreUp', StorePending' = StorePending, StoreMem' = StoreMem
  PROVE  Store!Next
BY DEF Store!Next, Store!Boot, StoreMem, StorePending, StoreUp

(* The address of a request is one, so that a pending request is not none. *)
LEMMA PendingIs ==
  ASSUME RequestInv, op \in {"write", "transfer"}
  PROVE  StorePending = req /\ StorePending # NoReq /\ req.addr \in Addr
BY EepromAssumption DEF RequestInv, StorePending, NoReq

(* Every step of the pages is a step of the store or changes nothing.      *)
LEMMA StoreNext ==
  ASSUME TableCovers, TypeInv, PagesInv, RequestInv, HalfInv, ValuesInv, [Next]_vars
  PROVE  [Store!Next]_(Store!vars)
<1>1. CASE degraded'
  BY <1>1 DEF Store!Next
<1> SUFFICES ASSUME ~degraded' PROVE [Store!Next]_(Store!vars)
  BY <1>1
<1>0. ~degraded /\ degraded' = degraded /\ TypeOK /\ Phase
  BY NotDegraded
<1>2. ~PutRequestAddr => StoreMem' = StoreMem
  BY <1>0, ValueKept DEF StoreMem, TableCovers
<1>3. ASSUME NEW v \in Addr, NEW d \in Data, EE_WriteVariable(v, d) PROVE Store!Next
  <2>1. StorePending = NoReq /\ StoreUp /\ StoreUp'
    BY <1>0, <1>3 DEF EE_WriteVariable, Phase, StorePending, StoreUp
  <2>2. StorePending' \in [addr : Addr, data : Data]
    BY <1>3 DEF EE_WriteVariable, StorePending
  <2>3. StoreMem' = StoreMem /\ status' = status
    BY <1>2, <1>3 DEF EE_WriteVariable, PutRequestAddr
  <2> QED
    BY <2>1, <2>2, <2>3, StoreWrites
<1>4. CASE PutRequestData \/ MarkReceive \/ CopySkip \/ CopyData \/ CopyAddr \/ CopyDone
  <2>1. UNCHANGED <<op, req, status>> /\ pc # "off" /\ pc' # "off"
    BY <1>4 DEF PutRequestData, MarkReceive, CopySkip, CopyData, CopyAddr, CopyDone
  <2>2. ~PutRequestAddr
    BY <1>4 DEF PutRequestData, PutData, MarkReceive, CopySkip, CopyData, CopyAddr, CopyDone,
                PutRequestAddr, PutAddr
  <2>3. StorePending' = StorePending /\ (StoreUp' <=> StoreUp)
    BY <2>1 DEF StorePending, StoreUp
  <2> QED
    BY <1>0, <1>2, <2>1, <2>2, <2>3, StoreStutters
<1>5. CASE PutRequestAddr
  <2>1. pc = "put" /\ op \in {"write", "transfer"}
    BY <1>5 DEF PutRequestAddr
  <2>2. StorePending = req /\ StorePending # NoReq /\ req.addr \in Addr
    BY <2>1, PendingIs
  <2>3. \A v \in Addr : Recovered(v)' = IF v = req.addr THEN req.data ELSE Recovered(v)
    BY <1>0, <1>5, RequestApplies
  <2>4. StoreMem' = [StoreMem EXCEPT ![req.addr] = req.data]
    BY <2>2, <2>3 DEF StoreMem
  <2>5. CASE op = "write"
    <3>1. pc' = "idle" /\ op' = "none" /\ status' = "FLASH_COMPLETE"
      BY <1>5, <2>5 DEF PutRequestAddr, Return
    <3>2. StorePending' = NoReq /\ StoreUp /\ StoreUp'
      BY <2>1, <2>5, <3>1 DEF StorePending, StoreUp
    <3> QED
      BY <2>2, <2>4, <3>1, <3>2, StoreAcks
  <2>6. CASE op = "transfer"
    <3>1. pc' = "copy" /\ UNCHANGED <<op, req, status>>
      BY <1>5, <2>6 DEF PutRequestAddr
    <3>2. StorePending' = StorePending /\ (StoreUp' <=> StoreUp)
      BY <2>1, <3>1 DEF StorePending, StoreUp
    <3> QED
      BY <2>2, <2>4, <3>1, <3>2, StoreCommits
  <2> QED
    BY <2>1, <2>5, <2>6
<1>6. CASE PutFails
  <2>1. pc = "put" /\ op \in {"write", "transfer"}
    BY <1>6 DEF PutFails
  <2>2. StoreMem' = StoreMem
    BY <1>2, <1>6 DEF PutFails, PutRequestAddr, PutAddr
  <2>3. CASE pc' = "mark" /\ op' = "transfer" /\ UNCHANGED <<req, status>>
    <3>1. StorePending' = StorePending /\ (StoreUp' <=> StoreUp)
      BY <2>1, <2>3 DEF StorePending, StoreUp
    <3> QED
      BY <1>0, <2>2, <2>3, <3>1, StoreStutters
  <2>4. ASSUME NEW r \in {"NO_VALID_PAGE", "PAGE_FULL"}, Return(r) PROVE Store!Next
    <3>1. StorePending' = NoReq /\ (StoreUp' <=> StoreUp) /\ status' # "FLASH_COMPLETE"
      BY <2>1, <2>4 DEF StorePending, StoreUp, Return
    <3> QED
      BY <2>1, <2>2, <3>1, PendingIs, StoreFails
  <2> QED
    BY <1>6, <2>3, <2>4 DEF PutFails
<1>7. CASE CopyFails
  BY <1>0, <1>7 DEF CopyFails
<1>8. CASE DoFlashOp
  <2>1. StoreMem' = StoreMem
    BY <1>2, <1>8 DEF DoFlashOp, PutRequestAddr
  <2>2. NextFlashOp /\ pc = "tail" /\ op \in {"transfer", "init"}
    BY <1>0, <1>8 DEF DoFlashOp, Phase
  <2>3. CASE Len(tail) # 1
    <3>1. UNCHANGED <<pc, op, req, status>>
      BY <2>2, <2>3, Zenon DEF NextFlashOp
    <3> QED
      BY <1>0, <2>1, <3>1, StoreStutters DEF StorePending, StoreUp
  <2>4. CASE Len(tail) = 1 /\ op = "init"
    <3>1. pc' = "idle" /\ op' = "none"
      BY <2>2, <2>4 DEF NextFlashOp, Return
    <3>2. ~StoreUp /\ StoreUp' /\ StorePending' = StorePending
      BY <2>4, <3>1 DEF StorePending, StoreUp
    <3> QED
      BY <2>1, <3>2, StoreBoots
  <2>5. CASE Len(tail) = 1 /\ op = "transfer"
    <3>1. pc' = "idle" /\ op' = "none" /\ status' = "FLASH_COMPLETE"
      BY <2>2, <2>5 DEF NextFlashOp, Return
    <3>2. StorePending' = NoReq /\ (StoreUp' <=> StoreUp)
      BY <2>2, <2>5, <3>1 DEF StorePending, StoreUp
    <3>3. StorePending = req /\ StorePending # NoReq /\ req.addr \in Addr
      BY <2>5, PendingIs
    <3>4. StoreMem = [StoreMem EXCEPT ![req.addr] = req.data]
      BY <1>0, <2>2, <2>5, <3>3, TransferDone DEF StoreMem
    <3>5. StoreMem' = [StoreMem EXCEPT ![StorePending.addr] = StorePending.data]
      BY <2>1, <3>3, <3>4
    <3> QED
      BY <3>1, <3>2, <3>3, <3>5, StoreAcks
  <2> QED
    BY <2>2, <2>3, <2>4, <2>5
<1>9. CASE EE_Init
  <2>1. status' = status /\ pc = "off" /\ op' = "init" /\ op = "none"
    BY <1>0, <1>9 DEF EE_Init, Phase
  <2>2. StoreMem' = StoreMem
    BY <1>2, <2>1 DEF PutRequestAddr
  <2>3. StorePending' = StorePending /\ (StoreUp' <=> StoreUp)
    BY <2>1 DEF StorePending, StoreUp
  <2> QED
    BY <1>0, <2>1, <2>2, <2>3, StoreStutters
<1>10. CASE PowerLoss \/ PowerLossInErase
  <2>1. pc' = "off" /\ op' = "none" /\ status' = status
    BY <1>10 DEF PowerLoss, PowerLossInErase, PowerOff
  <2>2. StoreMem' = StoreMem
    BY <1>2, <2>1 DEF PutRequestAddr, Return
  <2>3. StorePending' = NoReq /\ ~StoreUp'
    BY <2>1 DEF StorePending, StoreUp
  <2> QED
    BY <2>1, <2>2, <2>3, StoreLosesPower
<1>11. CASE FlashError
  <2>1. /\ op = "write" /\ pc' = "idle" /\ op' = "none" /\ status' = "FLASH_ERROR"
    BY <1>0, <1>11 DEF FlashError, Return
  <2>2. pc = "put"
    BY <1>0, <1>11, <2>1 DEF FlashError, Phase
  <2>3. StoreMem' = StoreMem
    BY <1>2, <2>1 DEF PutRequestAddr, Return
  <2>4. StorePending' = NoReq /\ (StoreUp' <=> StoreUp) /\ StorePending # NoReq
    BY <2>1, <2>2, PendingIs DEF StorePending, StoreUp
  <2> QED
    BY <2>1, <2>3, <2>4, StoreFails
<1>12. CASE UNCHANGED vars
  <2>1. UNCHANGED <<pc, op, req, status>>
    BY <1>12 DEF vars, ctl
  <2>2. StoreMem' = StoreMem
    BY <1>2, <2>1 DEF PutRequestAddr, Return
  <2> QED
    BY <1>0, <2>1, <2>2, StoreStutters DEF StorePending, StoreUp
<1> QED
  BY <1>3, <1>4, <1>5, <1>6, <1>7, <1>8, <1>9, <1>10, <1>11, <1>12 DEF Next, Step

(* A blank flash is the empty store.                                       *)
LEMMA StoreInit == Init => Store!Init
<1> SUFFICES ASSUME Init PROVE Store!Init
  OBVIOUS
<1>1. hdr[0] = "ERASED" /\ hdr[1] = "ERASED"
  BY DEF Init, Page
<1>2. \A v \in Addr : Recovered(v) = NotFound
  BY <1>1, RecoveredNone, RecoveredNow
<1>3. [v \in Addr |-> Recovered(v)] = [v \in Addr |-> NotFound]
  BY <1>2
<1> QED
  BY <1>3 DEF Init, Store!Init

(* The values of a blank flash.                                            *)
LEMMA InitValues == Init => RequestInv /\ HalfInv /\ ValuesInv
<1> SUFFICES ASSUME Init PROVE RequestInv /\ HalfInv /\ ValuesInv
  OBVIOUS
<1>1. \A p \in Page : ~Filling(p)
  BY DEF Init, Filling
<1> QED
  BY <1>1 DEF Init, RequestInv, HalfInv, ValuesInv

(* The two flash pages implement the store of EepromStore, provided every  *)
(* address is in the table of the addresses that a transfer moves: no      *)
(* page transfer, power loss or recovery changes or loses a value, and a   *)
(* write that returned FLASH_COMPLETE has taken effect.                    *)
THEOREM PagesImplementStore ==
  ASSUME TableCovers
  PROVE  Spec => ImplementsStore
<1> DEFINE Inv == TypeInv /\ PagesInv /\ RequestInv /\ HalfInv /\ ValuesInv
<1>1. Init => Inv
  BY InitInv, InitPages, InitValues
<1>2. Inv /\ [Next]_vars => Inv'
  BY NextInv, NextPages, RequestNext, HalfNext, ValuesNext
<1>3. Inv /\ [Next]_vars => [Store!Next]_(Store!vars)
  BY StoreNext
<1> QED
  BY <1>1, <1>2, <1>3, StoreInit, PTL DEF Spec, ImplementsStore, Store!Spec

-----------------------------------------------------------------------------
(* The room for recoveries.                                                *)

(* The room that is left, in slots: what the losses have cost so far only  *)
(* grows, by the size of the table each time.                              *)
LEMMA RoomArith ==
  ASSUME TypeInv, [Next]_vars
  PROVE  /\ losses * NB_OF_VAR \in Nat /\ NB_OF_VAR \in Nat /\ Leftovers \in Nat /\ Leftovers >= 1
         /\ ~Crowded => Leftovers + NB_OF_VAR <= Slots
         /\ losses' = losses => Leftovers' = Leftovers /\ (Crowded' <=> Crowded)
         /\ losses' = losses + 1 => Leftovers' = Leftovers + NB_OF_VAR /\ (Crowded => Crowded')
         /\ losses' = losses \/ losses' = losses + 1
<1>1. losses \in Nat /\ NB_OF_VAR \in Nat /\ Slots \in Nat
  BY EepromAssumption DEF TypeInv, TypeOK, NB_OF_VAR
<1>2. losses' = losses \/ losses' = losses + 1
  BY DEF Next, Step, vars, env, EE_WriteVariable, PutRequestData, PutRequestAddr,
         PutFails, MarkReceive, CopySkip, CopyData, CopyAddr, CopyFails, CopyDone, DoFlashOp,
         EE_Init, PowerLoss, PowerLossInErase, PowerOff, FlashError
<1>3. /\ losses * NB_OF_VAR \in Nat
      /\ (losses + 1) * NB_OF_VAR = losses * NB_OF_VAR + NB_OF_VAR
      /\ ((losses + 1) + 1) * NB_OF_VAR = losses * NB_OF_VAR + NB_OF_VAR + NB_OF_VAR
  BY <1>1
<1> DEFINE M == losses * NB_OF_VAR
           M1 == (losses + 1) * NB_OF_VAR
           M2 == ((losses + 1) + 1) * NB_OF_VAR
<1>4. M \in Nat /\ M1 = M + NB_OF_VAR /\ M2 = M + NB_OF_VAR + NB_OF_VAR
  BY <1>3
<1>5. (Crowded <=> M1 >= Slots) /\ Leftovers = 1 + M
  BY DEF Crowded, Leftovers
<1>6. losses' = losses + 1 => (Crowded' <=> M2 >= Slots) /\ Leftovers' = 1 + M1
  BY DEF Crowded, Leftovers, NB_OF_VAR
<1>7. losses' = losses => (Crowded' <=> M1 >= Slots) /\ Leftovers' = 1 + M
  BY DEF Crowded, Leftovers, NB_OF_VAR
<1> HIDE DEF M, M1, M2
<1>8. M \in Nat /\ (losses' = losses => Leftovers' = Leftovers /\ (Crowded' <=> Crowded))
  BY <1>4, <1>5, <1>7
<1>9. losses' = losses + 1 => Leftovers' = Leftovers + NB_OF_VAR /\ (Crowded => Crowded')
  BY <1>1, <1>4, <1>5, <1>6
<1>10. Leftovers \in Nat /\ Leftovers >= 1 /\ (~Crowded => Leftovers + NB_OF_VAR <= Slots)
  BY <1>1, <1>4, <1>5
<1> QED
  BY <1>1, <1>2, <1>8, <1>9, <1>10 DEF M

(* A page transfer that finds its page as PagesRoom has it does not fill   *)
(* it.                                                                     *)
LEMMA RoomToCopy ==
  ASSUME TypeInv, PagesRoom, ~Crowded, [Next]_vars, pc = "copy", CopyNeeded, ~half
  PROVE  CanPut
<1>1. PICK p \in Page : Filling(p) /\ Len(log[p]) <= Leftovers + (idx - 1) + 0
  BY DEF PagesRoom
<1>2. WritePage = p /\ p # NoPage /\ Len(log[p]) \in Nat
  BY <1>1, FillingWrite DEF TypeInv, TypeOK, Page, NoPage
<1>3. idx \in Nat /\ idx <= NB_OF_VAR /\ Slots \in Nat
  BY EepromAssumption, RoomArith DEF TypeInv, TypeOK, CopyNeeded
<1>4. Len(log[p]) < Slots
  BY <1>1, <1>2, <1>3, RoomArith
<1> QED
  BY <1>2, <1>4 DEF CanPut

(* Every step keeps the room that PagesRoom promises, or has used it up.   *)
LEMMA RoomNext == TypeInv /\ RequestInv /\ HalfInv /\ RoomInv /\ [Next]_vars => RoomInv'
<1> SUFFICES ASSUME TypeInv, RequestInv, HalfInv, RoomInv, [Next]_vars, errors' = 0, ~Crowded'
             PROVE  status' # "PAGE_FULL" /\ PagesRoom'
  BY DEF RoomInv
<1>0. TypeOK /\ Phase /\ HalfRoom
  BY DEF TypeInv
<1>1. errors = 0 /\ ~FlashError
  BY <1>0, EepromAssumption
     DEF TypeOK, Next, Step, vars, env, EE_WriteVariable, PutRequestData, PutRequestAddr,
         PutFails, MarkReceive, CopySkip, CopyData, CopyAddr, CopyFails, CopyDone, DoFlashOp,
         EE_Init, PowerLoss, PowerLossInErase, PowerOff, FlashError
<1>2. ~Crowded /\ status # "PAGE_FULL" /\ PagesRoom
  <2>1. ~Crowded
    BY RoomArith
  <2> QED
    BY <1>1, <2>1 DEF RoomInv
<1>3. /\ NB_OF_VAR \in Nat /\ Leftovers \in Nat /\ Leftovers >= 1 /\ Leftovers + NB_OF_VAR <= Slots
      /\ losses' = losses => Leftovers' = Leftovers
      /\ losses' = losses + 1 => Leftovers' = Leftovers + NB_OF_VAR
      /\ idx \in Nat /\ idx >= 1 /\ idx <= NB_OF_VAR + 1
      /\ \A p \in Page : Len(log[p]) \in Nat
  BY <1>0, <1>2, RoomArith DEF TypeOK
<1>4. ASSUME NEW v \in Addr, NEW d \in Data, EE_WriteVariable(v, d)
      PROVE  status' # "PAGE_FULL" /\ PagesRoom'
  BY <1>2, <1>4, SamePages DEF EE_WriteVariable, PagesRoom
<1>5. ASSUME NEW v, NEW d, PutData(d) \/ PutAddr(v, d), hdr' = hdr
      PROVE  \A p \in Page : /\ Clean(p) => Clean(p)'
                             /\ Filling(p) => Filling(p)'
  <2>1. ASSUME NEW p \in Page, Clean(p) PROVE Clean(p)'
    <3>1. WritePage = p /\ Other(p) \in Page /\ Other(p) # p
      BY <1>0, <2>1, CleanWrite, OtherPage
    <3>2. log'[Other(p)] = log[Other(p)]
      BY <1>0, <1>5, <3>1 DEF PutData, PutAddr, TypeOK
    <3> QED BY <1>5, <2>1, <3>2 DEF Clean, Empty
  <2>2. ASSUME NEW p \in Page, Filling(p) PROVE Filling(p)'
    BY <1>5, <2>2 DEF Filling
  <2> QED BY <2>1, <2>2
<1>6. CASE PutRequestData
  <2>1. /\ req.data \in Data /\ PutData(req.data) /\ ~half /\ half' = TRUE
        /\ UNCHANGED <<hdr, pc, op, req, status>> /\ pc = "put"
    BY <1>0, <1>6 DEF TypeOK, Slot, PutRequestData, PutData
  <2>2. CASE op = "write"
    <3>1. \E p \in Page : Clean(p)
      BY <1>2, <2>1, <2>2 DEF PagesRoom
    <3> QED
      BY <1>2, <1>5, <2>1, <2>2, <3>1 DEF PagesRoom
  <2>3. CASE op = "transfer"
    <3>1. PICK p \in Page : Filling(p) /\ Len(log[p]) = 0
      BY <1>2, <2>1, <2>3 DEF PagesRoom
    <3>2. WritePage = p
      BY <1>0, <3>1, FillingWrite
    <3>3. Len(log'[p]) = Len(log[p]) + IF req.data = Blank THEN 0 ELSE 1
      BY <1>0, <2>1, <3>2, PutDataValues
    <3>4. Len(log'[p]) = IF half' /\ req'.data # Blank THEN 1 ELSE 0
      BY <2>1, <3>1, <3>3
    <3>5. Filling(p)'
      BY <1>5, <2>1, <3>1
    <3> QED
      BY <1>2, <2>1, <2>3, <3>4, <3>5 DEF PagesRoom
  <2> QED
    BY <1>0, <2>1, <2>2, <2>3 DEF Phase
<1>7. CASE PutRequestAddr
  <2>1. /\ req.data \in Data /\ req.addr \in Addr /\ PutAddr(req.addr, req.data) /\ HalfSlot(req.data)
        /\ half /\ hdr' = hdr /\ pc = "put" /\ losses' = losses /\ op \in {"write", "transfer"}
    BY <1>0, <1>7 DEF TypeOK, Slot, PutRequestAddr, PutAddr, RequestInv, HalfInv, env
  <2>2. CASE op = "write"
    <3>1. \E p \in Page : Clean(p)
      BY <1>2, <2>1, <2>2 DEF PagesRoom
    <3>2. pc' = "idle" /\ status' = "FLASH_COMPLETE"
      BY <1>7, <2>2 DEF PutRequestAddr, Return
    <3> QED
      BY <1>5, <2>1, <3>1, <3>2 DEF PagesRoom
  <2>3. CASE op = "transfer"
    <3>1. PICK p \in Page : Filling(p) /\ Len(log[p]) = IF half /\ req.data # Blank THEN 1 ELSE 0
      BY <1>2, <2>1, <2>3 DEF PagesRoom
    <3>2. WritePage = p
      BY <1>0, <3>1, FillingWrite
    <3>3. Len(log'[p]) = Len(log[p]) + IF req.data = Blank THEN 1 ELSE 0
      BY <1>0, <2>1, <3>2, PutAddrValues
    <3>4. Len(log'[p]) = 1
      BY <2>1, <3>1, <3>3
    <3>5. pc' = "copy" /\ idx' = 1 /\ half' = FALSE /\ status' = status
      BY <1>7, <2>1, <2>3 DEF PutRequestAddr, RequestInv
    <3>6. Filling(p)' /\ Len(log'[p]) <= Leftovers' + (idx' - 1) + 0
      BY <1>3, <1>5, <2>1, <3>1, <3>4, <3>5
    <3> QED
      BY <1>2, <3>5, <3>6 DEF PagesRoom
  <2> QED
    BY <2>1, <2>2, <2>3
<1>8. CASE PutFails
  <2>1. pc = "put" /\ ~CanPut /\ hdr' = hdr /\ log' = log
    BY <1>8 DEF PutFails
  <2>2. CASE op = "write"
    <3>1. PICK p \in Page : Clean(p)
      BY <1>2, <2>1, <2>2 DEF PagesRoom
    <3>2. WritePage # NoPage
      BY <1>0, <3>1, CleanWrite DEF NoPage, Page
    <3>3. pc' = "mark" /\ status' = status
      BY <1>8, <2>2, <3>2 DEF PutFails
    <3> QED
      BY <1>2, <2>1, <3>1, <3>3, SamePages DEF PagesRoom
  <2>3. CASE op = "transfer"
    <3>1. PICK p \in Page : Filling(p) /\ (~half => Len(log[p]) = 0)
      BY <1>2, <2>1, <2>3 DEF PagesRoom
    <3>2. WritePage = p /\ p # NoPage
      BY <1>0, <3>1, FillingWrite DEF NoPage, Page
    <3> QED
      BY <2>1, <3>1, <3>2, EepromAssumption DEF CanPut
  <2> QED
    BY <1>0, <2>1, <2>2, <2>3 DEF Phase
<1>9. CASE MarkReceive
  <2>1. PICK p \in Page : Clean(p)
    BY <1>2, <1>9 DEF MarkReceive, PagesRoom
  <2>2. ReadPage = p /\ Other(p) \in Page /\ Other(Other(p)) = p /\ Other(p) # p
    BY <1>0, <2>1, CleanWrite, OtherPage
  <2>3. hdr'[Other(p)] = "RECEIVE_DATA" /\ hdr'[p] = "VALID_PAGE" /\ log'[Other(p)] = <<>>
    BY <1>0, <1>9, <2>1, <2>2 DEF MarkReceive, Clean, Empty, Program, TypeOK
  <2>4. Filling(Other(p))' /\ Len(log'[Other(p)]) = 0
    BY <2>2, <2>3 DEF Filling
  <2>5. pc' = "put" /\ op' = "transfer" /\ half' = FALSE /\ status' = status
    BY <1>0, <1>9 DEF MarkReceive, Phase, TypeOK
  <2> QED
    BY <1>2, <2>2, <2>4, <2>5 DEF PagesRoom
<1>10. CASE CopySkip
  <2>1. UNCHANGED <<hdr, log, pc, status, half, losses>> /\ idx' = idx + 1 /\ pc = "copy" /\ ~half
    BY <1>10 DEF CopySkip, env
  <2>2. PICK p \in Page : Filling(p) /\ Len(log[p]) <= Leftovers + (idx - 1) + 0
    BY <1>2, <2>1 DEF PagesRoom
  <2>3. Filling(p)' /\ Len(log'[p]) <= Leftovers' + (idx' - 1) + 0
    BY <1>3, <2>1, <2>2, SamePages
  <2> QED
    BY <1>2, <2>1, <2>3 DEF PagesRoom
<1>11. CASE CopyData
  <2> DEFINE d == EE_ReadVariable(CopyVar)
  <2>1. /\ d \in Data /\ PutData(d) /\ UNCHANGED <<hdr, pc, op, idx, req, losses, status>>
        /\ pc = "copy" /\ ~half /\ half' = TRUE
    BY <1>0, <1>11, ReadType DEF CopyData, CopyNeeded, PutData, env
  <2>2. PICK p \in Page : Filling(p) /\ Len(log[p]) <= Leftovers + (idx - 1) + 0
    BY <1>2, <2>1 DEF PagesRoom
  <2>3. WritePage = p
    BY <1>0, <2>2, FillingWrite
  <2>4. d' = d
    <3>1. Receiving /\ CopyVar' = CopyVar
      BY <1>0, <2>1 DEF Phase, CopyVar
    <3> QED BY <1>0, <2>1, <3>1, PutElsewhere, SameReads DEF EE_ReadVariable
  <2>5. Len(log'[p]) = Len(log[p]) + IF d = Blank THEN 0 ELSE 1
    BY <1>0, <2>1, <2>3, PutDataValues
  <2>6. Filling(p)'
    BY <1>5, <2>1, <2>2
  <2> HIDE DEF d
  <2>7. Len(log'[p]) <= Leftovers' + (idx' - 1) + IF half' /\ d' # Blank THEN 1 ELSE 0
    <3>1. Leftovers' = Leftovers /\ Leftovers \in Nat /\ idx \in Nat /\ Len(log[p]) \in Nat /\ idx' = idx
      BY <1>3, <2>1
    <3>2. CASE d = Blank
      BY <2>2, <2>4, <2>5, <3>1, <3>2
    <3>3. CASE d # Blank
      BY <2>1, <2>2, <2>4, <2>5, <3>1, <3>3
    <3> QED
      BY <3>2, <3>3
  <2> QED
    BY <1>2, <2>1, <2>6, <2>7 DEF PagesRoom, d
<1>12. CASE CopyAddr
  <2> DEFINE w == CopyVar
             d == EE_ReadVariable(w)
  <2>1. /\ d \in Data /\ w \in Addr /\ PutAddr(w, d) /\ HalfSlot(d) /\ half
        /\ UNCHANGED <<hdr, pc, op, req, losses, status>> /\ pc = "copy" /\ half' = FALSE
        /\ idx' = idx + 1
    BY <1>0, <1>12, ReadType, CopyVarType DEF CopyAddr, PutAddr, HalfRoom, HalfInv, env
  <2>2. PICK p \in Page : Filling(p) /\ Len(log[p]) <= Leftovers + (idx - 1) + IF d # Blank THEN 1 ELSE 0
    BY <1>2, <2>1 DEF PagesRoom
  <2>3. WritePage = p
    BY <1>0, <2>2, FillingWrite
  <2>4. Len(log'[p]) = Len(log[p]) + IF d = Blank THEN 1 ELSE 0
    BY <1>0, <2>1, <2>3, PutAddrValues
  <2>5. Filling(p)'
    BY <1>5, <2>1, <2>2
  <2> HIDE DEF w, d
  <2>6. Len(log'[p]) <= Leftovers' + (idx' - 1) + 0
    <3>1. /\ Leftovers' = Leftovers /\ Leftovers \in Nat /\ idx \in Nat /\ Len(log[p]) \in Nat
          /\ idx' = idx + 1
      BY <1>3, <2>1
    <3>2. CASE d = Blank
      BY <2>2, <2>4, <3>1, <3>2
    <3>3. CASE d # Blank
      BY <2>2, <2>4, <3>1, <3>3
    <3> QED
      BY <3>2, <3>3
  <2> QED
    BY <1>2, <2>1, <2>5, <2>6 DEF PagesRoom
<1>13. CASE CopyFails
  <2>1. pc = "copy" /\ CopyNeeded /\ ~CanPut
    BY <1>13 DEF CopyFails
  <2>2. CASE ~half
    BY <1>2, <2>1, <2>2, RoomToCopy
  <2>3. CASE half
    BY <1>0, <2>1, <2>3, PageFacts DEF CanPut, Phase, Receiving
  <2> QED
    BY <1>0, <2>2, <2>3 DEF TypeOK
<1>14. CASE CopyDone
  <2>1. /\ UNCHANGED <<hdr, log, op, status, losses>> /\ pc = "copy" /\ pc' = "tail"
        /\ tail' = TransferTail /\ idx = NB_OF_VAR + 1 /\ ~half
    BY <1>0, <1>3, <1>14 DEF CopyDone, env, HalfRoom
  <2>2. PICK p \in Page : Filling(p) /\ Len(log[p]) <= Leftovers + (idx - 1) + 0
    BY <1>2, <2>1 DEF PagesRoom
  <2>3. ReadPage = Other(p) /\ Other(ReadPage) = p /\ Filling(p)'
    BY <1>0, <2>1, <2>2, FillingWrite, OtherPage, SamePages
  <2>4. Len(log'[p]) <= Leftovers' + NB_OF_VAR
    BY <1>3, <2>1, <2>2
  <2>5. TailRoom(p, Other(p))'
    BY <2>1, <2>3, <2>4 DEF TransferTail, TailRoom, Filling, NB_OF_VAR
  <2> QED
    BY <1>2, <2>1, <2>5 DEF PagesRoom
<1>15. CASE EE_Init
  <2>1. UNCHANGED <<hdr, log, idx, half, status, losses>> /\ pc = "off" /\ idx = 1 /\ ~half
    BY <1>0, <1>15 DEF EE_Init, RequestInv, Phase, env
  <2>2. AllEmpty \/ BothValid \/ \E p \in Page : OffRoom(p, Other(p))
    BY <1>2, <2>1 DEF PagesRoom
  <2>3. CASE AllEmpty \/ BothValid
    <3>1. ~InitCopies(hdr[0], hdr[1]) /\ InitTail(hdr[0], hdr[1]) = EE_Format
      BY <2>3 DEF AllEmpty, BothValid, Empty, InitCopies, InitTail
    <3>2. pc' = "tail" /\ tail' = EE_Format
      BY <1>15, <3>1 DEF EE_Init
    <3>3. FormatRoom'
      BY <2>1, <2>3, <3>2, SamePages DEF FormatRoom, BothValid
    <3> QED
      BY <1>2, <2>1, <3>2, <3>3 DEF PagesRoom
  <2>4. ASSUME NEW p \in Page, OffRoom(p, Other(p)) PROVE PagesRoom'
    <3>1. CASE hdr[p] = "VALID_PAGE" /\ hdr[Other(p)] = "ERASED"
      <4>1. ~InitCopies(hdr[0], hdr[1]) /\ InitTail(hdr[0], hdr[1]) = <<Erase(Other(p))>>
        BY <3>1 DEF InitCopies, InitTail, Page, Other
      <4>2. pc' = "tail" /\ tail' = <<Erase(Other(p))>>
        BY <1>15, <4>1 DEF EE_Init
      <4>3. TailRoom(p, Other(p))'
        BY <2>1, <3>1, <4>2 DEF TailRoom
      <4> QED
        BY <4>2, <4>3 DEF PagesRoom
    <3>2. CASE Filling(p) /\ Len(log[p]) <= Leftovers
      <4>1. InitCopies(hdr[0], hdr[1])
        BY <3>2 DEF InitCopies, Filling, Page, Other
      <4>2. pc' = "copy"
        BY <1>15, <4>1 DEF EE_Init
      <4>3. Filling(p)' /\ Len(log'[p]) <= Leftovers' + (idx' - 1) + 0
        BY <1>3, <2>1, <3>2, SamePages
      <4> QED
        BY <2>1, <4>2, <4>3 DEF PagesRoom
    <3>3. CASE hdr[p] = "RECEIVE_DATA" /\ hdr[Other(p)] = "ERASED"
      <4>1. ~InitCopies(hdr[0], hdr[1]) /\ InitTail(hdr[0], hdr[1]) = <<Erase(Other(p)), Valid(p)>>
        BY <3>3 DEF InitCopies, InitTail, Page, Other
      <4>2. pc' = "tail" /\ tail' = <<Erase(Other(p)), Valid(p)>>
        BY <1>15, <4>1 DEF EE_Init
      <4>3. TailRoom(p, Other(p))'
        BY <2>1, <3>3, <4>2 DEF TailRoom
      <4> QED
        BY <4>2, <4>3 DEF PagesRoom
    <3> QED
      BY <2>4, <3>1, <3>2, <3>3 DEF OffRoom
  <2> QED
    BY <1>2, <2>1, <2>2, <2>3, <2>4
<1>16. CASE DoFlashOp
  <2>0. NextFlashOp /\ pc = "tail" /\ losses' = losses /\ hdr \in [Page -> PageStatus]
    BY <1>0, <1>16 DEF DoFlashOp, env, TypeOK
  <2>1. ASSUME Len(tail) # 1 PROVE tail' = Tail(tail) /\ pc' = "tail" /\ status' = status
    BY <2>0, <2>1, Zenon DEF NextFlashOp
  <2>2. ASSUME Len(tail) = 1 PROVE pc' = "idle" /\ status' = "FLASH_COMPLETE"
    BY <2>0, <2>2 DEF NextFlashOp, Return
  <2>3. ASSUME NEW p \in Page, Head(tail) = Erase(p)
        PROVE  /\ hdr'[p] = "ERASED" /\ log'[p] = <<>>
               /\ hdr'[Other(p)] = hdr[Other(p)] /\ log'[Other(p)] = log[Other(p)]
    BY <1>0, <1>16, <2>3, OtherPage DEF DoFlashOp, Erase, TypeOK
  <2>4. ASSUME NEW p \in Page, Head(tail) = Valid(p)
        PROVE  hdr'[p] = "VALID_PAGE" /\ hdr'[Other(p)] = hdr[Other(p)] /\ log' = log
    BY <1>0, <1>16, <2>4, OtherPage DEF DoFlashOp, Valid, Program, TypeOK
  <2>5. CASE FormatRoom /\ tail = EE_Format
    <3>1. Head(tail) = Erase(0) /\ Len(tail) # 1 /\ Tail(tail) = <<Valid(0), Erase(1)>>
      BY <2>5 DEF EE_Format
    <3>2. tail' = <<Valid(0), Erase(1)>> /\ pc' = "tail" /\ status' = status
      BY <2>1, <3>1
    <3>3. Empty(0)' /\ hdr'[1] = hdr[1] /\ log'[1] = log[1]
      BY <2>3, <3>1 DEF Empty, Page, Other
    <3>4. FormatRoom'
      BY <2>5, <3>2, <3>3 DEF FormatRoom, AllEmpty, BothValid, Empty, EE_Format
    <3> QED
      BY <1>2, <3>2, <3>4 DEF PagesRoom
  <2>6. CASE FormatRoom /\ tail = <<Valid(0), Erase(1)>>
    <3>1. Head(tail) = Valid(0) /\ Len(tail) # 1 /\ Tail(tail) = <<Erase(1)>>
      BY <2>6
    <3>2. tail' = <<Erase(1)>> /\ pc' = "tail" /\ status' = status
      BY <2>1, <3>1
    <3>3. hdr'[0] = "VALID_PAGE" /\ hdr'[1] # "RECEIVE_DATA"
      BY <2>4, <2>6, <3>1 DEF FormatRoom, EE_Format, Empty, Page, Other
    <3>4. TailRoom(0, Other(0))'
      BY <3>2, <3>3 DEF TailRoom, Other
    <3> QED
      BY <1>2, <3>2, <3>4 DEF PagesRoom, Page
  <2>7. ASSUME NEW p \in Page, TailRoom(p, Other(p)) PROVE status' # "PAGE_FULL" /\ PagesRoom'
    <3> DEFINE q == Other(p)
    <3>0. q \in Page /\ q # p /\ Other(q) = p
      BY OtherPage
    <3> HIDE DEF q
    <3>1. CASE tail = <<Erase(q), Valid(p)>> /\ hdr[p] = "RECEIVE_DATA"
      <4>1. Head(tail) = Erase(q) /\ Len(tail) # 1 /\ Tail(tail) = <<Valid(p)>>
        BY <3>1
      <4>2. tail' = <<Valid(p)>> /\ pc' = "tail" /\ status' = status
        BY <2>1, <4>1
      <4>3. hdr'[p] = "RECEIVE_DATA" /\ Empty(q)'
        BY <2>3, <3>0, <3>1, <4>1 DEF Empty
      <4>4. TailRoom(p, Other(p))'
        BY <4>2, <4>3 DEF TailRoom, q
      <4> QED
        BY <1>2, <4>2, <4>4 DEF PagesRoom
    <3>2. CASE tail = <<Valid(p)>> /\ Empty(q)
      <4>1. Head(tail) = Valid(p) /\ Len(tail) = 1
        BY <3>2
      <4>2. hdr'[p] = "VALID_PAGE" /\ hdr'[q] = hdr[q] /\ log' = log
        BY <2>4, <4>1 DEF q
      <4>3. Clean(p)'
        BY <3>2, <4>2 DEF Clean, Empty, q
      <4> QED
        BY <2>2, <4>1, <4>3 DEF PagesRoom
    <3>3. CASE tail = <<Valid(p), Erase(q)>> /\ Filling(p)
      <4>1. Head(tail) = Valid(p) /\ Len(tail) # 1 /\ Tail(tail) = <<Erase(q)>>
        BY <3>3
      <4>2. tail' = <<Erase(q)>> /\ pc' = "tail" /\ status' = status
        BY <2>1, <4>1
      <4>3. hdr'[p] = "VALID_PAGE" /\ hdr'[q] = "VALID_PAGE"
        BY <2>4, <3>3, <4>1 DEF Filling, q
      <4>4. TailRoom(p, Other(p))'
        BY <4>2, <4>3 DEF TailRoom, q
      <4> QED
        BY <1>2, <4>2, <4>4 DEF PagesRoom
    <3>4. CASE tail = <<Erase(q)>> /\ hdr[p] = "VALID_PAGE"
      <4>1. Head(tail) = Erase(q) /\ Len(tail) = 1
        BY <3>4
      <4>2. hdr'[p] = "VALID_PAGE" /\ Empty(q)'
        BY <2>3, <3>0, <3>4, <4>1 DEF Empty
      <4>3. Clean(p)'
        BY <4>2 DEF Clean, q
      <4> QED
        BY <2>2, <4>1, <4>3 DEF PagesRoom
    <3> QED
      BY <2>7, <3>1, <3>2, <3>3, <3>4 DEF TailRoom, q
  <2> QED
    BY <1>2, <2>0, <2>5, <2>6, <2>7 DEF PagesRoom, FormatRoom
<1>17. CASE PowerLoss
  <2>1. /\ hdr' = hdr /\ log' = log /\ pc' = "off" /\ pc # "off" /\ status' = status
        /\ Leftovers' = Leftovers + NB_OF_VAR
    BY <1>3, <1>17 DEF PowerLoss, PowerOff
  <2> SUFFICES PagesRoom'
    BY <1>2, <2>1
  <2>2. ASSUME AllEmpty \/ BothValid PROVE PagesRoom'
    BY <2>1, <2>2, SamePages DEF PagesRoom, BothValid
  <2>3. ASSUME NEW p \in Page,
               \/ hdr[p] = "VALID_PAGE" /\ hdr[Other(p)] = "ERASED"
               \/ Filling(p) /\ Len(log[p]) <= Leftovers + NB_OF_VAR
               \/ hdr[p] = "RECEIVE_DATA" /\ hdr[Other(p)] = "ERASED"
        PROVE  PagesRoom'
    <3>1. OffRoom(p, Other(p))'
      BY <2>1, <2>3, SamePages DEF OffRoom
    <3> QED
      BY <2>1, <3>1 DEF PagesRoom
  <2>4. CASE pc \in {"idle", "mark"} \/ (pc = "put" /\ op = "write")
    <3>1. PICK p \in Page : Clean(p)
      BY <1>2, <2>4 DEF PagesRoom
    <3> QED
      BY <2>3, <3>1 DEF Clean, Empty
  <2>5. CASE pc = "put" /\ op = "transfer"
    <3>1. PICK p \in Page : Filling(p) /\ Len(log[p]) = IF half /\ req.data # Blank THEN 1 ELSE 0
      BY <1>2, <2>5 DEF PagesRoom
    <3>2. Len(log[p]) <= Leftovers + NB_OF_VAR
      BY <1>3, <3>1
    <3> QED
      BY <2>3, <3>1, <3>2
  <2>6. CASE pc = "copy"
    <3> DEFINE b == half /\ EE_ReadVariable(CopyVar) # Blank
    <3>1. PICK p \in Page : Filling(p) /\ Len(log[p]) <= Leftovers + (idx - 1) + IF b THEN 1 ELSE 0
      BY <1>2, <2>6 DEF PagesRoom
    <3>2. b => idx <= NB_OF_VAR
      BY <1>0, <2>6 DEF HalfRoom
    <3> HIDE DEF b
    <3>3. Len(log[p]) <= Leftovers + NB_OF_VAR
      <4>1. Leftovers \in Nat /\ NB_OF_VAR \in Nat /\ idx \in Nat /\ Len(log[p]) \in Nat /\ idx <= NB_OF_VAR + 1
        BY <1>3
      <4>2. CASE b
        BY <3>1, <3>2, <4>1, <4>2
      <4>3. CASE ~b
        BY <3>1, <4>1, <4>3
      <4> QED
        BY <4>2, <4>3
    <3> QED
      BY <2>3, <3>1, <3>3
  <2>7. CASE pc = "tail"
    <3>1. CASE FormatRoom
      <4>1. AllEmpty \/ BothValid \/ (hdr[1] = "VALID_PAGE" /\ hdr[Other(1)] = "ERASED")
        BY <3>1 DEF FormatRoom, AllEmpty, Empty, Other
      <4> QED
        BY <2>2, <2>3, <4>1 DEF Page
    <3>2. ASSUME NEW p \in Page, TailRoom(p, Other(p)) PROVE PagesRoom'
      <4>1. \/ BothValid
            \/ hdr[p] = "VALID_PAGE" /\ hdr[Other(p)] = "ERASED"
            \/ Filling(p) /\ Len(log[p]) <= Leftovers + NB_OF_VAR
            \/ hdr[p] = "RECEIVE_DATA" /\ hdr[Other(p)] = "ERASED"
        <5>1. hdr[Other(p)] \in PageStatus
          BY <1>0, OtherPage DEF TypeOK
        <5>2. hdr[p] = "VALID_PAGE" /\ hdr[Other(p)] = "VALID_PAGE" => BothValid
          BY DEF BothValid, Page, Other
        <5> QED
          BY <3>2, <5>1, <5>2 DEF TailRoom, Filling, Empty, PageStatus
      <4> QED
        BY <2>2, <2>3, <4>1
    <3>3. FormatRoom \/ \E p \in Page : TailRoom(p, Other(p))
      BY <1>2, <2>7 DEF PagesRoom
    <3> QED
      BY <3>1, <3>2, <3>3
  <2> QED
    BY <1>0, <2>1, <2>4, <2>5, <2>6, <2>7 DEF TypeOK, Phase
<1>18. CASE PowerLossInErase
  <2>1. /\ pc = "tail" /\ Head(tail).do = "erase" /\ pc' = "off" /\ status' = status /\ log' = log
        /\ hdr' = [hdr EXCEPT ![Head(tail).page] = "ERASED"]
    BY <1>18 DEF PowerLossInErase, PowerOff
  <2>2. CASE FormatRoom
    <3>1. tail = EE_Format /\ Head(tail) = Erase(0) /\ Head(tail).page = 0
      BY <2>1, <2>2 DEF FormatRoom, EE_Format, Valid, Erase
    <3>2. hdr'[0] = "ERASED" /\ hdr'[1] = hdr[1] /\ hdr'[Other(1)] = "ERASED"
      BY <1>0, <2>1, <3>1 DEF TypeOK, Page, Other
    <3>3. AllEmpty' \/ OffRoom(1, Other(1))'
      BY <2>1, <2>2, <3>1, <3>2 DEF FormatRoom, AllEmpty, Empty, BothValid, OffRoom, EE_Format
    <3> QED
      BY <1>2, <2>1, <3>3 DEF PagesRoom, Page
  <2>3. ASSUME NEW p \in Page, TailRoom(p, Other(p)) PROVE PagesRoom'
    <3>1. Head(tail).page = Other(p) /\ hdr[p] \in {"VALID_PAGE", "RECEIVE_DATA"}
      BY <2>1, <2>3 DEF TailRoom, Erase, Valid
    <3>2. OffRoom(p, Other(p))'
      BY <1>0, <2>1, <3>1, OtherPage DEF OffRoom, TypeOK
    <3> QED
      BY <2>1, <3>2 DEF PagesRoom
  <2> QED
    BY <1>2, <2>1, <2>2, <2>3 DEF PagesRoom
<1>19. CASE UNCHANGED vars
  <2>1. UNCHANGED <<hdr, log, pc, op, idx, req, half, tail, status, losses>>
    BY <1>19 DEF vars, ctl, env
  <2>2. EE_ReadVariable(CopyVar)' = EE_ReadVariable(CopyVar)
    BY <2>1, SameReads DEF CopyVar, EE_ReadVariable
  <2>3. \A p \in Page : /\ TailRoom(p, Other(p))' <=> TailRoom(p, Other(p))
                        /\ OffRoom(p, Other(p))' <=> OffRoom(p, Other(p))
    BY <1>3, <2>1, SamePages, OtherPage DEF TailRoom, OffRoom, NB_OF_VAR
  <2>4. (FormatRoom' <=> FormatRoom) /\ (BothValid' <=> BothValid)
    BY <2>1, SamePages DEF FormatRoom, BothValid, Page
  <2>5. PagesRoom' <=> PagesRoom
    BY <1>3, <2>1, <2>2, <2>3, <2>4, SamePages DEF PagesRoom
  <2> QED
    BY <1>2, <2>1, <2>5
<1> QED
  BY <1>1, <1>4, <1>6, <1>7, <1>8, <1>9, <1>10, <1>11, <1>12, <1>13, <1>14, <1>15, <1>16, <1>17,
     <1>18, <1>19 DEF Next, Step

(* A blank flash has room.                                                 *)
LEMMA InitRoom == Init => RoomInv
<1> SUFFICES ASSUME Init PROVE RoomInv
  OBVIOUS
<1>1. AllEmpty
  BY DEF Init, AllEmpty, Empty, Page
<1> QED
  BY <1>1 DEF Init, RoomInv, PagesRoom

(* As long as the flash reports no error, no write and no recovery finds   *)
(* its page full before (losses + 1) * NB_OF_VAR slots are a page.         *)
THEOREM RecoveryHasRoom == Spec => []RoomForRecovery
<1> DEFINE Inv == TypeInv /\ RequestInv /\ HalfInv /\ RoomInv
<1>1. Init => Inv
  BY InitInv, InitValues, InitRoom
<1>2. Inv /\ [Next]_vars => Inv'
  BY NextInv, RequestNext, HalfNext, RoomNext
<1>3. Inv => RoomForRecovery
  BY DEF RoomInv, RoomForRecovery, Crowded
<1> QED
  BY <1>1, <1>2, <1>3, PTL DEF Spec
=============================================================================

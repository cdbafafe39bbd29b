----------------------------- MODULE ConfProofs -----------------------------
(***************************************************************************)
(* Proofs about the stored configurations, for images of any size and any  *)
(* number of stores, power losses and flash errors: what conf_general.c    *)
(* needs of eeprom.c is that no other step than a request's own changes    *)
(* the value of an address (lemmas RequestApplies and ValueKept).          *)
(***************************************************************************)
EXTENDS ConfInv, EepromProofs

(* A word of a configuration has an address of its own.                    *)
LEMMA WordAddrs ==
  ASSUME NEW k \in Kind, NEW i \in 1..Words(k)
  PROVE  /\ WordAddr(k, i) \in Addr
         /\ \A j \in Kind : \A n : WordAddr(k, i) = WordAddr(j, n) => j = k /\ n = i
BY ConfAssumption DEF Kind, Words, WordAddr, ConfAddr

(* The sizes.                                                              *)
LEMMA WordsType ==
  ASSUME NEW k \in Kind
  PROVE  Words(k) \in Nat \ {0} /\ Confs(k) \subseteq [1..Words(k) -> Data]
BY ConfAssumption DEF Kind, Words, Confs

(* The word StoreWord hands to EE_WriteVariable.                           *)
LEMMA NextWord ==
  ASSUME StoreType, store # NoStore, ~StoreDone
  PROVE  /\ store.kind \in Kind /\ store.i \in 1..Words(store.kind)
         /\ WordAddr(store.kind, store.i) \in Addr /\ store.conf[store.i] \in Data
<1>1. /\ store.kind \in Kind /\ store.conf \in Confs(store.kind)
      /\ store.i \in 1..(Words(store.kind) + 1)
  BY DEF StoreType
<1>2. ~(store.i > Words(store.kind))
  BY DEF StoreDone
<1>3. Words(store.kind) \in Nat /\ store.conf \in [1..Words(store.kind) -> Data]
  BY <1>1, WordsType
<1>4. store.i \in 1..Words(store.kind)
  BY <1>1, <1>2, <1>3
<1> QED
  BY <1>1, <1>3, <1>4, WordAddrs

(* A step of a store is a step of the EEPROM emulation, or none.           *)
LEMMA ConfStep ==
  ASSUME StoreType, [ConfNext]_allvars
  PROVE  [Next]_vars
<1>1. CASE \E k \in Kind : \E c \in Confs(k) : StoreCall(k, c)
  BY <1>1 DEF StoreCall
<1>2. CASE StoreWord
  <2>1. EE_WriteVariable(WordAddr(store.kind, store.i), store.conf[store.i])
    BY <1>2 DEF StoreWord
  <2>2. WordAddr(store.kind, store.i) \in Addr /\ store.conf[store.i] \in Data
    BY <1>2, NextWord DEF StoreWord
  <2> QED
    BY <2>1, <2>2 DEF Next
<1>3. CASE StoreReturns
  BY <1>3 DEF StoreReturns
<1>4. CASE Flash
  BY <1>4 DEF Flash, Next
<1>5. CASE Power
  BY <1>5 DEF Power, Next
<1>6. CASE UNCHANGED allvars
  BY <1>6 DEF allvars
<1> QED
  BY <1>1, <1>2, <1>3, <1>4, <1>5, <1>6 DEF ConfNext

(* The store in progress, its image and the words before it have their     *)
(* types.                                                                  *)
LEMMA StoreTypeNext == StoreType /\ [ConfNext]_allvars => StoreType'
<1> SUFFICES ASSUME StoreType, [ConfNext]_allvars PROVE StoreType'
  OBVIOUS
<1>1. ASSUME NEW k \in Kind, NEW c \in Confs(k), StoreCall(k, c) PROVE StoreType'
  <2>1. store' = [kind |-> k, conf |-> c, i |-> 1] /\ 1 \in 1..(Words(k) + 1)
    BY <1>1, WordsType DEF StoreCall
  <2>2. DOMAIN base' = Kind /\ DOMAIN image' = Kind /\ stored' \in [Kind -> BOOLEAN]
    BY <1>1 DEF StoreCall, StoreType
  <2> QED
    BY <2>1, <2>2 DEF StoreType
<1>2. CASE StoreWord
  <2>1. /\ store.kind \in Kind /\ store.conf \in Confs(store.kind) /\ store.i \in 1..Words(store.kind)
        /\ store = [kind |-> store.kind, conf |-> store.conf, i |-> store.i]
    BY <1>2, NextWord DEF StoreWord, StoreType
  <2>2. store' = [kind |-> store.kind, conf |-> store.conf, i |-> store.i + 1]
    BY <1>2, <2>1 DEF StoreWord
  <2>3. store.i + 1 \in 1..(Words(store.kind) + 1)
    BY <2>1, WordsType
  <2> QED
    BY <1>2, <2>1, <2>2, <2>3 DEF StoreWord, StoreType
<1>3. CASE StoreReturns
  BY <1>3 DEF StoreReturns, StoreType
<1>4. CASE Flash
  BY <1>4 DEF Flash, cvars, StoreType
<1>5. CASE Power
  BY <1>5 DEF Power, StoreType
<1>6. CASE UNCHANGED allvars
  BY <1>6 DEF allvars, cvars, StoreType
<1> QED
  BY <1>1, <1>2, <1>3, <1>4, <1>5, <1>6 DEF ConfNext

(* Only a store writes, one word at a time.                                *)
LEMMA WritingNext ==
  ASSUME TypeInv, StoreType, Writing, [ConfNext]_allvars
  PROVE  Writing'
<1>0. Phase
  BY DEF TypeInv
<1>1. ASSUME NEW k \in Kind, NEW c \in Confs(k), StoreCall(k, c) PROVE Writing'
  <2>1. /\ store' = [kind |-> k, conf |-> c, i |-> 1] /\ pc' = "idle" /\ op' = "none"
        /\ stored' = [stored EXCEPT ![k] = FALSE] /\ image' = [image EXCEPT ![k] = c]
    BY <1>0, <1>1 DEF StoreCall, vars, ctl, Phase
  <2>2. stored'[k] = FALSE /\ image'[k] = c
    BY <2>1 DEF StoreType
  <2> QED
    BY <2>1, <2>2 DEF Writing
<1>2. CASE StoreWord
  <2>1. /\ store # NoStore /\ store.i \in Nat /\ store.i >= 1
        /\ store = [kind |-> store.kind, conf |-> store.conf, i |-> store.i]
    BY <1>2, NextWord, WordsType DEF StoreWord, StoreType
  <2>2. store' = [kind |-> store.kind, conf |-> store.conf, i |-> store.i + 1]
    BY <1>2, <2>1 DEF StoreWord
  <2>3. /\ pc' = "put" /\ op' = "write" /\ UNCHANGED <<stored, image>>
        /\ req' = [addr |-> WordAddr(store.kind, store.i), data |-> store.conf[store.i]]
    BY <1>2 DEF StoreWord, EE_WriteVariable
  <2>4. /\ store'.kind = store.kind /\ store'.conf = store.conf /\ store'.i - 1 = store.i
        /\ store'.i > 1 /\ store' # NoStore
    BY <2>1, <2>2 DEF NoStore
  <2> QED
    BY <2>1, <2>3, <2>4 DEF Writing
<1>3. CASE StoreReturns
  BY <1>0, <1>3 DEF StoreReturns, vars, ctl, Phase, Writing
<1>4. CASE Flash
  <2>1. UNCHANGED <<store, stored, image>>
    BY <1>4 DEF Flash, cvars
  <2>2. op' \in {"write", "transfer"} => op \in {"write", "transfer"} /\ req' = req
    BY <1>4, Zenon DEF Flash, Step, FlashError, PutRequestData, PutRequestAddr, PutFails, MarkReceive, CopySkip,
                CopyData, CopyAddr, CopyFails, CopyDone, DoFlashOp, NextFlashOp, EE_Init, Return
  <2>3. pc # "off" /\ op # "init" => pc' # "off" /\ op' # "init"
    BY <1>4 DEF Flash, Step, FlashError, PutRequestData, PutRequestAddr, PutFails, MarkReceive, CopySkip,
                CopyData, CopyAddr, CopyFails, CopyDone, DoFlashOp, NextFlashOp, EE_Init, Return
  <2> QED
    BY <2>1, <2>2, <2>3 DEF Writing
<1>5. CASE Power
  BY <1>5 DEF Power, PowerLoss, PowerLossInErase, PowerOff, Writing
<1>6. CASE UNCHANGED allvars
  BY <1>6 DEF allvars, vars, ctl, cvars, Writing
<1> QED
  BY <1>1, <1>2, <1>3, <1>4, <1>5, <1>6 DEF ConfNext

(* The words of a configuration that the table covers.                     *)
LEMMA CoveredWords ==
  ASSUME NEW k \in Kind, Covered(k), NEW i \in 1..Words(k)
  PROVE  WordAddr(k, i) \in Addr \cap Moved
BY WordAddrs DEF Covered, Moved

(* How far each configuration's store has come.                            *)
LEMMA WordsNext ==
  ASSUME TypeInv, PagesInv, RequestInv, HalfInv, ValuesInv, StoreType, Writing, WordsInv,
         [ConfNext]_allvars
  PROVE  WordsInv'
<1> SUFFICES ASSUME ~degraded', NEW k \in Kind, Covered(k)
             PROVE  /\ \E n \in 0..Words(k) : Spliced(Flashed(k)', image'[k], base'[k], n)
                    /\ stored'[k] => /\ image'[k] \in Confs(k)
                                     /\ Spliced(Flashed(k)', image'[k], base'[k], Words(k))
                    /\ store' # NoStore /\ store'.kind = k =>
                         \/ Spliced(Flashed(k)', image'[k], base'[k], store'.i - 1)
                         \/ Unwritten' /\ Spliced(Flashed(k)', image'[k], base'[k], store'.i - 2)
  BY DEF WordsInv, Torn, Covered, WordAddr, NB_OF_VAR
<1>0. [Next]_vars
  BY ConfStep
<1>1. /\ ~degraded
      /\ \E n \in 0..Words(k) : Spliced(Flashed(k), image[k], base[k], n)
      /\ stored[k] => image[k] \in Confs(k) /\ Spliced(Flashed(k), image[k], base[k], Words(k))
      /\ store # NoStore /\ store.kind = k =>
           \/ Spliced(Flashed(k), image[k], base[k], store.i - 1)
           \/ Unwritten /\ Spliced(Flashed(k), image[k], base[k], store.i - 2)
  BY <1>0, NotDegraded DEF WordsInv, Torn
<1>2. Words(k) \in Nat \ {0}
  BY WordsType
<1>3. ASSUME ~PutRequestAddr PROVE Flashed(k)' = Flashed(k)
  <2>1. \A i \in 1..Words(k) : Recovered(WordAddr(k, i))' = Recovered(WordAddr(k, i))
    BY <1>0, <1>3, CoveredWords, ValueKept
  <2> QED
    BY <2>1 DEF Flashed
<1>4. ASSUME NEW c0 \in Kind, NEW c \in Confs(c0), StoreCall(c0, c)
      PROVE  /\ \E n \in 0..Words(k) : Spliced(Flashed(k)', image'[k], base'[k], n)
             /\ stored'[k] => /\ image'[k] \in Confs(k)
                              /\ Spliced(Flashed(k)', image'[k], base'[k], Words(k))
             /\ store' # NoStore /\ store'.kind = k =>
                  \/ Spliced(Flashed(k)', image'[k], base'[k], store'.i - 1)
                  \/ Unwritten' /\ Spliced(Flashed(k)', image'[k], base'[k], store'.i - 2)
  <2>1. /\ store' = [kind |-> c0, conf |-> c, i |-> 1] /\ pc = "idle" /\ pc' = "idle"
        /\ stored' = [stored EXCEPT ![c0] = FALSE] /\ image' = [image EXCEPT ![c0] = c]
        /\ base' = [base EXCEPT ![c0] = WordsOnFlash(c0)]
    BY <1>4 DEF StoreCall, vars, ctl
  <2>2. Flashed(k)' = Flashed(k)
    BY <1>3, <2>1 DEF PutRequestAddr
  <2>3. CASE k # c0
    <3>1. image'[k] = image[k] /\ base'[k] = base[k] /\ stored'[k] = stored[k] /\ store'.kind # k
      BY <2>1, <2>3 DEF StoreType
    <3> QED
      BY <1>1, <2>2, <3>1
  <2>4. CASE k = c0
    <3>1. image'[k] = c /\ base'[k] = WordsOnFlash(k) /\ ~stored'[k] /\ store'.i = 1
      BY <2>1, <2>4 DEF StoreType
    <3>2. \A i \in 1..Words(k) : EE_ReadVariable(WordAddr(k, i)) = Recovered(WordAddr(k, i))
      BY <1>1, <2>1, ReadsRecover, WordAddrs DEF ReadsAreDurable
    <3>3. Spliced(Flashed(k)', image'[k], base'[k], 0)
      BY <2>2, <3>1, <3>2 DEF Spliced, Flashed, WordsOnFlash
    <3> QED
      BY <1>2, <3>1, <3>3
  <2> QED
    BY <2>3, <2>4
<1>5. CASE StoreWord
  <2>1. /\ store # NoStore /\ ~StoreDone /\ pc = "idle" /\ pc' = "put"
        /\ store' = [store EXCEPT !.i = @ + 1] /\ UNCHANGED <<image, base, stored>>
    BY <1>5 DEF StoreWord, EE_WriteVariable
  <2>2. Flashed(k)' = Flashed(k)
    BY <1>3, <2>1 DEF PutRequestAddr
  <2>3. /\ store.i \in Nat /\ store.i >= 1 /\ store'.kind = store.kind /\ store'.i = store.i + 1
    BY <2>1, NextWord, WordsType DEF StoreType
  <2>4. ~Unwritten
    BY <2>1, <2>3 DEF Unwritten, StoreDone
  <2>5. Unwritten'
    BY <2>1, <2>3 DEF Unwritten
  <2>6. store.kind = k => Spliced(Flashed(k), image[k], base[k], store'.i - 2)
    <3>1. store'.i - 2 = store.i - 1
      BY <2>3
    <3> QED
      BY <1>1, <2>1, <2>4, <3>1
  <2> QED
    BY <1>1, <2>1, <2>2, <2>3, <2>5, <2>6
<1>6. CASE StoreReturns
  <2>1. /\ store # NoStore /\ StoreDone /\ pc = "idle" /\ pc' = pc
        /\ store' = NoStore /\ UNCHANGED <<image, base>>
        /\ stored' = [stored EXCEPT ![store.kind] = (status = "FLASH_COMPLETE")]
    BY <1>6 DEF StoreReturns, vars, ctl
  <2>2. Flashed(k)' = Flashed(k)
    BY <1>3, <2>1 DEF PutRequestAddr
  <2>3. ASSUME stored'[k]
        PROVE  image[k] \in Confs(k) /\ Spliced(Flashed(k), image[k], base[k], Words(k))
    <3>1. CASE store.kind # k
      <4>1. stored'[k] = stored[k]
        BY <2>1, <3>1 DEF StoreType
      <4> QED
        BY <1>1, <2>3, <4>1
    <3>2. CASE store.kind = k
      <4>1. status = "FLASH_COMPLETE"
        BY <2>1, <2>3, <3>2 DEF StoreType
      <4>2. store.i \in 1..(Words(k) + 1) /\ store.i > Words(k) /\ store.conf \in Confs(k)
        BY <2>1, <3>2, <4>1 DEF StoreDone, StoreType
      <4>3. store.i - 1 = Words(k)
        BY <1>2, <4>2
      <4>4. ~Unwritten
        BY <2>1, <4>1 DEF Unwritten
      <4>5. image[k] = store.conf
        BY <2>1, <3>2 DEF Writing
      <4> QED
        BY <1>1, <2>1, <3>2, <4>2, <4>3, <4>4, <4>5
    <3> QED
      BY <3>1, <3>2
  <2> QED
    BY <1>1, <2>1, <2>2, <2>3
<1>7. CASE Power
  <2>1. store' = NoStore /\ UNCHANGED <<image, base, stored>> /\ pc' = "off"
    BY <1>7 DEF Power, PowerLoss, PowerLossInErase, PowerOff
  <2>2. Flashed(k)' = Flashed(k)
    BY <1>3, <2>1 DEF PutRequestAddr, Return
  <2> QED
    BY <1>1, <2>1, <2>2
<1>8. CASE Flash /\ ~PutRequestAddr
  <2>1. UNCHANGED <<store, image, base, stored>>
    BY <1>8 DEF Flash, cvars
  <2>2. Flashed(k)' = Flashed(k)
    BY <1>3, <1>8
  <2>3. Unwritten => Unwritten'
    <3>0. Phase
      BY DEF TypeInv
    <3>1. CASE pc = "idle"
      BY <1>8, <3>0, <3>1 DEF Flash, Step, PutRequestData, PutRequestAddr, PutFails, MarkReceive, CopySkip,
                CopyData, CopyAddr, CopyFails, CopyDone, DoFlashOp, EE_Init, FlashError
    <3>2. ASSUME pc \in {"put", "mark"}
          PROVE  pc' \in {"put", "mark"} \/ (pc' = "idle" /\ status' # "FLASH_COMPLETE")
      <4>1. CASE PutRequestData \/ MarkReceive
        BY <3>2, <4>1 DEF PutRequestData, MarkReceive
      <4>2. CASE PutFails
        BY <4>2, Zenon DEF PutFails, Return
      <4>3. CASE FlashError
        BY <4>3 DEF FlashError, Return
      <4>4. ~(CopySkip \/ CopyData \/ CopyAddr \/ CopyFails \/ CopyDone \/ DoFlashOp \/ EE_Init)
        BY <3>2 DEF CopySkip, CopyData, CopyAddr, CopyFails, CopyDone, DoFlashOp, EE_Init
      <4> QED
        BY <1>8, <4>1, <4>2, <4>3, <4>4 DEF Flash, Step
    <3> QED
      BY <2>1, <3>1, <3>2 DEF Unwritten
  <2> QED
    BY <1>1, <2>1, <2>2, <2>3
<1>9. CASE Flash /\ PutRequestAddr
  <2>1. UNCHANGED <<store, image, base, stored>>
    BY <1>9 DEF Flash, cvars
  <2>2. /\ op \in {"write", "transfer"} /\ store # NoStore /\ store.i > 1
        /\ req = [addr |-> WordAddr(store.kind, store.i - 1), data |-> store.conf[store.i - 1]]
        /\ ~stored[store.kind] /\ image[store.kind] = store.conf
    BY <1>9 DEF PutRequestAddr, Writing
  <2>3. store.kind \in Kind /\ store.i \in 1..(Words(store.kind) + 1)
    BY <2>2 DEF StoreType
  <2>4. \A i \in 1..Words(k) : Recovered(WordAddr(k, i))' =
          IF WordAddr(k, i) = req.addr THEN req.data ELSE Recovered(WordAddr(k, i))
    BY <1>1, <1>9, WordAddrs, RequestApplies
  <2>5. CASE store.kind # k
    <3>1. \A i \in 1..Words(k) : WordAddr(k, i) # req.addr
      BY <2>2, <2>3, <2>5, WordAddrs
    <3>2. Flashed(k)' = Flashed(k)
      BY <2>4, <3>1 DEF Flashed
    <3> QED
      BY <1>1, <2>1, <2>5, <3>2
  <2>6. CASE store.kind = k
    <3> DEFINE m == store.i - 1
    <3>1. m \in 1..Words(k) /\ store.i - 2 = m - 1 /\ req.addr = WordAddr(k, m) /\ req.data = image[k][m]
      BY <1>2, <2>2, <2>3, <2>6
    <3>2. Spliced(Flashed(k), image[k], base[k], m) \/ Spliced(Flashed(k), image[k], base[k], m - 1)
      BY <1>1, <2>2, <2>6, <3>1
    <3> HIDE DEF m
    <3>3. \A i \in 1..Words(k) : Flashed(k)'[i] = IF i = m THEN image[k][m] ELSE Flashed(k)[i]
      <4>1. \A i \in 1..Words(k) : WordAddr(k, i) = req.addr <=> i = m
        BY <3>1, WordAddrs
      <4> QED
        BY <2>4, <3>1, <4>1 DEF Flashed
    <3>4. DOMAIN Flashed(k) = 1..Words(k) /\ DOMAIN (Flashed(k)') = 1..Words(k)
      BY DEF Flashed
    <3>5. Spliced(Flashed(k)', image[k], base[k], m)
      <4>1. ASSUME NEW i \in 1..Words(k)
            PROVE  Flashed(k)'[i] = IF i <= m THEN image[k][i] ELSE base[k][i]
        <5>1. i \in Nat /\ m \in Nat /\ (i <= m - 1 <=> i <= m /\ i # m)
          BY <1>2, <3>1
        <5>2. CASE i = m
          BY <3>3, <5>1, <5>2
        <5>3. CASE i # m
          BY <3>2, <3>3, <3>4, <5>1, <5>3 DEF Spliced
        <5> QED
          BY <5>2, <5>3
      <4> QED
        BY <3>4, <4>1 DEF Spliced
    <3>6. m \in 0..Words(k)
      BY <1>2, <3>1
    <3> QED
      BY <2>1, <2>2, <2>6, <3>5, <3>6 DEF m
  <2> QED
    BY <2>5, <2>6
<1>10. CASE UNCHANGED allvars
  <2>1. UNCHANGED <<store, image, base, stored, pc, status>>
    BY <1>10 DEF allvars, vars, ctl, cvars
  <2>2. Flashed(k)' = Flashed(k)
    <3>1. UNCHANGED <<hdr, log, tail>>
      BY <1>10 DEF allvars, vars, ctl
    <3>2. \A i \in 1..Words(k) : Recovered(WordAddr(k, i))' = Recovered(WordAddr(k, i))
      BY <3>1, SamePagesValue
    <3> QED
      BY <3>2 DEF Flashed
  <2>3. Unwritten' <=> Unwritten
    BY <2>1 DEF Unwritten
  <2> QED
    BY <1>1, <2>1, <2>2, <2>3
<1> QED
  BY <1>4, <1>5, <1>6, <1>7, <1>8, <1>9, <1>10 DEF ConfNext

(* A blank flash holds no store's words.                                   *)
LEMMA InitStore == ConfInit => StoreInv
<1> SUFFICES ASSUME ConfInit PROVE StoreInv
  OBVIOUS
<1>1. StoreType
  BY DEF ConfInit, StoreType
<1>2. Writing
  BY DEF ConfInit, Init, Writing
<1>3. ASSUME NEW k \in Kind
      PROVE  Torn(k, 0) /\ ~stored[k] /\ 0 \in 0..Words(k)
  <2>1. hdr[0] = "ERASED" /\ hdr[1] = "ERASED"
    BY DEF ConfInit, Init, Page
  <2>2. \A i \in 1..Words(k) : Recovered(WordAddr(k, i)) = NotFound
    BY <2>1, RecoveredNone, RecoveredNow
  <2>3. base[k] = [i \in 1..Words(k) |-> NotFound] /\ ~stored[k]
    BY DEF ConfInit
  <2>4. Torn(k, 0)
    BY <2>2, <2>3, WordsType DEF Torn, Spliced, Flashed
  <2> QED
    BY <2>3, <2>4, WordsType
<1>4. WordsInv
  BY <1>3 DEF WordsInv, ConfInit
<1> QED
  BY <1>1, <1>2, <1>4 DEF StoreInv

(* The invariants of the pages and of the stores.                          *)
ConfInvs == TypeInv /\ PagesInv /\ RequestInv /\ HalfInv /\ ValuesInv /\ StoreInv

(* They hold in every behaviour.                                           *)
LEMMA StoresCorrect == ConfSpec => []ConfInvs
<1>1. ConfInit => ConfInvs
  BY InitStore, InitInv, InitPages, InitValues DEF ConfInit, ConfInvs
<1>2. ConfInvs /\ [ConfNext]_allvars => ConfInvs'
  <2> SUFFICES ASSUME ConfInvs, [ConfNext]_allvars PROVE ConfInvs'
    OBVIOUS
  <2>1. /\ TypeInv /\ PagesInv /\ RequestInv /\ HalfInv /\ ValuesInv
        /\ StoreType /\ Writing /\ WordsInv
    BY DEF ConfInvs, StoreInv
  <2>2. [Next]_vars
    BY <2>1, ConfStep
  <2>3. TypeInv' /\ PagesInv' /\ RequestInv' /\ HalfInv' /\ ValuesInv'
    BY <2>1, <2>2, NextInv, NextPages, RequestNext, HalfNext, ValuesNext
  <2>4. StoreType' /\ Writing' /\ WordsInv'
    BY <2>1, StoreTypeNext, WritingNext, WordsNext
  <2> QED
    BY <2>3, <2>4 DEF ConfInvs, StoreInv
<1> QED
  BY <1>1, <1>2, PTL DEF ConfSpec

(* What a quiet state reads are the words that would be recovered.         *)
LEMMA QuietReads ==
  ASSUME ConfInvs, Quiet, NEW k \in Kind, Covered(k)
  PROVE  /\ WordsInv /\ ~degraded
         /\ \A i \in 1..Words(k) : EE_ReadVariable(WordAddr(k, i)) = Flashed(k)[i]
<1>1. \A i \in 1..Words(k) : EE_ReadVariable(WordAddr(k, i)) = Recovered(WordAddr(k, i))
  BY ReadsRecover, WordAddrs DEF ReadsAreDurable, ConfInvs, Quiet
<1> QED
  BY <1>1 DEF ConfInvs, StoreInv, Quiet, Flashed

(* A configuration whose store returned true is what every later read      *)
(* gets, across page transfers, power losses and failed stores of the      *)
(* other configuration, as long as the table covers it.                    *)
THEOREM ConfReadsBack == ConfSpec => []CoveredConfReadsBack
<1>1. ConfInvs => CoveredConfReadsBack
  <2> SUFFICES ASSUME ConfInvs, NEW k \in Kind, Covered(k), Quiet, stored[k]
               PROVE  conf_general_read(k) = image[k]
    BY DEF CoveredConfReadsBack, ReadsBack
  <2>1. image[k] \in Confs(k) /\ Torn(k, Words(k))
    BY QuietReads DEF WordsInv
  <2>2. image[k] \in [1..Words(k) -> Data] /\ Words(k) \in Nat
    BY <2>1, WordsType
  <2>3. \A i \in 1..Words(k) : EE_ReadVariable(WordAddr(k, i)) = image[k][i]
    BY <2>1, <2>2, QuietReads DEF Torn, Spliced, Flashed
  <2>4. \A i \in 1..Words(k) : EE_ReadVariable(WordAddr(k, i)) # NotFound
    BY <2>2, <2>3, EepromAssumption
  <2>5. WordsOnFlash(k) = image[k]
    BY <2>2, <2>3 DEF WordsOnFlash
  <2> QED
    BY <2>4, <2>5 DEF conf_general_read
<1> QED
  BY <1>1, StoresCorrect, PTL

(* An interrupted or failed store leaves the first words of the new image  *)
(* and the last words of what was there.                                   *)
THEOREM TornStores == ConfSpec => []TornStoreIsPrefix
<1>1. ConfInvs => TornStoreIsPrefix
  <2> SUFFICES ASSUME ConfInvs, Quiet, NEW k \in Kind, Covered(k)
               PROVE  \E n \in 0..Words(k) : \A i \in 1..Words(k) :
                        EE_ReadVariable(WordAddr(k, i)) = IF i <= n THEN image[k][i] ELSE base[k][i]
    BY DEF TornStoreIsPrefix
  <2>1. PICK n \in 0..Words(k) : Torn(k, n)
    BY QuietReads DEF WordsInv
  <2>2. ASSUME NEW i \in 1..Words(k)
        PROVE  EE_ReadVariable(WordAddr(k, i)) = IF i <= n THEN image[k][i] ELSE base[k][i]
    <3>1. i \in DOMAIN Flashed(k)
      BY DEF Flashed
    <3> QED
      BY <2>1, <3>1, QuietReads DEF Torn, Spliced
  <2> QED
    BY <2>2
<1> QED
  BY <1>1, StoresCorrect, PTL
=============================================================================

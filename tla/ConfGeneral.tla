---------------------------- MODULE ConfGeneral ----------------------------
(***************************************************************************)
(* Storing and reading the motor and the app configuration (struct images  *)
(* cut into half-words) in the emulated EEPROM: conf_general.c on top of   *)
(* eeprom.c.  A store holds the kernel lock from its first half-word to    *)
(* its last, so stores do not interleave; power can still be lost between  *)
(* any two flash operations.                                               *)
(***************************************************************************)
EXTENDS Eeprom

CONSTANTS
  McWords,      \* sizeof(mc_configuration) / 2
  AppWords,     \* sizeof(app_configuration) / 2
  McConfs,      \* motor configurations the callers store
  AppConfs,     \* app configurations the callers store
  MaxStores     \* bound on calls of conf_general_store_*

VARIABLES
  store,        \* the store in progress: configuration, image, next word
  stores,
  base,         \* history: words on flash when the last store began
  image,        \* history: what the last store was given
  stored        \* history: the last store returned true

cvars == <<store, stores, base, image, stored>>
allvars == <<vars, cvars>>

Kind == {"mc", "app"}
Words(k) == IF k = "mc" THEN McWords ELSE AppWords
Confs(k) == IF k = "mc" THEN McConfs ELSE AppConfs

(* EEPROM_BASE_MCCONF + i and EEPROM_BASE_APPCONF + i.                     *)
WordAddr(k, i) == <<k, i>>
ConfAddr == {WordAddr(k, i) : k \in {"mc"}, i \in 1..McWords}
              \cup {WordAddr(k, i) : k \in {"app"}, i \in 1..AppWords}

ASSUME ConfAssumption ==
  /\ McWords \in Nat \ {0} /\ AppWords \in Nat \ {0} /\ MaxStores \in Nat
  /\ McConfs \subseteq [1..McWords -> Data]
  /\ AppConfs \subseteq [1..AppWords -> Data]
  /\ ConfAddr \subseteq Addr

(* The table conf_general_init builds: both loops run to the size of the   *)
(* app configuration.                                                      *)
InitVirtAddVarTab ==
  [i \in 1..(2 * AppWords) |->
     IF i <= AppWords THEN WordAddr("mc", i) ELSE WordAddr("app", i - AppWords)]

NoStore == [kind |-> "mc", conf |-> <<>>, i |-> 0]

-----------------------------------------------------------------------------
(* conf_general_read_*_configuration: every word found, or the defaults.   *)
WordsOnFlash(k) == [i \in 1..Words(k) |-> EE_ReadVariable(WordAddr(k, i))]
Default == <<>>
conf_general_read(k) ==
  IF \E i \in 1..Words(k) : EE_ReadVariable(WordAddr(k, i)) = NotFound
  THEN Default
  ELSE WordsOnFlash(k)

(* conf_general_store_*_configuration is called.  What it does to the      *)
(* motor first is StoreConfiguration in module McInterface.                *)
StoreCall(k, c) ==
  /\ pc = "idle" /\ store = NoStore
  /\ stores < MaxStores
  /\ stores' = stores + 1
  /\ store' = [kind |-> k, conf |-> c, i |-> 1]
  /\ base' = [base EXCEPT ![k] = WordsOnFlash(k)]
  /\ image' = [image EXCEPT ![k] = c]
  /\ stored' = [stored EXCEPT ![k] = FALSE]
  /\ UNCHANGED vars

MutantStoreDone == store.i > Words(store.kind)

StoreDone ==
  \/ store.i > Words(store.kind)
  \/ store.i > 1 /\ status # "FLASH_COMPLETE"

MutantStoreWord ==
  /\ store # NoStore /\ ~StoreDone
  /\ LET i == Words(store.kind) + 1 - store.i
     IN EE_WriteVariable(WordAddr(store.kind, i), store.conf[i])
  /\ store' = [store EXCEPT !.i = @ + 1]
  /\ UNCHANGED <<stores, base, image, stored>>

(* One turn of its loop calls EE_WriteVariable ...                         *)
StoreWord ==
  /\ store # NoStore /\ ~StoreDone
  /\ EE_WriteVariable(WordAddr(store.kind, store.i), store.conf[store.i])
  /\ store' = [store EXCEPT !.i = @ + 1]
  /\ UNCHANGED <<stores, base, image, stored>>

(* ... and the loop ends after the last word or at the first failure.      *)
StoreReturns ==
  /\ store # NoStore /\ StoreDone
  /\ pc = "idle"
  /\ stored' = [stored EXCEPT ![store.kind] = (status = "FLASH_COMPLETE")]
  /\ store' = NoStore
  /\ UNCHANGED <<vars, stores, base, image>>

Flash == (Step \/ FlashError) /\ UNCHANGED cvars
Power ==
  /\ PowerLoss \/ PowerLossInErase
  /\ store' = NoStore
  /\ UNCHANGED <<stores, base, image, stored>>

-----------------------------------------------------------------------------
ConfInit ==
  /\ Init
  /\ store = NoStore /\ stores = 0
  /\ base = [k \in Kind |-> [i \in 1..Words(k) |-> NotFound]]
  /\ image = base
  /\ stored = [k \in Kind |-> FALSE]

ConfNext ==
  \/ \E k \in Kind : \E c \in Confs(k) : StoreCall(k, c)
  \/ StoreWord \/ StoreReturns
  \/ Flash \/ Power

ConfSpec == ConfInit /\ [][ConfNext]_allvars

-----------------------------------------------------------------------------
(* Properties.                                                             *)

Quiet == pc = "idle" /\ store = NoStore /\ ~degraded

(* The table names every half-word of configuration k.                     *)
Covered(k) ==
  \A i \in 1..Words(k) : \E j \in 1..NB_OF_VAR : VirtAddVarTab[j] = WordAddr(k, i)

ReadsBack(k) == Quiet /\ stored[k] => conf_general_read(k) = image[k]

(* A configuration whose store returned true is what every later read and  *)
(* every later boot gets, across page swaps and power losses, as long as   *)
(* the table covers it.                                                    *)
CoveredConfReadsBack == \A k \in Kind : Covered(k) => ReadsBack(k)

(* An interrupted store leaves the first words of the new image and the    *)
(* last words of what was there: words are never reordered or lost.        *)
TornStoreIsPrefix ==
  Quiet => \A k \in Kind : Covered(k) =>
    \E n \in 0..Words(k) : \A i \in 1..Words(k) :
      EE_ReadVariable(WordAddr(k, i)) = IF i <= n THEN image[k][i] ELSE base[k][i]

(* What the comment of conf_general_init says of the table: every stored   *)
(* configuration survives page swapping.                                   *)
StoredConfReadsBack == \A k \in Kind : ReadsBack(k)
=============================================================================

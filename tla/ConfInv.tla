------------------------------ MODULE ConfInv ------------------------------
(***************************************************************************)
(* The inductive invariant behind the properties of module ConfGeneral:    *)
(* how far the store in progress has come, in the words that EE_Init would *)
(* recover.                                                                *)
(***************************************************************************)
EXTENDS ConfGeneral, EepromInv

StoreType ==
  /\ store = NoStore \/ /\ store.kind \in Kind /\ store.conf \in Confs(store.kind)
                        /\ store.i \in 1..(Words(store.kind) + 1)
                        /\ store = [kind |-> store.kind, conf |-> store.conf, i |-> store.i]
  /\ DOMAIN base = Kind /\ DOMAIN image = Kind /\ stored \in [Kind -> BOOLEAN]

(* A store in progress: its words are being written one after the other.   *)
Writing ==
  /\ op \in {"write", "transfer"} => store # NoStore
  /\ store # NoStore =>
       /\ pc # "off" /\ op # "init"
       /\ ~stored[store.kind] /\ image[store.kind] = store.conf
       /\ op \in {"write", "transfer"} =>
            /\ store.i > 1
            /\ req = [addr |-> WordAddr(store.kind, store.i - 1), data |-> store.conf[store.i - 1]]

(* The words that would be recovered: the first n are those of the last    *)
(* image.                                                                  *)
Flashed(k) == [i \in 1..Words(k) |-> Recovered(WordAddr(k, i))]
Spliced(f, new, old, n) == \A i \in DOMAIN f : f[i] = IF i <= n THEN new[i] ELSE old[i]
Torn(k, n) == Spliced(Flashed(k), image[k], base[k], n)

(* The word being written is the last one, until its write has taken       *)
(* effect, and also if that failed.                                        *)
Unwritten ==
  store.i > 1 /\ (pc \in {"put", "mark"} \/ (pc = "idle" /\ status # "FLASH_COMPLETE"))

WordsInv ==
  ~degraded =>
    \A k \in Kind : Covered(k) =>
      /\ \E n \in 0..Words(k) : Torn(k, n)
      /\ stored[k] => image[k] \in Confs(k) /\ Torn(k, Words(k))
      /\ store # NoStore /\ store.kind = k =>
           Torn(k, store.i - 1) \/ (Unwritten /\ Torn(k, store.i - 2))

StoreInv == StoreType /\ Writing /\ WordsInv
=============================================================================

----------------------------- MODULE EepromInv -----------------------------
(***************************************************************************)
(* The inductive invariant behind the properties of module Eeprom: which   *)
(* page states and which pending flash operations go with each point of    *)
(* the code.                                                               *)
(***************************************************************************)
EXTENDS Eeprom

(* The page that is read and the page that is written are the two pages.   *)
Receiving == ReadPage # NoPage /\ WritePage = Other(ReadPage)

Phase ==
  /\ pc \in {"off", "idle"} => op = "none"
  /\ pc = "put" => op \in {"write", "transfer"}
  /\ pc = "put" /\ op = "transfer" => Receiving
  /\ pc = "mark" => op = "transfer" /\ ReadPage # NoPage
  /\ pc = "copy" => op \in {"transfer", "init"} /\ Receiving
  /\ pc = "tail" => op \in {"transfer", "init"} /\ tail # <<>>
  /\ half => pc \in {"put", "copy"}

(* A Blank value leaves its slot free while only its data is programmed:   *)
(* the room found for it must still be there for the address.              *)
HalfRoom ==
  half =>
    /\ pc = "put" /\ req.data = Blank => Len(log[WritePage]) < Slots
    /\ pc = "copy" =>
         /\ idx <= NB_OF_VAR
         /\ EE_ReadVariable(CopyVar) # NotFound
         /\ EE_ReadVariable(CopyVar) = Blank => Len(log[WritePage]) < Slots

TypeInv == TypeOK /\ Phase /\ HalfRoom

-----------------------------------------------------------------------------
(* The pages while nothing has struck where there is no recovery.          *)

Clean(p) == hdr[p] = "VALID_PAGE" /\ Empty(Other(p))
Filling(p) == hdr[p] = "RECEIVE_DATA" /\ hdr[Other(p)] = "VALID_PAGE"
AllEmpty == Empty(0) /\ Empty(1)

TailState(p, q) ==
  \/ /\ tail = <<Erase(q), Valid(p)>>
     /\ hdr[p] = "RECEIVE_DATA" /\ hdr[q] # "RECEIVE_DATA"
  \/ tail = <<Valid(p)>> /\ hdr[p] = "RECEIVE_DATA" /\ Empty(q)
  \/ tail = <<Valid(p), Erase(q)>> /\ Filling(p)
  \/ tail = <<Erase(q)>> /\ hdr[p] = "VALID_PAGE" /\ hdr[q] # "RECEIVE_DATA"

FormatState == AllEmpty /\ tail \in {EE_Format, <<Valid(0), Erase(1)>>}

OffState(p, q) ==
  \/ hdr[p] = "VALID_PAGE" /\ hdr[q] # "VALID_PAGE"
  \/ hdr[p] = "RECEIVE_DATA" /\ hdr[q] = "ERASED"

PagesInv ==
  ~degraded =>
    /\ pc = "idle" \/ pc = "mark" \/ (pc = "put" /\ op = "write") =>
         \E p \in Page : Clean(p)
    /\ pc = "put" /\ op = "transfer" =>
         \E p \in Page : Filling(p) /\ (~half => log[p] = <<>>)
    /\ pc = "copy" => \E p \in Page : Filling(p)
    /\ pc = "tail" => FormatState \/ \E p \in Page : TailState(p, Other(p))
    /\ pc = "off" => AllEmpty \/ \E p \in Page : OffState(p, Other(p))

-----------------------------------------------------------------------------
(* The values in the pages.                                                *)

(* A value that is half programmed is a slot without address at the end of *)
(* the page, or no slot yet, if it is Blank; and what was not to be copied *)
(* is not half copied.                                                     *)
HalfSlot(d) ==
  d # Blank => /\ log[WritePage] # <<>>
               /\ log[WritePage][Len(log[WritePage])].addr = NoAddr

HalfInv ==
  half => /\ pc = "put" => HalfSlot(req.data)
          /\ pc = "copy" => HalfSlot(EE_ReadVariable(CopyVar)) /\ ~Skipped(CopyVar)

RequestInv ==
  /\ op \in {"write", "transfer"} => req.addr \in Addr
  /\ pc \in {"off", "idle", "put", "mark"} => idx = 1

(* The page p being filled has the value of v, as its first slot or copied *)
(* from the other page, or none yet.                                       *)
FirstHolds(p, v) == log[p] # <<>> /\ log[p][1].addr = v
Kept(p, v) == FirstHolds(p, v) \/ Latest(log[p], v) = Latest(log[Other(p)], v)
Missing(p, v) == Latest(log[p], v) = NotFound
Requested(p) == Latest(log[p], req.addr) = req.data

(* The addresses that a page transfer moves, and those that the loop has   *)
(* been through.                                                           *)
Moved == {VirtAddVarTab[i] : i \in 1..NB_OF_VAR}
Passed == {VirtAddVarTab[i] : i \in 1..(idx - 1)}

CopyInv ==
  \A p \in Page : Filling(p) =>
    /\ \A v \in Addr : Kept(p, v) \/ (Missing(p, v) /\ v \notin Passed)
    /\ op = "transfer" => FirstHolds(p, req.addr) /\ Requested(p)

TailInv ==
  /\ \A p \in Page : Filling(p) =>
       \A v \in Addr : Kept(p, v) \/ (Missing(p, v) /\ v \notin Moved)
  /\ op = "transfer" =>
       \E p \in Page : /\ tail \in {<<Erase(Other(p)), Valid(p)>>, <<Valid(p)>>}
                       /\ hdr[p] = "RECEIVE_DATA" /\ Requested(p)

ValuesInv ==
  ~degraded =>
    /\ pc = "put" /\ op = "transfer" =>
         \A p \in Page : Filling(p) => Len(log[p]) = IF half /\ req.data # Blank THEN 1 ELSE 0
    /\ pc = "copy" => CopyInv
    /\ pc = "tail" => TailInv
    /\ pc = "off" =>
         \A p \in Page : Filling(p) => \A v \in Addr : Kept(p, v) \/ Missing(p, v)

(* Every address is in the table, so that a transfer moves it.             *)
TableCovers == Addr \subseteq Moved

-----------------------------------------------------------------------------
(* The slots that are in use while the flash reports no error, also after  *)
(* a power loss with both pages valid.  The request takes one, and every   *)
(* time the loop is gone through at most one for each address.             *)

Crowded == (losses + 1) * NB_OF_VAR >= Slots
Leftovers == 1 + losses * NB_OF_VAR

TailRoom(p, q) ==
  \/ /\ tail = <<Erase(q), Valid(p)>>
     /\ hdr[p] = "RECEIVE_DATA" /\ hdr[q] # "RECEIVE_DATA"
     /\ hdr[q] = "VALID_PAGE" => Len(log[p]) <= Leftovers + NB_OF_VAR
  \/ tail = <<Valid(p)>> /\ hdr[p] = "RECEIVE_DATA" /\ Empty(q)
  \/ tail = <<Valid(p), Erase(q)>> /\ Filling(p) /\ Len(log[p]) <= Leftovers + NB_OF_VAR
  \/ tail = <<Erase(q)>> /\ hdr[p] = "VALID_PAGE" /\ hdr[q] # "RECEIVE_DATA"

FormatRoom ==
  \/ tail = EE_Format /\ (AllEmpty \/ BothValid)
  \/ tail = <<Valid(0), Erase(1)>> /\ Empty(0) /\ (Empty(1) \/ hdr[1] = "VALID_PAGE")

OffRoom(p, q) ==
  \/ hdr[p] = "VALID_PAGE" /\ hdr[q] = "ERASED"
  \/ Filling(p) /\ Len(log[p]) <= Leftovers
  \/ hdr[p] = "RECEIVE_DATA" /\ hdr[q] = "ERASED"

PagesRoom ==
  /\ pc \in {"idle", "mark"} \/ (pc = "put" /\ op = "write") => \E p \in Page : Clean(p)
  /\ pc = "put" /\ op = "transfer" =>
       \E p \in Page : Filling(p) /\ Len(log[p]) = IF half /\ req.data # Blank THEN 1 ELSE 0
  /\ pc = "copy" =>
       \E p \in Page : /\ Filling(p)
                       /\ Len(log[p]) <= Leftovers + (idx - 1) +
                            IF half /\ EE_ReadVariable(CopyVar) # Blank THEN 1 ELSE 0
  /\ pc = "tail" => FormatRoom \/ \E p \in Page : TailRoom(p, Other(p))
  /\ pc = "off" => AllEmpty \/ BothValid \/ \E p \in Page : OffRoom(p, Other(p))

RoomInv == errors = 0 => Crowded \/ (status # "PAGE_FULL" /\ PagesRoom)
=============================================================================

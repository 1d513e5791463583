------------------------------- MODULE SdCard -------------------------------
(***************************************************************************)
(* The SD card as the storage code sees it through HalStorage: a function  *)
(* from paths to contents.  Every HalStorage call holds the storage mutex  *)
(* for its whole duration, so one call is one step and power can be lost   *)
(* only between two calls (or while a file is being written, which the     *)
(* modules that write model as two steps).                                 *)
(*                                                                         *)
(* The card obeys the FAT rules the callers rely on: a rename needs its    *)
(* source and an absent destination.  A call that reports failure may have *)
(* taken effect all the same, because SdFat can fail while it flushes the  *)
(* directory sector it has already changed.                                *)
(***************************************************************************)
CONSTANT Missing   \* the content of a path that names no file

Exists(card, p) == card[p] # Missing

Removed(card, p) == [card EXCEPT ![p] = Missing]

CanRename(card, from, to) == Exists(card, from) /\ ~Exists(card, to)

Renamed(card, from, to) == [card EXCEPT ![to] = card[from], ![from] = Missing]

(* The cards a remove or a rename that returned false can leave behind.    *)
AfterFailedRemove(card, p) == {card, Removed(card, p)}

AfterFailedRename(card, from, to) ==
  {card} \cup (IF CanRename(card, from, to) THEN {Renamed(card, from, to)} ELSE {})

=============================================================================

---------------------------- MODULE NameListWalk ----------------------------
(***************************************************************************)
(* The walk of a name-list reply by the test utilities of                 *)
(* src/test/kdbus-util.h: KDBUS_NAME_FOREACH visits the struct            *)
(* kdbus_cmd_name entries of a struct kdbus_name_list, stepping with      *)
(* KDBUS_NAME_NEXT.  The reply itself is written by names.c, which is not *)
(* under src/: it is a list of entries, each as long as KDBUS_NAME_SIZE   *)
(* of its name, after the list's own header, and it grows one name at a   *)
(* time as connections acquire names.                                     *)
(*                                                                         *)
(* Offsets are relative to the start of the list (the pointer "names").   *)
(* kdbus.h is not part of the repository: the two header sizes are        *)
(* constants.                                                             *)
(***************************************************************************)
EXTENDS Naturals, Sequences, SequencesExt

CONSTANTS
  ListHeader,   (* offsetof(struct kdbus_name_list, names)                  *)
  NameHeader,   (* sizeof(struct kdbus_cmd_name), up to its name[]          *)
  NameLens,     (* strlen of the names the bus may list                     *)
  MaxNames      (* most entries in one reply                                *)

VARIABLE entries  (* strlen of each listed name, in reply order            *)

vars == <<entries>>

(* KDBUS_ALIGN8 *)
Align8(l) == ((l + 7) \div 8) * 8

(* KDBUS_NAME_SIZE(s): the size of an entry for a name of length l.        *)
NameSize(l) == Align8(NameHeader + l + 1)

(* Offset of entry i: the list header, then the entries before it.         *)
EntryOff(i) == ListHeader + FoldLeft(LAMBDA acc, l : acc + NameSize(l), 0,
                                     SubSeq(entries, 1, i - 1))

Offsets == [i \in 1..Len(entries) |-> EntryOff(i)]

(* KDBUS_NAME_NEXT(n): the entry after the one at off.                     *)
NameNext(off, i) == off + Align8(NameSize(entries[i]))

(* KDBUS_NAME_FOREACH(name, names): the offsets the loop body runs for.   *)
(* The loop test reads name->size of the entry at off; the read past the  *)
(* last entry is of memory outside the list, whose content the model does *)
(* not know, so the walk is followed only while it stays on entries.      *)
RECURSIVE NameForeachFrom(_)
NameForeachFrom(off) ==
  IF \E i \in 1..Len(entries) : Offsets[i] = off
    THEN LET i == CHOOSE i \in 1..Len(entries) : Offsets[i] = off
         IN  IF off < NameSize(entries[i])
               THEN <<off>> \o NameForeachFrom(NameNext(off, i))
               ELSE <<>>
    ELSE <<>>

NameForeach == NameForeachFrom(ListHeader)

TypeOK == entries \in Seq(NameLens) /\ Len(entries) <= MaxNames

Init == entries = <<>>

(* names.c adds the next listed name to the reply.                         *)
ListAppend(l) ==
  /\ Len(entries) < MaxNames
  /\ entries' = Append(entries, l)

Next == \E l \in NameLens : ListAppend(l)

Spec == Init /\ [][Next]_vars

=============================================================================

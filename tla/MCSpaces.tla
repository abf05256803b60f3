------------------------------ MODULE MCSpaces ------------------------------
(***************************************************************************)
(* Address spaces for TLC: page tables, and the table of device ranges     *)
(* that main() maps with them.  They share no state: `subject` says which  *)
(* one a behaviour is of, and the other stands still.                      *)
(***************************************************************************)
EXTENDS PageTable, TLC

CONSTANTS
  f1, f2, f3, f4, f5,
  MAX_MMIO_ENTRIES, PAGE_SIZE, Bases, Sizes, Ids   \* of Mmio

VARIABLES subject, map, mapped, synced

mmio == <<map, mapped, synced>>

FivePages == {f1, f2, f3, f4, f5}
SymFive   == Permutations(FivePages)

DevicePages == {8}
\* Two neighbours in one table, and a page of another one.
VirtPages3 == {0, 1, 6}

\* A page full of entries that look valid.
JunkPages == {[i \in Index |-> [kind |-> "leaf", ppn |-> 4]]}

Ranges == INSTANCE Mmio

ASSUME RangesConstants == Ranges!BasesAssumption /\ Ranges!EntryAssumption

MCInit == subject \in {"tables", "mmio"} /\ Init /\ Ranges!Init

MCNext ==
  \/ subject = "tables" /\ Next /\ UNCHANGED <<mmio, subject>>
  \/ subject = "mmio" /\ Ranges!Next /\ UNCHANGED <<vars, subject>>

MCSpec == MCInit /\ [][MCNext]_<<vars, mmio, subject>>

-----------------------------------------------------------------------------
\* See Mmio: every byte of every range is mapped, and accesses stay in the ranges.
RangesAreSound == subject = "mmio" => Ranges!RangesAreSound

\* See Mmio: the array is a set of ranges.
ImplementsAbstractRanges == Ranges!Table!Init /\ [][Ranges!Table!Step]_mmio
=============================================================================

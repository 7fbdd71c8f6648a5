---------------------------- MODULE DmaRegistry ----------------------------
(***************************************************************************)
(* The two module-wide registries that outlive struct ob_hw, as operators: *)
(*                                                                         *)
(*   src/ob_dma_owner.c  one durable owner per DMA allocation, LIVE until  *)
(*                       released after a verified stop, or RETAINED for   *)
(*                       good;                                             *)
(*   src/ob_dma_fatal.c  the devices whose DMA was never verified stopped. *)
(*                                                                         *)
(* A device is known by <<slot, board>>: its PCI address and the identity  *)
(* of the silicon plugged there.  Both registries refuse a device for what *)
(* another board did in the same slot.                                     *)
(***************************************************************************)
EXTENDS Naturals, FiniteSets

CONSTANTS
  Slots,     \* PCI addresses
  Boards,    \* chip and D11 identities
  OwnerCap,  \* OB_DMA_OWNER_REGISTRY_CAP = 8
  FatalCap   \* OB_DMA_FATAL_CAP = 8

ASSUME RegistryAssumption ==
  /\ OwnerCap \in Nat \ {0}
  /\ FatalCap \in Nat \ {0}

Devices == Slots \X Boards
SameSlot(d, e) == d[1] = e[1]

-----------------------------------------------------------------------------
(***************************************************************************)
(* The owner registry: entry i holds nothing or the owner of one device.   *)
(***************************************************************************)
Entries == 1 .. OwnerCap
NoEntry == 0
EmptyEntry == [state |-> "FREE", id |-> <<>>]

OwnerRegistry ==
  [entry : [Entries -> {EmptyEntry} \cup [state : {"LIVE", "RETAINED"}, id : Devices]],
   poisoned : BOOLEAN,
   pinned : BOOLEAN]

NoOwners ==
  [entry |-> [i \in Entries |-> EmptyEntry], poisoned |-> FALSE, pinned |-> FALSE]

\* A retained owner of this device, or of another board in its slot.
RetainedFor(o, d) ==
  \E i \in Entries : o.entry[i].state = "RETAINED" /\ SameSlot(o.entry[i].id, d)

FreeEntries(o) == {i \in Entries : o.entry[i] = EmptyEntry}
FirstFree(o) == CHOOSE i \in FreeEntries(o) : \A j \in FreeEntries(o) : i <= j

\* ob_dma_owner_probe_refused
OwnerRefused(o, d) == o.poisoned \/ FreeEntries(o) = {} \/ RetainedFor(o, d)

\* ob_dma_owner_create: what it returns and what it leaves behind.
CreateResult(o, d) ==
  IF o.poisoned \/ RetainedFor(o, d) THEN "EBUSY"
  ELSE IF FreeEntries(o) = {} THEN "ENOSPC" ELSE "OK"

\* Mutant: a full registry gives up an old entry.
CreateEvicting(o, d) ==
  IF CreateResult(o, d) = "EBUSY" THEN o
  ELSE [o EXCEPT !.entry[IF FreeEntries(o) = {} THEN 1 ELSE FirstFree(o)] =
                   [state |-> "LIVE", id |-> d]]

Create(o, d) ==
  CASE CreateResult(o, d) = "OK" ->
         [o EXCEPT !.entry[FirstFree(o)] = [state |-> "LIVE", id |-> d]]
    [] CreateResult(o, d) = "ENOSPC" -> [o EXCEPT !.poisoned = TRUE]
    [] OTHER -> o

\* ob_dma_owner_release, with quiescence verified and the census cleared.
MayRelease(o, i, d) == o.entry[i].state = "LIVE" /\ o.entry[i].id = d

ReleaseOwner(o, i, d) ==
  IF MayRelease(o, i, d) THEN [o EXCEPT !.entry[i] = EmptyEntry] ELSE o

\* ob_dma_owner_retain: idempotent; takes the module reference at most once
\* and only when the caller found none taken by the fatal registry.
RetainOwner(o, i, pinPermitted) ==
  IF o.entry[i].state = "LIVE"
  THEN [o EXCEPT !.entry[i].state = "RETAINED", !.pinned = @ \/ pinPermitted]
  ELSE o

-----------------------------------------------------------------------------
(***************************************************************************)
(* The fatal registry.                                                     *)
(***************************************************************************)
FatalRegistry == [used : SUBSET Devices, pinned : BOOLEAN]
NoFatal == [used |-> {}, pinned |-> FALSE]

Recorded(f, d) == \E e \in f.used : SameSlot(e, d)
Saturated(f) == Cardinality(f.used) >= FatalCap

\* Mutant: the module is not pinned.
LatchUnpinned(f, d) ==
  [f EXCEPT !.used = IF Recorded(f, d) \/ Saturated(f) THEN @ ELSE @ \cup {d}]

\* ob_dma_fatal_latch: the module is pinned even if the record does not fit.
Latch(f, d) ==
  [used |-> IF Recorded(f, d) \/ Saturated(f) THEN f.used ELSE f.used \cup {d},
   pinned |-> TRUE]

\* ob_dma_fatal_refused
FatalRefused(f, d) == Saturated(f) \/ Recorded(f, d)
=============================================================================

-------------------------- MODULE DmaLifetimeProofs --------------------------
(***************************************************************************)
(* Proofs about DmaLifetime for any number of slots, boards and engines    *)
(* and any registry capacities, provided the module loader does not begin  *)
(* to unload while a probe runs.                                           *)
(*                                                                         *)
(* The inductive invariant says, besides the types and the properties      *)
(* themselves, that a slot holds one board (Exclusive), who accounts for   *)
(* memory (Handles, Accounting), what a failure leaves behind (Pinning,    *)
(* Refusing) and where the TX engines may be running (Engines).            *)
(***************************************************************************)
EXTENDS DmaLifetime, TLAPS, WellFoundedInduction

\* Stages before an owner exists, and those in which there is no memory.
Unowned == {"absent", "guarded", "admitted", "prefix", "owner"}
NoMemoryYet == {"guarded", "admitted", "prefix", "owner", "alloc", "finish"}

\* A slot holds one board at a time.
Exclusive ==
  \A d, e \in Devices : SameSlot(d, e) /\ d # e => At(d, "absent") \/ At(e, "absent")

\* hw->dma_owner is set from the creation of the owner to its release, and
\* names the owner of this device.
Handles ==
  \A d \in Devices :
    /\ hw[d].stage \in Unowned => hw[d].handle = NoEntry
    /\ hw[d].stage \in {"alloc", "program", "live"} => hw[d].handle # NoEntry
    /\ At(d, "retain") /\ ~hw[d].fatal => hw[d].handle # NoEntry
    /\ hw[d].handle # NoEntry =>
         /\ owners.entry[hw[d].handle].id = d
         /\ owners.entry[hw[d].handle].state \in {"LIVE", "RETAINED"}

\* Memory is reachable through the handle while struct ob_hw exists, and
\* through a retained entry afterwards.
Accounting ==
  \A d \in Devices :
    /\ d \in memory /\ hw[d].handle = NoEntry =>
         At(d, "absent") /\ OwnedBy(d, {"RETAINED"})
    /\ hw[d].stage \in NoMemoryYet => d \notin memory
    /\ At(d, "bound") /\ d \in memory => hw[d].fatal

\* A failure pins the module, a stalled witness once its owner is retained.
Pinning ==
  /\ \A d \in Devices :
       /\ hw[d].lost /\ ~hw[d].fatal => At(d, "retain")
       /\ At(d, "retain") => hw[d].lost \/ hw[d].fatal
       /\ hw[d].fatal => fatal.pinned
  /\ \A i \in Entries : owners.entry[i].state = "RETAINED" => Pinned
  /\ \A d \in doomed : Pinned \/ At(d, "retain")
  /\ unloading => /\ ~Pinned
                  /\ \A d \in Devices : hw[d].stage \in {"absent", "bound"}

\* One of the registries refuses every device of a doomed slot, as soon as the
\* doomed device has nothing left to retain; and the one that was consulted
\* first still has no reason to.
Refusing ==
  /\ \A d \in doomed, e \in Devices :
       SameSlot(d, e) => \/ FatalRefused(fatal, e)
                        \/ RetainedFor(owners, e)
                        \/ (At(d, "retain") /\ ~hw[d].fatal)
  /\ \A e \in Devices : hw[e].fatal => e \in doomed
  /\ \A e \in Devices : At(e, "guarded") => ~RetainedFor(owners, e)

\* TX engines run only over memory, and only those counted as programmed.
Engines ==
  \A d \in Devices :
    /\ hw[d].stage \in Unowned \cup {"alloc"} => hw[d].programmed = {}
    /\ hw[d].stage \in {"program", "live"} => d \in memory
    /\ At(d, "teardown") /\ hw[d].programmed # {} => d \in memory
    /\ hw[d].stage \in {"program", "live", "teardown"} =>
         engine[d] \cap TxChannels \subseteq hw[d].programmed
    /\ At(d, "free") => engine[d] \cap TxChannels = {}

IInv ==
  /\ TypeOK
  /\ Exclusive
  /\ Handles
  /\ Accounting
  /\ Pinning
  /\ Refusing
  /\ NeverDrivenAgain
  /\ Engines
  /\ NoTxAfterFree

-----------------------------------------------------------------------------
\* The TX engines are numbered before the RX engine.
LEMMA ChannelSets == TxChannels \subseteq Channels /\ Rx \in Channels /\ Rx \notin TxChannels
BY LifetimeAssumption DEF TxChannels, Channels, Rx

\* What the actions make of the state of one device is again such a state.
LEMMA HwFields ==
  ASSUME NEW h \in Hw, NEW s \in Stages
  PROVE  /\ \A b \in BOOLEAN : [h EXCEPT !.stage = s, !.failed = b] \in Hw
         /\ [h EXCEPT !.stage = s, !.freeAllowed = TRUE] \in Hw
         /\ \A n \in Entries \cup {NoEntry} :
              /\ [h EXCEPT !.stage = s, !.handle = n] \in Hw
              /\ [h EXCEPT !.stage = s, !.failed = TRUE, !.handle = n] \in Hw
         /\ \A c \in Channels :
              /\ [h EXCEPT !.programmed = @ \cup {c}] \in Hw
              /\ [h EXCEPT !.stage = s, !.programmed = @ \cup {c}] \in Hw
BY DEF Hw

\* The same for what a lost device and a failed stop leave.
LEMMA LostFields ==
  ASSUME NEW h \in Hw, NEW s \in Stages
  PROVE  /\ [h EXCEPT !.stage = s, !.failed = TRUE, !.lost = TRUE,
                      !.freeAllowed = FALSE, !.fatal = TRUE] \in Hw
         /\ [h EXCEPT !.stage = s, !.failed = TRUE,
                      !.freeAllowed = FALSE, !.fatal = TRUE] \in Hw
         /\ [h EXCEPT !.stage = s, !.failed = TRUE, !.lost = TRUE] \in Hw
BY DEF Hw

\* Natural numbers in order, which is well founded.
Before == {ss \in Nat \X Nat : ss[1] < ss[2]}

\* Every set of entry numbers has a least one.
LEMMA BeforeIsWellFounded == IsWellFoundedOn(Before, Nat)
BY NatLessThanWellFounded, Zenon DEF OpToRel, Before

\* The entry a new owner takes is a free one.
LEMMA FirstFreeIsFree ==
  ASSUME NEW o, FreeEntries(o) # {}
  PROVE  FirstFree(o) \in FreeEntries(o)
<1>1. FreeEntries(o) \subseteq Nat
  BY RegistryAssumption DEF FreeEntries, Entries
<1>2. PICK i \in FreeEntries(o) :
        \A j \in FreeEntries(o) : ~(<<j, i>> \in Before)
  BY <1>1, BeforeIsWellFounded, WFMin
<1>3. ASSUME NEW j \in FreeEntries(o)
      PROVE  i <= j
  <2>1. i \in Nat /\ j \in Nat /\ (j < i => <<j, i>> \in Before)
    BY <1>1 DEF Before
  <2> QED
    BY <1>2, <2>1
<1> QED
  BY <1>2, <1>3 DEF FirstFree

\* Every operation on the owner registry changes at most one entry: a free
\* one becomes live, a live one free or retained.
LEMMA CreateEffect ==
  ASSUME NEW o \in OwnerRegistry, NEW d \in Devices
  PROVE  /\ Create(o, d) \in OwnerRegistry
         /\ Create(o, d).pinned = o.pinned
         /\ \A i \in Entries :
              o.entry[i] # EmptyEntry => Create(o, d).entry[i] = o.entry[i]
         /\ \A i \in Entries :
              \/ Create(o, d).entry[i] = o.entry[i]
              \/ Create(o, d).entry[i] = [state |-> "LIVE", id |-> d]
         /\ CreateResult(o, d) = "OK" =>
              /\ FirstFree(o) \in Entries
              /\ Create(o, d).entry[FirstFree(o)] = [state |-> "LIVE", id |-> d]
         /\ CreateResult(o, d) # "OK" => Create(o, d).entry = o.entry
<1>1. CreateResult(o, d) \in {"OK", "EBUSY", "ENOSPC"}
  BY DEF CreateResult
<1>2. CASE CreateResult(o, d) = "OK"
  <2>1. FirstFree(o) \in Entries /\ o.entry[FirstFree(o)] = EmptyEntry
    BY <1>2, FirstFreeIsFree DEF CreateResult, FreeEntries
  <2>2. Create(o, d) = [o EXCEPT !.entry[FirstFree(o)] = [state |-> "LIVE", id |-> d]]
    BY <1>2 DEF Create
  <2> QED
    BY <1>2, <2>1, <2>2 DEF OwnerRegistry
<1>3. CASE CreateResult(o, d) = "ENOSPC"
  BY <1>3 DEF Create, OwnerRegistry
<1>4. CASE CreateResult(o, d) = "EBUSY"
  BY <1>4 DEF Create, OwnerRegistry
<1> QED
  BY <1>1, <1>2, <1>3, <1>4

\* Releasing frees one live entry of the device named, or nothing.
LEMMA ReleaseEffect ==
  ASSUME NEW o \in OwnerRegistry, NEW d \in Devices, NEW i \in Entries
  PROVE  /\ ReleaseOwner(o, i, d) \in OwnerRegistry
         /\ ReleaseOwner(o, i, d).pinned = o.pinned
         /\ \A j \in Entries :
              \/ ReleaseOwner(o, i, d).entry[j] = o.entry[j]
              \/ /\ ReleaseOwner(o, i, d).entry[j] = EmptyEntry
                 /\ o.entry[j].state = "LIVE"
                 /\ o.entry[j].id = d
BY DEF ReleaseOwner, MayRelease, OwnerRegistry

\* Retaining turns one live entry into a retained one, or changes nothing.
LEMMA RetainEffect ==
  ASSUME NEW o \in OwnerRegistry, NEW i \in Entries, NEW p \in BOOLEAN
  PROVE  /\ RetainOwner(o, i, p) \in OwnerRegistry
         /\ o.pinned => RetainOwner(o, i, p).pinned
         /\ \A j \in Entries :
              /\ RetainOwner(o, i, p).entry[j].id = o.entry[j].id
              /\ o.entry[j].state # "LIVE" =>
                   RetainOwner(o, i, p).entry[j] = o.entry[j]
              /\ j # i => RetainOwner(o, i, p).entry[j] = o.entry[j]
         /\ o.entry[i].state = "LIVE" =>
              /\ RetainOwner(o, i, p).entry[i].state = "RETAINED"
              /\ p => RetainOwner(o, i, p).pinned
<1>1. CASE o.entry[i].state = "LIVE"
  <2>1. RetainOwner(o, i, p) =
          [o EXCEPT !.entry[i].state = "RETAINED", !.pinned = @ \/ p]
    BY <1>1 DEF RetainOwner
  <2>2. o.entry[i] \in [state : {"LIVE", "RETAINED"}, id : Devices]
    BY <1>1 DEF OwnerRegistry, EmptyEntry
  <2>3. RetainOwner(o, i, p).entry = [o.entry EXCEPT ![i].state = "RETAINED"]
    BY <2>1 DEF OwnerRegistry
  <2>4. RetainOwner(o, i, p).pinned = (o.pinned \/ p)
    BY <2>1 DEF OwnerRegistry
  <2>5. RetainOwner(o, i, p) \in OwnerRegistry
    <3>1. [o.entry EXCEPT ![i].state = "RETAINED"] \in
            [Entries -> {EmptyEntry} \cup [state : {"LIVE", "RETAINED"}, id : Devices]]
      BY <2>2 DEF OwnerRegistry
    <3>2. (o.pinned \/ p) \in BOOLEAN
      OBVIOUS
    <3> DEFINE e == [o.entry EXCEPT ![i].state = "RETAINED"]
               b == (o.pinned \/ p)
    <3>3. RetainOwner(o, i, p) = [o EXCEPT !.entry = e, !.pinned = b]
      BY <2>1
    <3> HIDE DEF e, b
    <3> QED
      BY <3>1, <3>2, <3>3 DEF OwnerRegistry, e, b
  <2> QED
    BY <1>1, <2>2, <2>3, <2>4, <2>5 DEF OwnerRegistry
<1>2. CASE o.entry[i].state # "LIVE"
  BY <1>2 DEF RetainOwner
<1> QED
  BY <1>1, <1>2

\* A latch makes the registry refuse the device, and refuses no less.
LEMMA LatchEffect ==
  ASSUME NEW f \in FatalRegistry, NEW d \in Devices
  PROVE  /\ Latch(f, d) \in FatalRegistry
         /\ Latch(f, d).pinned
         /\ \A e \in Devices : SameSlot(d, e) => FatalRefused(Latch(f, d), e)
         /\ \A e \in Devices : FatalRefused(f, e) => FatalRefused(Latch(f, d), e)
<1>1. CASE Recorded(f, d) \/ Saturated(f)
  <2>1. Latch(f, d).used = f.used /\ Latch(f, d).pinned
    BY <1>1 DEF Latch
  <2> QED
    BY <1>1, <2>1 DEF Latch, FatalRegistry, FatalRefused, Recorded, Saturated, SameSlot
<1>2. CASE ~(Recorded(f, d) \/ Saturated(f))
  <2>1. Latch(f, d).used = f.used \cup {d} /\ Latch(f, d).pinned
    BY <1>2 DEF Latch
  <2> QED
    BY <1>2, <2>1 DEF Latch, FatalRegistry, FatalRefused, Recorded, SameSlot
<1> QED
  BY <1>1, <1>2

\* What a latch leaves of the refusals.
LEMMA LatchRefuses ==
  ASSUME NEW d \in Devices, IInv, fatal' = Latch(fatal, d), doomed' = doomed \cup {d},
         owners' = owners, \A e \in Devices : e # d => hw'[e] = hw[e], hw'[d].stage # "guarded"
  PROVE  Refusing'
<1>1. fatal \in FatalRegistry /\ doomed \subseteq Devices
  BY DEF IInv, TypeOK
<1>2. ASSUME NEW c \in doomed', NEW e \in Devices, SameSlot(c, e)
      PROVE  \/ FatalRefused(fatal', e)
             \/ RetainedFor(owners', e)
             \/ (hw'[c].stage = "retain" /\ ~hw'[c].fatal)
  <2>1. CASE c = d
    BY <1>1, <1>2, <2>1, LatchEffect
  <2>2. CASE c # d
    <3>1. c \in doomed /\ c \in Devices /\ hw'[c] = hw[c]
      BY <1>1, <2>2
    <3>2. \/ FatalRefused(fatal, e)
          \/ RetainedFor(owners, e)
          \/ (hw[c].stage = "retain" /\ ~hw[c].fatal)
      BY <1>2, <3>1 DEF IInv, Refusing, At
    <3> QED
      BY <1>1, <3>1, <3>2, LatchEffect
  <2> QED
    BY <2>1, <2>2
<1>3. \A e \in Devices : hw'[e].fatal => e \in doomed'
  BY DEF IInv, Refusing
<1>4. \A e \in Devices : hw'[e].stage = "guarded" => ~RetainedFor(owners', e)
  BY DEF IInv, Refusing, At
<1> QED
  BY <1>2, <1>3, <1>4 DEF Refusing, At

-----------------------------------------------------------------------------
\* Admission refuses a device that could still hold memory.
LEMMA GuardOwnerIInv ==
  ASSUME NEW d \in Devices, IInv, GuardOwner(d)
  PROVE  IInv'
<1> USE DEF GuardOwner, At, Goto, FailTo
<1>1. /\ hw \in [Devices -> Hw] /\ owners \in OwnerRegistry /\ fatal \in FatalRegistry
      /\ memory \subseteq Devices /\ engine \in [Devices -> SUBSET Channels]
      /\ unloading \in BOOLEAN /\ doomed \subseteq Devices
  BY DEF IInv, TypeOK
<1>2. /\ \A e \in Devices : e # d => hw'[e] = hw[e]
      /\ hw'[d].stage = "guarded"
      /\ hw'[d].handle = hw[d].handle
      /\ hw'[d].programmed = hw[d].programmed
      /\ hw'[d].failed = hw[d].failed
      /\ hw'[d].lost = hw[d].lost
      /\ hw'[d].freeAllowed = hw[d].freeAllowed
      /\ hw'[d].fatal = hw[d].fatal
  BY <1>1 DEF Hw
<1>3. hw' \in [Devices -> Hw]
  BY <1>1 DEF Hw, Stages, Channels, TxChannels, Rx
<1>4. TypeOK'
  BY <1>1, <1>3, ChannelSets DEF TypeOK
<1>5. Exclusive'
  BY <1>1, <1>2, <1>3 DEF IInv, Exclusive, SameSlot
<1>6. Handles'
  BY <1>1, <1>2, <1>3 DEF IInv, Handles, Unowned
<1>7. Accounting'
  BY <1>1, <1>2, <1>3 DEF IInv, Handles, Accounting, Unowned, NoMemoryYet, OwnedBy, OwnerRefused, RetainedFor, SameSlot
<1>8. Pinning'
  BY <1>1, <1>2, <1>3 DEF IInv, Pinning, Pinned
<1>9. Refusing' /\ NeverDrivenAgain'
  BY <1>1, <1>2, <1>3 DEF IInv, Exclusive, Refusing, NeverDrivenAgain, SameSlot, OwnerRefused
<1>10. Engines' /\ NoTxAfterFree'
  BY <1>1, <1>2, <1>3, ChannelSets DEF IInv, Engines, NoTxAfterFree, Accounting, Unowned, NoMemoryYet
<1> QED
  BY <1>4, <1>5, <1>6, <1>7, <1>8, <1>9, <1>10 DEF IInv

\* The second guard refuses every device of a doomed slot.
LEMMA GuardFatalIInv ==
  ASSUME NEW d \in Devices, IInv, GuardFatal(d)
  PROVE  IInv'
<1> USE DEF GuardFatal, At, Goto, FailTo
<1>1. /\ hw \in [Devices -> Hw] /\ owners \in OwnerRegistry /\ fatal \in FatalRegistry
      /\ memory \subseteq Devices /\ engine \in [Devices -> SUBSET Channels]
      /\ unloading \in BOOLEAN /\ doomed \subseteq Devices
  BY DEF IInv, TypeOK
<1>2. /\ \A e \in Devices : e # d => hw'[e] = hw[e]
      /\ hw'[d].stage = (IF FatalRefused(fatal, d) THEN "absent" ELSE "admitted")
      /\ hw'[d].handle = hw[d].handle
      /\ hw'[d].programmed = hw[d].programmed
      /\ hw'[d].failed = hw[d].failed
      /\ hw'[d].lost = hw[d].lost
      /\ hw'[d].freeAllowed = hw[d].freeAllowed
      /\ hw'[d].fatal = hw[d].fatal
  BY <1>1 DEF Hw
<1>3. hw' \in [Devices -> Hw]
  BY <1>1 DEF Hw, Stages, Channels, TxChannels, Rx
<1>4. TypeOK'
  BY <1>1, <1>3, ChannelSets DEF TypeOK
<1>5. Exclusive'
  BY <1>1, <1>2, <1>3 DEF IInv, Exclusive, SameSlot
<1>6. Handles'
  BY <1>1, <1>2, <1>3 DEF IInv, Handles, Unowned
<1>7. Accounting'
  BY <1>1, <1>2, <1>3 DEF IInv, Handles, Accounting, Unowned, NoMemoryYet, OwnedBy
<1>8. Pinning'
  BY <1>1, <1>2, <1>3 DEF IInv, Pinning, Pinned
<1>9. Refusing' /\ NeverDrivenAgain'
  BY <1>1, <1>2, <1>3 DEF IInv, Exclusive, Refusing, NeverDrivenAgain, SameSlot
<1>10. Engines' /\ NoTxAfterFree'
  BY <1>1, <1>2, <1>3, ChannelSets DEF IInv, Engines, NoTxAfterFree, Accounting, Unowned, NoMemoryYet
<1> QED
  BY <1>4, <1>5, <1>6, <1>7, <1>8, <1>9, <1>10 DEF IInv

\* Both registries are consulted again before the hardware is touched.
LEMMA PreflightIInv ==
  ASSUME NEW d \in Devices, IInv, Preflight(d)
  PROVE  IInv'
<1> USE DEF Preflight, At, Goto, FailTo
<1>1. /\ hw \in [Devices -> Hw] /\ owners \in OwnerRegistry /\ fatal \in FatalRegistry
      /\ memory \subseteq Devices /\ engine \in [Devices -> SUBSET Channels]
      /\ unloading \in BOOLEAN /\ doomed \subseteq Devices
  BY DEF IInv, TypeOK
<1>2. /\ \A e \in Devices : e # d => hw'[e] = hw[e]
      /\ hw'[d].stage = (IF FatalRefused(fatal, d) \/ OwnerRefused(owners, d) THEN "absent" ELSE "prefix")
      /\ hw'[d].handle = hw[d].handle
      /\ hw'[d].programmed = hw[d].programmed
      /\ hw'[d].failed = hw[d].failed
      /\ hw'[d].lost = hw[d].lost
      /\ hw'[d].freeAllowed = hw[d].freeAllowed
      /\ hw'[d].fatal = hw[d].fatal
  BY <1>1 DEF Hw
<1>3. hw' \in [Devices -> Hw]
  BY <1>1 DEF Hw, Stages, Channels, TxChannels, Rx
<1>4. TypeOK'
  BY <1>1, <1>3, ChannelSets DEF TypeOK
<1>5. Exclusive'
  BY <1>1, <1>2, <1>3 DEF IInv, Exclusive, SameSlot
<1>6. Handles'
  BY <1>1, <1>2, <1>3 DEF IInv, Handles, Unowned
<1>7. Accounting'
  BY <1>1, <1>2, <1>3 DEF IInv, Handles, Accounting, Unowned, NoMemoryYet, OwnedBy
<1>8. Pinning'
  BY <1>1, <1>2, <1>3 DEF IInv, Pinning, Pinned
<1>9. Refusing' /\ NeverDrivenAgain'
  BY <1>1, <1>2, <1>3 DEF IInv, Exclusive, Refusing, NeverDrivenAgain, SameSlot
<1>10. Engines' /\ NoTxAfterFree'
  BY <1>1, <1>2, <1>3, ChannelSets DEF IInv, Engines, NoTxAfterFree, Accounting, Unowned, NoMemoryYet
<1> QED
  BY <1>4, <1>5, <1>6, <1>7, <1>8, <1>9, <1>10 DEF IInv

\* The D11 reset stops the engines of a device that has no memory.
LEMMA PrefixIInv ==
  ASSUME NEW d \in Devices, IInv, Prefix(d)
  PROVE  IInv'
<1> USE DEF Prefix, At, Goto, FailTo
<1>1. /\ hw \in [Devices -> Hw] /\ owners \in OwnerRegistry /\ fatal \in FatalRegistry
      /\ memory \subseteq Devices /\ engine \in [Devices -> SUBSET Channels]
      /\ unloading \in BOOLEAN /\ doomed \subseteq Devices
  BY DEF IInv, TypeOK
<1>2. /\ \A e \in Devices : e # d => hw'[e] = hw[e]
      /\ hw'[d].stage = "owner"
      /\ hw'[d].handle = hw[d].handle
      /\ hw'[d].programmed = hw[d].programmed
      /\ hw'[d].failed = hw[d].failed
      /\ hw'[d].lost = hw[d].lost
      /\ hw'[d].freeAllowed = hw[d].freeAllowed
      /\ hw'[d].fatal = hw[d].fatal
  BY <1>1 DEF Hw
<1>3. hw' \in [Devices -> Hw]
  BY <1>1 DEF Hw, Stages, Channels, TxChannels, Rx
<1>4. TypeOK'
  BY <1>1, <1>3, ChannelSets DEF TypeOK
<1>5. Exclusive'
  BY <1>1, <1>2, <1>3 DEF IInv, Exclusive, SameSlot
<1>6. Handles'
  BY <1>1, <1>2, <1>3 DEF IInv, Handles, Unowned
<1>7. Accounting'
  BY <1>1, <1>2, <1>3 DEF IInv, Handles, Accounting, Unowned, NoMemoryYet, OwnedBy
<1>8. Pinning'
  BY <1>1, <1>2, <1>3 DEF IInv, Pinning, Pinned
<1>9. Refusing' /\ NeverDrivenAgain'
  BY <1>1, <1>2, <1>3 DEF IInv, Exclusive, Refusing, NeverDrivenAgain, SameSlot
<1>10. Engines' /\ NoTxAfterFree'
  BY <1>1, <1>2, <1>3, ChannelSets DEF IInv, Engines, NoTxAfterFree, Accounting, Unowned, NoMemoryYet
<1> QED
  BY <1>4, <1>5, <1>6, <1>7, <1>8, <1>9, <1>10 DEF IInv

\* Nothing was allocated when the prefix fails.
LEMMA PrefixFailsIInv ==
  ASSUME NEW d \in Devices, IInv, PrefixFails(d)
  PROVE  IInv'
<1> USE DEF PrefixFails, At, Goto, FailTo
<1>1. /\ hw \in [Devices -> Hw] /\ owners \in OwnerRegistry /\ fatal \in FatalRegistry
      /\ memory \subseteq Devices /\ engine \in [Devices -> SUBSET Channels]
      /\ unloading \in BOOLEAN /\ doomed \subseteq Devices
  BY DEF IInv, TypeOK
<1>2. hw' = [hw EXCEPT ![d] = Gone]
  OBVIOUS
<1>3. /\ \A e \in Devices : e # d => hw'[e] = hw[e]
      /\ hw'[d] = Gone /\ hw' \in [Devices -> Hw]
  BY <1>1, <1>2 DEF Hw, Gone, Stages
<1>4. TypeOK'
  BY <1>1, <1>3, ChannelSets DEF TypeOK
<1>5. Exclusive'
  BY <1>1, <1>2, <1>3 DEF IInv, Exclusive, SameSlot, Gone
<1>6. Handles'
  BY <1>1, <1>2, <1>3 DEF IInv, Handles, Unowned, Gone
<1>7. Accounting'
  BY <1>1, <1>2, <1>3 DEF IInv, Handles, Accounting, Unowned, NoMemoryYet, OwnedBy, Gone
<1>8. Pinning'
  BY <1>1, <1>2, <1>3 DEF IInv, Pinning, Pinned, Gone
<1>9. Refusing' /\ NeverDrivenAgain'
  BY <1>1, <1>2, <1>3 DEF IInv, Exclusive, Refusing, NeverDrivenAgain, SameSlot, Gone
<1>10. Engines' /\ NoTxAfterFree'
  BY <1>1, <1>2, <1>3, ChannelSets DEF IInv, Engines, NoTxAfterFree, Accounting, Unowned, NoMemoryYet, Gone
<1> QED
  BY <1>4, <1>5, <1>6, <1>7, <1>8, <1>9, <1>10 DEF IInv

\* A device lost in the prefix is latched, with nothing allocated.
LEMMA PrefixLostIInv ==
  ASSUME NEW d \in Devices, IInv, PrefixLost(d)
  PROVE  IInv'
<1> USE DEF PrefixLost, At, LoseTo
<1>1. /\ hw \in [Devices -> Hw] /\ owners \in OwnerRegistry /\ fatal \in FatalRegistry
      /\ memory \subseteq Devices /\ engine \in [Devices -> SUBSET Channels]
      /\ unloading \in BOOLEAN /\ doomed \subseteq Devices
  BY DEF IInv, TypeOK
<1>2. /\ \A e \in Devices : e # d => hw'[e] = hw[e]
      /\ hw'[d].stage = "bound"
      /\ hw'[d].handle = hw[d].handle
      /\ hw'[d].programmed = hw[d].programmed
      /\ hw'[d].failed = TRUE
      /\ hw'[d].lost = TRUE
      /\ hw'[d].freeAllowed = FALSE
      /\ hw'[d].fatal = TRUE
  BY <1>1 DEF Hw
<1>3. hw' \in [Devices -> Hw]
  <2>1. hw' = [hw EXCEPT ![d] = [hw[d] EXCEPT !.stage = "bound", !.failed = TRUE, !.lost = TRUE, !.freeAllowed = FALSE, !.fatal = TRUE]]
    BY <1>1
  <2> HIDE DEF PrefixLost, At, LoseTo
  <2>3. hw[d] \in Hw /\ "bound" \in Stages
    BY <1>1 DEF Stages
  <2>2. [hw[d] EXCEPT !.stage = "bound", !.failed = TRUE, !.lost = TRUE, !.freeAllowed = FALSE, !.fatal = TRUE] \in Hw
    BY <2>3, LostFields, Zenon
  <2> QED
    BY <1>1, <2>1, <2>2
<1>11. /\ hw[d].stage = "prefix"
       /\ fatal' = Latch(fatal, d) /\ fatal' \in FatalRegistry
       /\ doomed' = doomed \cup {d}
       /\ UNCHANGED <<owners, memory, unloading>> /\ UNCHANGED engine
  BY <1>1, LatchEffect
<1> HIDE DEF PrefixLost, LoseTo
<1>4. TypeOK'
  BY <1>1, <1>3, <1>11, ChannelSets DEF TypeOK
<1>5. Exclusive'
  BY <1>1, <1>2, <1>3, <1>11 DEF IInv, Exclusive, SameSlot
<1>6. Handles'
  BY <1>1, <1>2, <1>3, <1>11 DEF IInv, Handles, Unowned
<1>7. Accounting'
  BY <1>1, <1>2, <1>3, <1>11 DEF IInv, Handles, Accounting, Unowned, NoMemoryYet, OwnedBy
<1>8. Pinning'
  BY <1>1, <1>2, <1>3, <1>11, LatchEffect DEF IInv, Pinning, Pinned
<1>9. Refusing' /\ NeverDrivenAgain'
  <2>1. doomed' = doomed \cup {d} /\ fatal' = Latch(fatal, d) /\ hw'[d].fatal
    BY <1>2, <1>11
  <2>2. Refusing'
    BY <1>2, <1>11, LatchRefuses
  <2>3. \A e \in Devices : SameSlot(d, e) /\ e # d => At(e, "absent")'
    BY <1>2, <1>5 DEF Exclusive, SameSlot
  <2>4. NeverDrivenAgain'
    BY <1>1, <1>2, <1>11, <2>1, <2>3 DEF IInv, NeverDrivenAgain
  <2> QED
    BY <2>2, <2>4
<1>10. Engines' /\ NoTxAfterFree'
  BY <1>1, <1>2, <1>3, <1>11, ChannelSets DEF IInv, Engines, NoTxAfterFree, Accounting, Unowned, NoMemoryYet
<1> QED
  BY <1>4, <1>5, <1>6, <1>7, <1>8, <1>9, <1>10 DEF IInv

\* Memory appears under an owner that exists.
LEMMA AllocateIInv ==
  ASSUME NEW d \in Devices, IInv, Allocate(d)
  PROVE  IInv'
<1> USE DEF Allocate, At, Goto, FailTo
<1>1. /\ hw \in [Devices -> Hw] /\ owners \in OwnerRegistry /\ fatal \in FatalRegistry
      /\ memory \subseteq Devices /\ engine \in [Devices -> SUBSET Channels]
      /\ unloading \in BOOLEAN /\ doomed \subseteq Devices
  BY DEF IInv, TypeOK
<1>2. /\ \A e \in Devices : e # d => hw'[e] = hw[e]
      /\ hw'[d].stage = "program"
      /\ hw'[d].handle = hw[d].handle
      /\ hw'[d].programmed = hw[d].programmed
      /\ hw'[d].failed = hw[d].failed
      /\ hw'[d].lost = hw[d].lost
      /\ hw'[d].freeAllowed = hw[d].freeAllowed
      /\ hw'[d].fatal = hw[d].fatal
  BY <1>1 DEF Hw
<1>3. hw' \in [Devices -> Hw]
  BY <1>1 DEF Hw, Stages, Channels, TxChannels, Rx
<1>4. TypeOK'
  BY <1>1, <1>3, ChannelSets DEF TypeOK
<1>5. Exclusive'
  BY <1>1, <1>2, <1>3 DEF IInv, Exclusive, SameSlot
<1>6. Handles'
  BY <1>1, <1>2, <1>3 DEF IInv, Handles, Unowned
<1>7. Accounting'
  BY <1>1, <1>2, <1>3 DEF IInv, Handles, Accounting, Unowned, NoMemoryYet, OwnedBy
<1>8. Pinning'
  BY <1>1, <1>2, <1>3 DEF IInv, Pinning, Pinned
<1>9. Refusing' /\ NeverDrivenAgain'
  BY <1>1, <1>2, <1>3 DEF IInv, Exclusive, Refusing, NeverDrivenAgain, SameSlot
<1>10. Engines' /\ NoTxAfterFree'
  BY <1>1, <1>2, <1>3, ChannelSets DEF IInv, Engines, NoTxAfterFree, Accounting, Unowned, NoMemoryYet
<1> QED
  BY <1>4, <1>5, <1>6, <1>7, <1>8, <1>9, <1>10 DEF IInv

\* A partial allocation appears under an owner that exists.
LEMMA AllocateFailsIInv ==
  ASSUME NEW d \in Devices, IInv, AllocateFails(d)
  PROVE  IInv'
<1> USE DEF AllocateFails, At, Goto, FailTo
<1>1. /\ hw \in [Devices -> Hw] /\ owners \in OwnerRegistry /\ fatal \in FatalRegistry
      /\ memory \subseteq Devices /\ engine \in [Devices -> SUBSET Channels]
      /\ unloading \in BOOLEAN /\ doomed \subseteq Devices
  BY DEF IInv, TypeOK
<1>2. /\ \A e \in Devices : e # d => hw'[e] = hw[e]
      /\ hw'[d].stage = "teardown"
      /\ hw'[d].handle = hw[d].handle
      /\ hw'[d].programmed = hw[d].programmed
      /\ hw'[d].failed = TRUE
      /\ hw'[d].lost = hw[d].lost
      /\ hw'[d].freeAllowed = hw[d].freeAllowed
      /\ hw'[d].fatal = hw[d].fatal
  BY <1>1 DEF Hw
<1>3. hw' \in [Devices -> Hw]
  <2>1. hw' = [hw EXCEPT ![d] = [hw[d] EXCEPT !.stage = "teardown", !.failed = TRUE]]
    BY <1>1
  <2> HIDE DEF AllocateFails, At, Goto, FailTo
  <2>3. hw[d] \in Hw /\ "teardown" \in Stages
    BY <1>1 DEF Stages
  <2>2. [hw[d] EXCEPT !.stage = "teardown", !.failed = TRUE] \in Hw
    BY <2>3, HwFields, Zenon
  <2> QED
    BY <1>1, <2>1, <2>2
<1>4. TypeOK'
  BY <1>1, <1>3, ChannelSets DEF TypeOK
<1>5. Exclusive'
  BY <1>1, <1>2, <1>3 DEF IInv, Exclusive, SameSlot
<1>6. Handles'
  BY <1>1, <1>2, <1>3 DEF IInv, Handles, Unowned
<1>7. Accounting'
  BY <1>1, <1>2, <1>3 DEF IInv, Handles, Accounting, Unowned, NoMemoryYet, OwnedBy
<1>8. Pinning'
  BY <1>1, <1>2, <1>3 DEF IInv, Pinning, Pinned
<1>9. Refusing' /\ NeverDrivenAgain'
  BY <1>1, <1>2, <1>3 DEF IInv, Exclusive, Refusing, NeverDrivenAgain, SameSlot
<1>10. Engines' /\ NoTxAfterFree'
  BY <1>1, <1>2, <1>3, ChannelSets DEF IInv, Engines, NoTxAfterFree, Accounting, Unowned, NoMemoryYet
<1> QED
  BY <1>4, <1>5, <1>6, <1>7, <1>8, <1>9, <1>10 DEF IInv

\* A TX engine starts over memory and is counted as programmed.
LEMMA ProgramTxIInv ==
  ASSUME NEW d \in Devices, NEW ch \in TxChannels, IInv, ProgramTx(d, ch)
  PROVE  IInv'
<1> USE DEF ProgramTx, At, Goto, FailTo
<1>1. /\ hw \in [Devices -> Hw] /\ owners \in OwnerRegistry /\ fatal \in FatalRegistry
      /\ memory \subseteq Devices /\ engine \in [Devices -> SUBSET Channels]
      /\ unloading \in BOOLEAN /\ doomed \subseteq Devices
  BY DEF IInv, TypeOK
<1>2. /\ \A e \in Devices : e # d => hw'[e] = hw[e]
      /\ hw'[d].stage = hw[d].stage
      /\ hw'[d].handle = hw[d].handle
      /\ hw'[d].programmed = hw[d].programmed \cup {ch}
      /\ hw'[d].failed = hw[d].failed
      /\ hw'[d].lost = hw[d].lost
      /\ hw'[d].freeAllowed = hw[d].freeAllowed
      /\ hw'[d].fatal = hw[d].fatal
  BY <1>1 DEF Hw
<1>3. hw' \in [Devices -> Hw]
  <2>1. hw' = [hw EXCEPT ![d] = [hw[d] EXCEPT !.programmed = @ \cup {ch}]]
    BY <1>1
  <2> HIDE DEF ProgramTx, At, Goto, FailTo
  <2>3. hw[d] \in Hw /\ ch \in Channels /\ "program" \in Stages
    BY <1>1, ChannelSets DEF Stages
  <2>2. [hw[d] EXCEPT !.programmed = @ \cup {ch}] \in Hw
    BY <2>3, HwFields, Zenon
  <2> QED
    BY <1>1, <2>1, <2>2
<1>4. TypeOK'
  BY <1>1, <1>3, ChannelSets DEF TypeOK
<1>5. Exclusive'
  BY <1>1, <1>2, <1>3 DEF IInv, Exclusive, SameSlot
<1>6. Handles'
  BY <1>1, <1>2, <1>3 DEF IInv, Handles, Unowned
<1>7. Accounting'
  BY <1>1, <1>2, <1>3 DEF IInv, Handles, Accounting, Unowned, NoMemoryYet, OwnedBy
<1>8. Pinning'
  BY <1>1, <1>2, <1>3 DEF IInv, Pinning, Pinned
<1>9. Refusing' /\ NeverDrivenAgain'
  BY <1>1, <1>2, <1>3 DEF IInv, Exclusive, Refusing, NeverDrivenAgain, SameSlot
<1>10. Engines' /\ NoTxAfterFree'
  BY <1>1, <1>2, <1>3, ChannelSets DEF IInv, Engines, NoTxAfterFree, Accounting, Unowned, NoMemoryYet
<1> QED
  BY <1>4, <1>5, <1>6, <1>7, <1>8, <1>9, <1>10 DEF IInv

\* The device is lost before a TX engine starts.
LEMMA ProgramTxLostIInv ==
  ASSUME NEW d \in Devices, NEW ch \in TxChannels, IInv, ProgramTxLost(d, ch)
  PROVE  IInv'
<1> USE DEF ProgramTxLost, At, LoseTo
<1>1. /\ hw \in [Devices -> Hw] /\ owners \in OwnerRegistry /\ fatal \in FatalRegistry
      /\ memory \subseteq Devices /\ engine \in [Devices -> SUBSET Channels]
      /\ unloading \in BOOLEAN /\ doomed \subseteq Devices
  BY DEF IInv, TypeOK
<1>2. /\ \A e \in Devices : e # d => hw'[e] = hw[e]
      /\ hw'[d].stage = "teardown"
      /\ hw'[d].handle = hw[d].handle
      /\ hw'[d].programmed = hw[d].programmed
      /\ hw'[d].failed = TRUE
      /\ hw'[d].lost = TRUE
      /\ hw'[d].freeAllowed = FALSE
      /\ hw'[d].fatal = TRUE
  BY <1>1 DEF Hw
<1>3. hw' \in [Devices -> Hw]
  <2>1. hw' = [hw EXCEPT ![d] = [hw[d] EXCEPT !.stage = "teardown", !.failed = TRUE, !.lost = TRUE, !.freeAllowed = FALSE, !.fatal = TRUE]]
    BY <1>1
  <2> HIDE DEF ProgramTxLost, At, LoseTo
  <2>3. hw[d] \in Hw /\ "teardown" \in Stages
    BY <1>1 DEF Stages
  <2>2. [hw[d] EXCEPT !.stage = "teardown", !.failed = TRUE, !.lost = TRUE, !.freeAllowed = FALSE, !.fatal = TRUE] \in Hw
    BY <2>3, LostFields, Zenon
  <2> QED
    BY <1>1, <2>1, <2>2
<1>11. /\ hw[d].stage = "program"
       /\ fatal' = Latch(fatal, d) /\ fatal' \in FatalRegistry
       /\ doomed' = doomed \cup {d}
       /\ UNCHANGED <<owners, memory, unloading>> /\ UNCHANGED engine
  BY <1>1, LatchEffect
<1> HIDE DEF ProgramTxLost, LoseTo
<1>4. TypeOK'
  BY <1>1, <1>3, <1>11, ChannelSets DEF TypeOK
<1>5. Exclusive'
  BY <1>1, <1>2, <1>3, <1>11 DEF IInv, Exclusive, SameSlot
<1>6. Handles'
  BY <1>1, <1>2, <1>3, <1>11 DEF IInv, Handles, Unowned
<1>7. Accounting'
  BY <1>1, <1>2, <1>3, <1>11 DEF IInv, Handles, Accounting, Unowned, NoMemoryYet, OwnedBy
<1>8. Pinning'
  BY <1>1, <1>2, <1>3, <1>11, LatchEffect DEF IInv, Pinning, Pinned
<1>9. Refusing' /\ NeverDrivenAgain'
  <2>1. doomed' = doomed \cup {d} /\ fatal' = Latch(fatal, d) /\ hw'[d].fatal
    BY <1>2, <1>11
  <2>2. Refusing'
    BY <1>2, <1>11, LatchRefuses
  <2>3. \A e \in Devices : SameSlot(d, e) /\ e # d => At(e, "absent")'
    BY <1>2, <1>5 DEF Exclusive, SameSlot
  <2>4. NeverDrivenAgain'
    BY <1>1, <1>2, <1>11, <2>1, <2>3 DEF IInv, NeverDrivenAgain
  <2> QED
    BY <2>2, <2>4
<1>10. Engines' /\ NoTxAfterFree'
  BY <1>1, <1>2, <1>3, <1>11, ChannelSets DEF IInv, Engines, NoTxAfterFree, Accounting, Unowned, NoMemoryYet
<1> QED
  BY <1>4, <1>5, <1>6, <1>7, <1>8, <1>9, <1>10 DEF IInv

\* The RX engine is the last one programmed.
LEMMA ProgramRxIInv ==
  ASSUME NEW d \in Devices, IInv, ProgramRx(d)
  PROVE  IInv'
<1> USE DEF ProgramRx, At, Goto, FailTo
<1>1. /\ hw \in [Devices -> Hw] /\ owners \in OwnerRegistry /\ fatal \in FatalRegistry
      /\ memory \subseteq Devices /\ engine \in [Devices -> SUBSET Channels]
      /\ unloading \in BOOLEAN /\ doomed \subseteq Devices
  BY DEF IInv, TypeOK
<1>2. /\ \A e \in Devices : e # d => hw'[e] = hw[e]
      /\ hw'[d].stage = "live"
      /\ hw'[d].handle = hw[d].handle
      /\ hw'[d].programmed = hw[d].programmed \cup {Rx}
      /\ hw'[d].failed = hw[d].failed
      /\ hw'[d].lost = hw[d].lost
      /\ hw'[d].freeAllowed = hw[d].freeAllowed
      /\ hw'[d].fatal = hw[d].fatal
  BY <1>1 DEF Hw
<1>3. hw' \in [Devices -> Hw]
  <2>1. hw' = [hw EXCEPT ![d] = [hw[d] EXCEPT !.stage = "live", !.programmed = @ \cup {Rx}]]
    BY <1>1
  <2> HIDE DEF ProgramRx, At, Goto, FailTo
  <2>3. hw[d] \in Hw /\ "live" \in Stages /\ Rx \in Channels
    BY <1>1, ChannelSets DEF Stages
  <2>2. [hw[d] EXCEPT !.stage = "live", !.programmed = @ \cup {Rx}] \in Hw
    BY <2>3, HwFields, Zenon
  <2> QED
    BY <1>1, <2>1, <2>2
<1>4. TypeOK'
  BY <1>1, <1>3, ChannelSets DEF TypeOK
<1>5. Exclusive'
  BY <1>1, <1>2, <1>3 DEF IInv, Exclusive, SameSlot
<1>6. Handles'
  BY <1>1, <1>2, <1>3 DEF IInv, Handles, Unowned
<1>7. Accounting'
  BY <1>1, <1>2, <1>3 DEF IInv, Handles, Accounting, Unowned, NoMemoryYet, OwnedBy
<1>8. Pinning'
  BY <1>1, <1>2, <1>3 DEF IInv, Pinning, Pinned
<1>9. Refusing' /\ NeverDrivenAgain'
  BY <1>1, <1>2, <1>3 DEF IInv, Exclusive, Refusing, NeverDrivenAgain, SameSlot
<1>10. Engines' /\ NoTxAfterFree'
  BY <1>1, <1>2, <1>3, ChannelSets DEF IInv, Engines, NoTxAfterFree, Accounting, Unowned, NoMemoryYet
<1> QED
  BY <1>4, <1>5, <1>6, <1>7, <1>8, <1>9, <1>10 DEF IInv

\* The RX engine may run uncounted after a failed readback.
LEMMA ProgramRxFailsIInv ==
  ASSUME NEW d \in Devices, IInv, ProgramRxFails(d)
  PROVE  IInv'
<1> USE DEF ProgramRxFails, At, Goto, FailTo
<1>1. /\ hw \in [Devices -> Hw] /\ owners \in OwnerRegistry /\ fatal \in FatalRegistry
      /\ memory \subseteq Devices /\ engine \in [Devices -> SUBSET Channels]
      /\ unloading \in BOOLEAN /\ doomed \subseteq Devices
  BY DEF IInv, TypeOK
<1>2. /\ \A e \in Devices : e # d => hw'[e] = hw[e]
      /\ hw'[d].stage = "teardown"
      /\ hw'[d].handle = hw[d].handle
      /\ hw'[d].programmed = hw[d].programmed
      /\ hw'[d].failed = TRUE
      /\ hw'[d].lost = hw[d].lost
      /\ hw'[d].freeAllowed = hw[d].freeAllowed
      /\ hw'[d].fatal = hw[d].fatal
  BY <1>1 DEF Hw
<1>3. hw' \in [Devices -> Hw]
  <2>1. hw' = [hw EXCEPT ![d] = [hw[d] EXCEPT !.stage = "teardown", !.failed = TRUE]]
    BY <1>1
  <2> HIDE DEF ProgramRxFails, At, Goto, FailTo
  <2>3. hw[d] \in Hw /\ "teardown" \in Stages
    BY <1>1 DEF Stages
  <2>2. [hw[d] EXCEPT !.stage = "teardown", !.failed = TRUE] \in Hw
    BY <2>3, HwFields, Zenon
  <2> QED
    BY <1>1, <2>1, <2>2
<1>4. TypeOK'
  BY <1>1, <1>3, ChannelSets DEF TypeOK
<1>5. Exclusive'
  BY <1>1, <1>2, <1>3 DEF IInv, Exclusive, SameSlot
<1>6. Handles'
  BY <1>1, <1>2, <1>3 DEF IInv, Handles, Unowned
<1>7. Accounting'
  BY <1>1, <1>2, <1>3 DEF IInv, Handles, Accounting, Unowned, NoMemoryYet, OwnedBy
<1>8. Pinning'
  BY <1>1, <1>2, <1>3 DEF IInv, Pinning, Pinned
<1>9. Refusing' /\ NeverDrivenAgain'
  BY <1>1, <1>2, <1>3 DEF IInv, Exclusive, Refusing, NeverDrivenAgain, SameSlot
<1>10. Engines' /\ NoTxAfterFree'
  BY <1>1, <1>2, <1>3, ChannelSets DEF IInv, Engines, NoTxAfterFree, Accounting, Unowned, NoMemoryYet
<1> QED
  BY <1>4, <1>5, <1>6, <1>7, <1>8, <1>9, <1>10 DEF IInv

\* The device is lost after the RX engine was told to start.
LEMMA ProgramRxLostIInv ==
  ASSUME NEW d \in Devices, IInv, ProgramRxLost(d)
  PROVE  IInv'
<1> USE DEF ProgramRxLost, At, LoseTo
<1>1. /\ hw \in [Devices -> Hw] /\ owners \in OwnerRegistry /\ fatal \in FatalRegistry
      /\ memory \subseteq Devices /\ engine \in [Devices -> SUBSET Channels]
      /\ unloading \in BOOLEAN /\ doomed \subseteq Devices
  BY DEF IInv, TypeOK
<1>2. /\ \A e \in Devices : e # d => hw'[e] = hw[e]
      /\ hw'[d].stage = "teardown"
      /\ hw'[d].handle = hw[d].handle
      /\ hw'[d].programmed = hw[d].programmed
      /\ hw'[d].failed = TRUE
      /\ hw'[d].lost = TRUE
      /\ hw'[d].freeAllowed = FALSE
      /\ hw'[d].fatal = TRUE
  BY <1>1 DEF Hw
<1>3. hw' \in [Devices -> Hw]
  <2>1. hw' = [hw EXCEPT ![d] = [hw[d] EXCEPT !.stage = "teardown", !.failed = TRUE, !.lost = TRUE, !.freeAllowed = FALSE, !.fatal = TRUE]]
    BY <1>1
  <2> HIDE DEF ProgramRxLost, At, LoseTo
  <2>3. hw[d] \in Hw /\ "teardown" \in Stages
    BY <1>1 DEF Stages
  <2>2. [hw[d] EXCEPT !.stage = "teardown", !.failed = TRUE, !.lost = TRUE, !.freeAllowed = FALSE, !.fatal = TRUE] \in Hw
    BY <2>3, LostFields, Zenon
  <2> QED
    BY <1>1, <2>1, <2>2
<1>11. /\ hw[d].stage = "program"
       /\ fatal' = Latch(fatal, d) /\ fatal' \in FatalRegistry
       /\ doomed' = doomed \cup {d}
       /\ UNCHANGED <<owners, memory, unloading>> /\ engine' = [engine EXCEPT ![d] = @ \cup {Rx}]
  BY <1>1, LatchEffect
<1> HIDE DEF ProgramRxLost, LoseTo
<1>4. TypeOK'
  BY <1>1, <1>3, <1>11, ChannelSets DEF TypeOK
<1>5. Exclusive'
  BY <1>1, <1>2, <1>3, <1>11 DEF IInv, Exclusive, SameSlot
<1>6. Handles'
  BY <1>1, <1>2, <1>3, <1>11 DEF IInv, Handles, Unowned
<1>7. Accounting'
  BY <1>1, <1>2, <1>3, <1>11 DEF IInv, Handles, Accounting, Unowned, NoMemoryYet, OwnedBy
<1>8. Pinning'
  BY <1>1, <1>2, <1>3, <1>11, LatchEffect DEF IInv, Pinning, Pinned
<1>9. Refusing' /\ NeverDrivenAgain'
  <2>1. doomed' = doomed \cup {d} /\ fatal' = Latch(fatal, d) /\ hw'[d].fatal
    BY <1>2, <1>11
  <2>2. Refusing'
    BY <1>2, <1>11, LatchRefuses
  <2>3. \A e \in Devices : SameSlot(d, e) /\ e # d => At(e, "absent")'
    BY <1>2, <1>5 DEF Exclusive, SameSlot
  <2>4. NeverDrivenAgain'
    BY <1>1, <1>2, <1>11, <2>1, <2>3 DEF IInv, NeverDrivenAgain
  <2> QED
    BY <2>2, <2>4
<1>10. Engines' /\ NoTxAfterFree'
  BY <1>1, <1>2, <1>3, <1>11, ChannelSets DEF IInv, Engines, NoTxAfterFree, Accounting, Unowned, NoMemoryYet
<1> QED
  BY <1>4, <1>5, <1>6, <1>7, <1>8, <1>9, <1>10 DEF IInv

\* The device is lost while the engines run.
LEMMA LiveLostIInv ==
  ASSUME NEW d \in Devices, IInv, LiveLost(d)
  PROVE  IInv'
<1> USE DEF LiveLost, At, LoseTo
<1>1. /\ hw \in [Devices -> Hw] /\ owners \in OwnerRegistry /\ fatal \in FatalRegistry
      /\ memory \subseteq Devices /\ engine \in [Devices -> SUBSET Channels]
      /\ unloading \in BOOLEAN /\ doomed \subseteq Devices
  BY DEF IInv, TypeOK
<1>2. /\ \A e \in Devices : e # d => hw'[e] = hw[e]
      /\ hw'[d].stage = "teardown"
      /\ hw'[d].handle = hw[d].handle
      /\ hw'[d].programmed = hw[d].programmed
      /\ hw'[d].failed = TRUE
      /\ hw'[d].lost = TRUE
      /\ hw'[d].freeAllowed = FALSE
      /\ hw'[d].fatal = TRUE
  BY <1>1 DEF Hw
<1>3. hw' \in [Devices -> Hw]
  <2>1. hw' = [hw EXCEPT ![d] = [hw[d] EXCEPT !.stage = "teardown", !.failed = TRUE, !.lost = TRUE, !.freeAllowed = FALSE, !.fatal = TRUE]]
    BY <1>1
  <2> HIDE DEF LiveLost, At, LoseTo
  <2>3. hw[d] \in Hw /\ "teardown" \in Stages
    BY <1>1 DEF Stages
  <2>2. [hw[d] EXCEPT !.stage = "teardown", !.failed = TRUE, !.lost = TRUE, !.freeAllowed = FALSE, !.fatal = TRUE] \in Hw
    BY <2>3, LostFields, Zenon
  <2> QED
    BY <1>1, <2>1, <2>2
<1>11. /\ hw[d].stage = "live"
       /\ fatal' = Latch(fatal, d) /\ fatal' \in FatalRegistry
       /\ doomed' = doomed \cup {d}
       /\ UNCHANGED <<owners, memory, unloading>> /\ UNCHANGED engine
  BY <1>1, LatchEffect
<1> HIDE DEF LiveLost, LoseTo
<1>4. TypeOK'
  BY <1>1, <1>3, <1>11, ChannelSets DEF TypeOK
<1>5. Exclusive'
  BY <1>1, <1>2, <1>3, <1>11 DEF IInv, Exclusive, SameSlot
<1>6. Handles'
  BY <1>1, <1>2, <1>3, <1>11 DEF IInv, Handles, Unowned
<1>7. Accounting'
  BY <1>1, <1>2, <1>3, <1>11 DEF IInv, Handles, Accounting, Unowned, NoMemoryYet, OwnedBy
<1>8. Pinning'
  BY <1>1, <1>2, <1>3, <1>11, LatchEffect DEF IInv, Pinning, Pinned
<1>9. Refusing' /\ NeverDrivenAgain'
  <2>1. doomed' = doomed \cup {d} /\ fatal' = Latch(fatal, d) /\ hw'[d].fatal
    BY <1>2, <1>11
  <2>2. Refusing'
    BY <1>2, <1>11, LatchRefuses
  <2>3. \A e \in Devices : SameSlot(d, e) /\ e # d => At(e, "absent")'
    BY <1>2, <1>5 DEF Exclusive, SameSlot
  <2>4. NeverDrivenAgain'
    BY <1>1, <1>2, <1>11, <2>1, <2>3 DEF IInv, NeverDrivenAgain
  <2> QED
    BY <2>2, <2>4
<1>10. Engines' /\ NoTxAfterFree'
  BY <1>1, <1>2, <1>3, <1>11, ChannelSets DEF IInv, Engines, NoTxAfterFree, Accounting, Unowned, NoMemoryYet
<1> QED
  BY <1>4, <1>5, <1>6, <1>7, <1>8, <1>9, <1>10 DEF IInv

\* The witness stalls: the device is marked lost, no registry is told.
LEMMA LiveStalledIInv ==
  ASSUME NEW d \in Devices, IInv, LiveStalled(d)
  PROVE  IInv'
<1> USE DEF LiveStalled, At
<1>1. /\ hw \in [Devices -> Hw] /\ owners \in OwnerRegistry /\ fatal \in FatalRegistry
      /\ memory \subseteq Devices /\ engine \in [Devices -> SUBSET Channels]
      /\ unloading \in BOOLEAN /\ doomed \subseteq Devices
  BY DEF IInv, TypeOK
<1>2. /\ \A e \in Devices : e # d => hw'[e] = hw[e]
      /\ hw[d].stage = "live" /\ hw[d].handle # NoEntry /\ ~unloading
      /\ hw'[d].stage = "retain"
      /\ hw'[d].handle = hw[d].handle
      /\ hw'[d].programmed = hw[d].programmed
      /\ hw'[d].lost = TRUE
      /\ hw'[d].fatal = hw[d].fatal
      /\ doomed' = doomed \cup {d}
      /\ UNCHANGED <<owners, fatal, memory, engine, unloading>>
  BY <1>1 DEF IInv, Handles, Pinning, Hw
<1>3. hw' \in [Devices -> Hw]
  <2>1. hw' = [hw EXCEPT ![d] = [hw[d] EXCEPT !.stage = "retain", !.failed = TRUE, !.lost = TRUE]]
    BY <1>1
  <2>2. hw[d] \in Hw /\ "retain" \in Stages
    BY <1>1 DEF Stages
  <2> HIDE DEF LiveStalled, At
  <2>3. [hw[d] EXCEPT !.stage = "retain", !.failed = TRUE, !.lost = TRUE] \in Hw
    BY <2>2, LostFields, Zenon
  <2> QED
    BY <1>1, <2>1, <2>3
<1> HIDE DEF LiveStalled
<1>4. TypeOK'
  BY <1>1, <1>2, <1>3 DEF TypeOK
<1>5. Exclusive'
  BY <1>1, <1>2, <1>3 DEF IInv, Exclusive, SameSlot
<1>6. Handles'
  BY <1>1, <1>2, <1>3 DEF IInv, Handles, Unowned
<1>7. Accounting'
  BY <1>1, <1>2, <1>3 DEF IInv, Handles, Accounting, Unowned, NoMemoryYet, OwnedBy
<1>8. Pinning'
  BY <1>1, <1>2, <1>3 DEF IInv, Pinning, Pinned
<1>9. Refusing' /\ NeverDrivenAgain'
  BY <1>1, <1>2, <1>3 DEF IInv, Exclusive, Refusing, NeverDrivenAgain, SameSlot
<1>10. Engines' /\ NoTxAfterFree'
  BY <1>1, <1>2, <1>3, ChannelSets DEF IInv, Engines, NoTxAfterFree, Accounting, Unowned, NoMemoryYet
<1> QED
  BY <1>4, <1>5, <1>6, <1>7, <1>8, <1>9, <1>10 DEF IInv

\* A lost device goes to be retained without a write.
LEMMA TeardownLostIInv ==
  ASSUME NEW d \in Devices, IInv, TeardownLost(d)
  PROVE  IInv'
<1> USE DEF TeardownLost, At, Goto, FailTo
<1>1. /\ hw \in [Devices -> Hw] /\ owners \in OwnerRegistry /\ fatal \in FatalRegistry
      /\ memory \subseteq Devices /\ engine \in [Devices -> SUBSET Channels]
      /\ unloading \in BOOLEAN /\ doomed \subseteq Devices
  BY DEF IInv, TypeOK
<1>2. /\ \A e \in Devices : e # d => hw'[e] = hw[e]
      /\ hw'[d].stage = "retain"
      /\ hw'[d].handle = hw[d].handle
      /\ hw'[d].programmed = hw[d].programmed
      /\ hw'[d].failed = hw[d].failed
      /\ hw'[d].lost = hw[d].lost
      /\ hw'[d].freeAllowed = hw[d].freeAllowed
      /\ hw'[d].fatal = hw[d].fatal
  BY <1>1 DEF Hw
<1>3. hw' \in [Devices -> Hw]
  BY <1>1 DEF Hw, Stages, Channels, TxChannels, Rx
<1>4. TypeOK'
  BY <1>1, <1>3, ChannelSets DEF TypeOK
<1>5. Exclusive'
  BY <1>1, <1>2, <1>3 DEF IInv, Exclusive, SameSlot
<1>6. Handles'
  BY <1>1, <1>2, <1>3 DEF IInv, Handles, Pinning, Unowned
<1>7. Accounting'
  BY <1>1, <1>2, <1>3 DEF IInv, Handles, Accounting, Unowned, NoMemoryYet, OwnedBy
<1>8. Pinning'
  BY <1>1, <1>2, <1>3 DEF IInv, Pinning, Pinned
<1>9. Refusing' /\ NeverDrivenAgain'
  BY <1>1, <1>2, <1>3 DEF IInv, Exclusive, Refusing, NeverDrivenAgain, SameSlot
<1>10. Engines' /\ NoTxAfterFree'
  BY <1>1, <1>2, <1>3, ChannelSets DEF IInv, Engines, NoTxAfterFree, Accounting, Unowned, NoMemoryYet
<1> QED
  BY <1>4, <1>5, <1>6, <1>7, <1>8, <1>9, <1>10 DEF IInv

\* There is no memory for an owner: nothing happened yet.
LEMMA EnsureOwnerNoMemIInv ==
  ASSUME NEW d \in Devices, IInv, EnsureOwnerNoMem(d)
  PROVE  IInv'
<1> USE DEF EnsureOwnerNoMem, At, Goto, FailTo
<1>1. /\ hw \in [Devices -> Hw] /\ owners \in OwnerRegistry /\ fatal \in FatalRegistry
      /\ memory \subseteq Devices /\ engine \in [Devices -> SUBSET Channels]
      /\ unloading \in BOOLEAN /\ doomed \subseteq Devices
  BY DEF IInv, TypeOK
<1>2. /\ \A e \in Devices : e # d => hw'[e] = hw[e]
      /\ hw'[d].stage = "teardown"
      /\ hw'[d].handle = hw[d].handle
      /\ hw'[d].programmed = hw[d].programmed
      /\ hw'[d].failed = TRUE
      /\ hw'[d].lost = hw[d].lost
      /\ hw'[d].freeAllowed = hw[d].freeAllowed
      /\ hw'[d].fatal = hw[d].fatal
  BY <1>1 DEF Hw
<1>3. hw' \in [Devices -> Hw]
  <2>1. hw' = [hw EXCEPT ![d] = [hw[d] EXCEPT !.stage = "teardown", !.failed = TRUE]]
    BY <1>1
  <2>2. hw[d] \in Hw /\ "teardown" \in Stages
    BY <1>1 DEF Stages
  <2> HIDE DEF EnsureOwnerNoMem, At, Goto, FailTo
  <2>3. [hw[d] EXCEPT !.stage = "teardown", !.failed = TRUE] \in Hw
    BY <2>2, HwFields, Zenon
  <2> QED
    BY <1>1, <2>1, <2>3
<1>4. TypeOK'
  BY <1>1, <1>3, ChannelSets DEF TypeOK
<1>5. Exclusive'
  BY <1>1, <1>2, <1>3 DEF IInv, Exclusive, SameSlot
<1>6. Handles'
  BY <1>1, <1>2, <1>3 DEF IInv, Handles, Unowned
<1>7. Accounting'
  BY <1>1, <1>2, <1>3 DEF IInv, Handles, Accounting, Unowned, NoMemoryYet, OwnedBy
<1>8. Pinning'
  BY <1>1, <1>2, <1>3 DEF IInv, Pinning, Pinned
<1>9. Refusing' /\ NeverDrivenAgain'
  BY <1>1, <1>2, <1>3 DEF IInv, Exclusive, Refusing, NeverDrivenAgain, SameSlot
<1>10. Engines' /\ NoTxAfterFree'
  BY <1>1, <1>2, <1>3, ChannelSets DEF IInv, Engines, NoTxAfterFree, Accounting, Unowned, NoMemoryYet
<1> QED
  BY <1>4, <1>5, <1>6, <1>7, <1>8, <1>9, <1>10 DEF IInv

\* The device is found lost as the teardown begins.
LEMMA QuiesceLostIInv ==
  ASSUME NEW d \in Devices, IInv, QuiesceLost(d)
  PROVE  IInv'
<1> USE DEF QuiesceLost, At, LoseTo
<1>1. /\ hw \in [Devices -> Hw] /\ owners \in OwnerRegistry /\ fatal \in FatalRegistry
      /\ memory \subseteq Devices /\ engine \in [Devices -> SUBSET Channels]
      /\ unloading \in BOOLEAN /\ doomed \subseteq Devices
  BY DEF IInv, TypeOK
<1>2. /\ \A e \in Devices : e # d => hw'[e] = hw[e]
      /\ hw'[d].stage = "retain"
      /\ hw'[d].handle = hw[d].handle
      /\ hw'[d].programmed = hw[d].programmed
      /\ hw'[d].failed = TRUE
      /\ hw'[d].lost = TRUE
      /\ hw'[d].freeAllowed = FALSE
      /\ hw'[d].fatal = TRUE
  BY <1>1 DEF Hw
<1>3. hw' \in [Devices -> Hw]
  <2>1. hw' = [hw EXCEPT ![d] = [hw[d] EXCEPT !.stage = "retain", !.failed = TRUE, !.lost = TRUE, !.freeAllowed = FALSE, !.fatal = TRUE]]
    BY <1>1
  <2> HIDE DEF QuiesceLost, At, LoseTo
  <2>3. hw[d] \in Hw /\ "retain" \in Stages
    BY <1>1 DEF Stages
  <2>2. [hw[d] EXCEPT !.stage = "retain", !.failed = TRUE, !.lost = TRUE, !.freeAllowed = FALSE, !.fatal = TRUE] \in Hw
    BY <2>3, LostFields, Zenon
  <2> QED
    BY <1>1, <2>1, <2>2
<1>11. /\ hw[d].stage = "teardown"
       /\ fatal' = Latch(fatal, d) /\ fatal' \in FatalRegistry
       /\ doomed' = doomed \cup {d}
       /\ UNCHANGED <<owners, memory, unloading>> /\ UNCHANGED engine
  BY <1>1, LatchEffect
<1> HIDE DEF QuiesceLost, LoseTo
<1>4. TypeOK'
  BY <1>1, <1>3, <1>11, ChannelSets DEF TypeOK
<1>5. Exclusive'
  BY <1>1, <1>2, <1>3, <1>11 DEF IInv, Exclusive, SameSlot
<1>6. Handles'
  BY <1>1, <1>2, <1>3, <1>11 DEF IInv, Handles, Unowned
<1>7. Accounting'
  BY <1>1, <1>2, <1>3, <1>11 DEF IInv, Handles, Accounting, Unowned, NoMemoryYet, OwnedBy
<1>8. Pinning'
  BY <1>1, <1>2, <1>3, <1>11, LatchEffect DEF IInv, Pinning, Pinned
<1>9. Refusing' /\ NeverDrivenAgain'
  <2>1. doomed' = doomed \cup {d} /\ fatal' = Latch(fatal, d) /\ hw'[d].fatal
    BY <1>2, <1>11
  <2>2. Refusing'
    BY <1>2, <1>11, LatchRefuses
  <2>3. \A e \in Devices : SameSlot(d, e) /\ e # d => At(e, "absent")'
    BY <1>2, <1>5 DEF Exclusive, SameSlot
  <2>4. NeverDrivenAgain'
    BY <1>1, <1>2, <1>11, <2>1, <2>3 DEF IInv, NeverDrivenAgain
  <2> QED
    BY <2>2, <2>4
<1>10. Engines' /\ NoTxAfterFree'
  BY <1>1, <1>2, <1>3, <1>11, ChannelSets DEF IInv, Engines, NoTxAfterFree, Accounting, Unowned, NoMemoryYet
<1> QED
  BY <1>4, <1>5, <1>6, <1>7, <1>8, <1>9, <1>10 DEF IInv

\* Every TX engine is stopped once freeing is allowed.
LEMMA QuiesceOkIInv ==
  ASSUME NEW d \in Devices, IInv, QuiesceOk(d)
  PROVE  IInv'
<1> USE DEF QuiesceOk, At, Goto, FailTo
<1>1. /\ hw \in [Devices -> Hw] /\ owners \in OwnerRegistry /\ fatal \in FatalRegistry
      /\ memory \subseteq Devices /\ engine \in [Devices -> SUBSET Channels]
      /\ unloading \in BOOLEAN /\ doomed \subseteq Devices
  BY DEF IInv, TypeOK
<1>2. /\ \A e \in Devices : e # d => hw'[e] = hw[e]
      /\ hw'[d].stage = "free"
      /\ hw'[d].handle = hw[d].handle
      /\ hw'[d].programmed = hw[d].programmed
      /\ hw'[d].failed = hw[d].failed
      /\ hw'[d].lost = hw[d].lost
      /\ hw'[d].freeAllowed = TRUE
      /\ hw'[d].fatal = hw[d].fatal
  BY <1>1 DEF Hw
<1>3. hw' \in [Devices -> Hw]
  <2>1. hw' = [hw EXCEPT ![d] = [hw[d] EXCEPT !.stage = "free", !.freeAllowed = TRUE]]
    BY <1>1
  <2> HIDE DEF QuiesceOk, At, Goto, FailTo
  <2>3. hw[d] \in Hw /\ "free" \in Stages
    BY <1>1 DEF Stages
  <2>2. [hw[d] EXCEPT !.stage = "free", !.freeAllowed = TRUE] \in Hw
    BY <2>3, HwFields, Zenon
  <2> QED
    BY <1>1, <2>1, <2>2
<1>4. TypeOK'
  BY <1>1, <1>3, ChannelSets DEF TypeOK
<1>5. Exclusive'
  BY <1>1, <1>2, <1>3 DEF IInv, Exclusive, SameSlot
<1>6. Handles'
  BY <1>1, <1>2, <1>3 DEF IInv, Handles, Unowned
<1>7. Accounting'
  BY <1>1, <1>2, <1>3 DEF IInv, Handles, Accounting, Unowned, NoMemoryYet, OwnedBy
<1>8. Pinning'
  BY <1>1, <1>2, <1>3 DEF IInv, Pinning, Pinned
<1>9. Refusing' /\ NeverDrivenAgain'
  BY <1>1, <1>2, <1>3 DEF IInv, Exclusive, Refusing, NeverDrivenAgain, SameSlot
<1>10. Engines' /\ NoTxAfterFree'
  BY <1>1, <1>2, <1>3, ChannelSets DEF IInv, Engines, NoTxAfterFree, Accounting, Unowned, NoMemoryYet
<1> QED
  BY <1>4, <1>5, <1>6, <1>7, <1>8, <1>9, <1>10 DEF IInv

\* Memory is freed when no TX engine runs.
LEMMA FreeMemIInv ==
  ASSUME NEW d \in Devices, IInv, FreeMem(d)
  PROVE  IInv'
<1> USE DEF FreeMem, At, Goto, FailTo
<1>1. /\ hw \in [Devices -> Hw] /\ owners \in OwnerRegistry /\ fatal \in FatalRegistry
      /\ memory \subseteq Devices /\ engine \in [Devices -> SUBSET Channels]
      /\ unloading \in BOOLEAN /\ doomed \subseteq Devices
  BY DEF IInv, TypeOK
<1>2. /\ \A e \in Devices : e # d => hw'[e] = hw[e]
      /\ hw'[d].stage = "finish"
      /\ hw'[d].handle = hw[d].handle
      /\ hw'[d].programmed = hw[d].programmed
      /\ hw'[d].failed = hw[d].failed
      /\ hw'[d].lost = hw[d].lost
      /\ hw'[d].freeAllowed = hw[d].freeAllowed
      /\ hw'[d].fatal = hw[d].fatal
  BY <1>1 DEF Hw
<1>3. hw' \in [Devices -> Hw]
  BY <1>1 DEF Hw, Stages, Channels, TxChannels, Rx
<1>4. TypeOK'
  BY <1>1, <1>3, ChannelSets DEF TypeOK
<1>5. Exclusive'
  BY <1>1, <1>2, <1>3 DEF IInv, Exclusive, SameSlot
<1>6. Handles'
  BY <1>1, <1>2, <1>3 DEF IInv, Handles, Unowned
<1>7. Accounting'
  BY <1>1, <1>2, <1>3 DEF IInv, Handles, Accounting, Unowned, NoMemoryYet, OwnedBy
<1>8. Pinning'
  BY <1>1, <1>2, <1>3 DEF IInv, Pinning, Pinned
<1>9. Refusing' /\ NeverDrivenAgain'
  BY <1>1, <1>2, <1>3 DEF IInv, Exclusive, Refusing, NeverDrivenAgain, SameSlot
<1>10. Engines' /\ NoTxAfterFree'
  BY <1>1, <1>2, <1>3, ChannelSets DEF IInv, Engines, NoTxAfterFree, Accounting, Unowned, NoMemoryYet
<1> QED
  BY <1>4, <1>5, <1>6, <1>7, <1>8, <1>9, <1>10 DEF IInv

\* What runs while the engines are live disturbs only the stage.
LEMMA LiveIInv ==
  ASSUME NEW d \in Devices, IInv, Live(d)
  PROVE  IInv'
<1> USE DEF Live, At, Goto, FailTo
<1>1. TypeOK
  BY DEF IInv
<1>2. PICK failed \in BOOLEAN :
        hw' = [hw EXCEPT ![d] = [hw[d] EXCEPT !.stage = "teardown", !.failed = failed]]
  <2>1. CASE Goto(d, "teardown")
    <3>1. hw[d].failed \in BOOLEAN
      BY <1>1 DEF TypeOK, Hw
    <3>2. hw' = [hw EXCEPT ![d] = [hw[d] EXCEPT !.stage = "teardown", !.failed = hw[d].failed]]
      BY <1>1, <2>1 DEF TypeOK, Hw
    <3> QED
      BY <3>1, <3>2
  <2>2. CASE FailTo(d, "teardown")
    <3>1. hw' = [hw EXCEPT ![d] = [hw[d] EXCEPT !.stage = "teardown", !.failed = TRUE]]
      BY <1>1, <2>2 DEF TypeOK, Hw
    <3> QED
      BY <3>1
  <2> QED
    BY <2>1, <2>2
<1> HIDE DEF Live
<1>3. /\ At(d, "live") /\ UNCHANGED <<owners, fatal, memory, engine, unloading, doomed>>
  BY DEF Live
<1>4. /\ \A e \in Devices : e # d => hw'[e] = hw[e]
      /\ hw'[d].stage = "teardown" /\ hw'[d].handle = hw[d].handle
      /\ hw'[d].programmed = hw[d].programmed
      /\ hw'[d].lost = hw[d].lost /\ hw'[d].fatal = hw[d].fatal
      /\ hw' \in [Devices -> Hw]
  <2>1. hw \in [Devices -> Hw] /\ hw[d] \in Hw /\ "teardown" \in Stages
    BY <1>1 DEF TypeOK, Stages
  <2>2. [hw[d] EXCEPT !.stage = "teardown", !.failed = failed] \in Hw
    BY <2>1, <1>2, HwFields, Zenon
  <2>3. hw'[d] = [hw[d] EXCEPT !.stage = "teardown", !.failed = failed]
    BY <2>1, <1>2
  <2>4. /\ \A e \in Devices : e # d => hw'[e] = hw[e]
        /\ hw' \in [Devices -> Hw]
    BY <2>1, <2>2, <1>2
  <2> QED
    BY <2>1, <2>3, <2>4 DEF Hw
<1>5. TypeOK'
  BY <1>1, <1>3, <1>4 DEF TypeOK
<1>6. Exclusive'
  BY <1>3, <1>4 DEF IInv, Exclusive, SameSlot
<1>7. Handles'
  BY <1>3, <1>4 DEF IInv, Handles, Unowned
<1>8. Accounting'
  BY <1>3, <1>4 DEF IInv, Handles, Accounting, NoMemoryYet, OwnedBy
<1>9. Pinning' /\ Refusing'
  BY <1>1, <1>3, <1>4 DEF IInv, TypeOK, Pinning, Pinned, Refusing, At
<1>10. NeverDrivenAgain'
  BY <1>1, <1>3, <1>4 DEF IInv, Exclusive, NeverDrivenAgain, SameSlot, TypeOK
<1>11. Engines' /\ NoTxAfterFree'
  BY <1>3, <1>4 DEF IInv, Engines, NoTxAfterFree, Unowned
<1> QED
  BY <1>5, <1>6, <1>7, <1>8, <1>9, <1>10, <1>11 DEF IInv

\* A failed stop latches the device before anything is retained.
LEMMA QuiesceFailsIInv ==
  ASSUME NEW d \in Devices, IInv, QuiesceFails(d)
  PROVE  IInv'
<1>1. TypeOK
  BY DEF IInv
<1>2. /\ At(d, "teardown")
      /\ UNCHANGED <<owners, memory, unloading>>
      /\ fatal' = Latch(fatal, d) /\ doomed' = doomed \cup {d}
  BY DEF QuiesceFails, StopFailed
<1>3. PICK running \in SUBSET hw[d].programmed :
        engine' = [engine EXCEPT ![d] = (@ \ hw[d].programmed) \cup running]
  BY DEF QuiesceFails
<1>4. hw' = [hw EXCEPT ![d] = [hw[d] EXCEPT !.stage = "retain", !.failed = TRUE,
                                            !.freeAllowed = FALSE, !.fatal = TRUE]]
  BY <1>1 DEF QuiesceFails, StopFailed, TypeOK
<1>5. /\ \A e \in Devices : e # d => hw'[e] = hw[e] /\ engine'[e] = engine[e]
      /\ hw'[d].stage = "retain" /\ hw'[d].handle = hw[d].handle
      /\ hw'[d].programmed = hw[d].programmed
      /\ hw'[d].lost = hw[d].lost /\ hw'[d].fatal
      /\ hw' \in [Devices -> Hw]
  <2>1. hw \in [Devices -> Hw] /\ hw[d] \in Hw /\ engine \in [Devices -> SUBSET Channels]
    BY <1>1 DEF TypeOK
  <2>2. [hw[d] EXCEPT !.stage = "retain", !.failed = TRUE,
                      !.freeAllowed = FALSE, !.fatal = TRUE] \in Hw
    BY <2>1 DEF Hw, Stages
  <2>3. \A e \in Devices : e # d => hw'[e] = hw[e] /\ engine'[e] = engine[e]
    BY <2>1, <1>3, <1>4
  <2>4. /\ hw'[d].stage = "retain" /\ hw'[d].handle = hw[d].handle
        /\ hw'[d].programmed = hw[d].programmed
        /\ hw'[d].lost = hw[d].lost /\ hw'[d].fatal
    BY <2>1, <1>4 DEF Hw
  <2> QED
    BY <2>1, <2>2, <2>3, <2>4, <1>4
<1>6. engine' \in [Devices -> SUBSET Channels]
  BY <1>1, <1>3 DEF TypeOK, Hw
<1>7. TypeOK'
  BY <1>1, <1>2, <1>5, <1>6, LatchEffect DEF TypeOK
<1>8. Exclusive'
  BY <1>2, <1>5 DEF IInv, Exclusive, SameSlot, At
<1>9. Handles'
  BY <1>2, <1>5 DEF IInv, Handles, Unowned, At
<1>10. Accounting'
  BY <1>2, <1>5 DEF IInv, Handles, Accounting, NoMemoryYet, OwnedBy, At
<1>11. Pinning'
  BY <1>1, <1>2, <1>5, LatchEffect DEF IInv, Pinning, Pinned, TypeOK, At
<1>12. Refusing'
  BY <1>2, <1>5, LatchRefuses
<1>13. NeverDrivenAgain'
  <2>1. \A e \in Devices : SameSlot(d, e) /\ e # d => At(e, "absent")'
    BY <1>5, <1>8 DEF Exclusive, SameSlot, At
  <2> QED
    BY <1>1, <1>2, <1>5, <2>1 DEF IInv, NeverDrivenAgain, TypeOK, At
<1>14. Engines'
  BY <1>2, <1>5 DEF IInv, Engines, Unowned, At
<1>15. NoTxAfterFree'
  <2>1. engine'[d] \cap TxChannels # {} => d \in memory
    BY <1>1, <1>2, <1>3 DEF IInv, Engines, NoTxAfterFree, TypeOK, At
  <2> QED
    BY <1>2, <1>5, <2>1 DEF IInv, NoTxAfterFree
<1> QED
  BY <1>7, <1>8, <1>9, <1>10, <1>11, <1>12, <1>13, <1>14, <1>15 DEF IInv

\* What a change of the owner registry on behalf of device d leaves alone:
\* the entries of other devices, every retained entry and the module pin.
OwnersChangeFor(d) ==
  /\ owners' \in OwnerRegistry
  /\ owners.pinned => owners'.pinned
  /\ \A i \in Entries : owners.entry[i].state = "RETAINED" => owners'.entry[i] = owners.entry[i]
  /\ \A i \in Entries : owners'.entry[i].state = "RETAINED" =>
       owners.entry[i].state = "RETAINED" \/ owners'.entry[i].id = d
  /\ \A e \in Devices : e # d /\ hw[e].handle # NoEntry =>
       owners'.entry[hw[e].handle] = owners.entry[hw[e].handle]

\* Such a change leaves the retained owner of any device in place.
LEMMA RetainedStays ==
  ASSUME NEW d, OwnersChangeFor(d), NEW e \in Devices, OwnedBy(e, {"RETAINED"})
  PROVE  OwnedBy(e, {"RETAINED"})'
BY DEF OwnersChangeFor, OwnedBy

\* The registry refuses no less then, and nobody it has admitted.
LEMMA OwnersRefuse ==
  ASSUME NEW d \in Devices, IInv, OwnersChangeFor(d), ~At(d, "absent"), ~At(d, "guarded")
  PROVE  /\ \A e \in Devices : RetainedFor(owners, e) => RetainedFor(owners', e)
         /\ \A e \in Devices : At(e, "guarded") => ~RetainedFor(owners', e)
<1>1. \A e \in Devices : RetainedFor(owners, e) => RetainedFor(owners', e)
  BY DEF OwnersChangeFor, RetainedFor
<1>2. ASSUME NEW e \in Devices, At(e, "guarded"), RetainedFor(owners', e)
      PROVE  FALSE
  <2>1. PICK i \in Entries : /\ owners'.entry[i].state = "RETAINED"
                             /\ SameSlot(owners'.entry[i].id, e)
    BY <1>2 DEF RetainedFor
  <2>2. CASE owners.entry[i].state = "RETAINED"
    <3>1. owners'.entry[i] = owners.entry[i]
      BY <2>2 DEF OwnersChangeFor
    <3> QED
      BY <1>2, <2>1, <2>2, <3>1 DEF IInv, Refusing, RetainedFor
  <2>3. CASE owners'.entry[i].id = d
    <3>1. SameSlot(d, e) /\ d # e
      BY <1>2, <2>1, <2>3 DEF At
    <3> QED
      BY <1>2, <3>1 DEF IInv, Exclusive, At
  <2> QED
    BY <2>1, <2>2, <2>3 DEF OwnersChangeFor
<1> QED
  BY <1>1, <1>2

\* Creating an owner is such a change, and yields a live owner of the device.
LEMMA CreateChanges ==
  ASSUME NEW d \in Devices, IInv, owners' = Create(owners, d)
  PROVE  /\ OwnersChangeFor(d)
         /\ \A i \in Entries : owners'.entry[i].state = "RETAINED" => owners'.pinned \/ fatal.pinned
         /\ CreateResult(owners, d) = "OK" =>
              /\ FirstFree(owners) \in Entries
              /\ owners'.entry[FirstFree(owners)] = [state |-> "LIVE", id |-> d]
<1>1. owners \in OwnerRegistry /\ hw \in [Devices -> Hw]
  BY DEF IInv, TypeOK
<1>6. /\ owners' \in OwnerRegistry
      /\ owners'.pinned = owners.pinned
      /\ \A i \in Entries : owners.entry[i] # EmptyEntry => owners'.entry[i] = owners.entry[i]
      /\ \A i \in Entries :
           \/ owners'.entry[i] = owners.entry[i]
           \/ owners'.entry[i] = [state |-> "LIVE", id |-> d]
      /\ CreateResult(owners, d) = "OK" =>
           /\ FirstFree(owners) \in Entries
           /\ owners'.entry[FirstFree(owners)] = [state |-> "LIVE", id |-> d]
  <2>1. /\ Create(owners, d) \in OwnerRegistry
        /\ Create(owners, d).pinned = owners.pinned
        /\ \A i \in Entries :
             owners.entry[i] # EmptyEntry => Create(owners, d).entry[i] = owners.entry[i]
        /\ \A i \in Entries :
             \/ Create(owners, d).entry[i] = owners.entry[i]
             \/ Create(owners, d).entry[i] = [state |-> "LIVE", id |-> d]
        /\ CreateResult(owners, d) = "OK" =>
             /\ FirstFree(owners) \in Entries
             /\ Create(owners, d).entry[FirstFree(owners)] = [state |-> "LIVE", id |-> d]
    BY <1>1, CreateEffect, Zenon
  <2> QED
    BY <2>1, Zenon
<1>2. /\ owners' \in OwnerRegistry
      /\ owners.pinned => owners'.pinned
      /\ \A i \in Entries : owners'.entry[i].state = "RETAINED" =>
           owners.entry[i].state = "RETAINED"
  BY <1>1, <1>6
<1>3. \A i \in Entries : owners.entry[i].state # "FREE" => owners'.entry[i] = owners.entry[i]
  BY <1>6 DEF EmptyEntry
<1>4. \A e \in Devices : hw[e].handle # NoEntry =>
        hw[e].handle \in Entries /\ owners.entry[hw[e].handle].state # "FREE"
  BY <1>1 DEF IInv, Handles, Hw
<1>5. \A i \in Entries : owners'.entry[i].state = "RETAINED" => owners'.pinned \/ fatal.pinned
  BY <1>6 DEF IInv, Pinning, Pinned
<1> QED
  BY <1>6, <1>2, <1>3, <1>4, <1>5 DEF OwnersChangeFor

\* Releasing the owner of a device is such a change.
LEMMA ReleaseChanges ==
  ASSUME NEW d \in Devices, IInv, owners' = Released(d)
  PROVE  /\ OwnersChangeFor(d)
         /\ \A i \in Entries : owners'.entry[i].state = "RETAINED" => owners'.pinned \/ fatal.pinned
<1>1. owners \in OwnerRegistry /\ hw \in [Devices -> Hw]
  BY DEF IInv, TypeOK
<1>2. CASE hw[d].handle = NoEntry
  <2>1. owners' = owners
    BY <1>2 DEF Released
  <2> QED
    BY <1>1, <2>1 DEF OwnersChangeFor, IInv, Pinning, Pinned
<1>3. CASE hw[d].handle # NoEntry
  <2>1. hw[d].handle \in Entries /\ owners' = ReleaseOwner(owners, hw[d].handle, d)
    BY <1>1, <1>3 DEF Released, Hw
  <2>2. /\ owners' \in OwnerRegistry /\ owners'.pinned = owners.pinned
        /\ \A j \in Entries :
             \/ owners'.entry[j] = owners.entry[j]
             \/ /\ owners'.entry[j] = EmptyEntry
                /\ owners.entry[j].state = "LIVE"
                /\ owners.entry[j].id = d
    BY <1>1, <2>1, ReleaseEffect
  <2>3. \A e \in Devices : e # d /\ hw[e].handle # NoEntry =>
          hw[e].handle \in Entries /\ owners.entry[hw[e].handle].id = e
    BY <1>1 DEF IInv, Handles, Hw
  <2> QED
    BY <1>1, <2>2, <2>3 DEF OwnersChangeFor, IInv, Pinning, Pinned, EmptyEntry
<1> QED
  BY <1>2, <1>3

\* Retaining on behalf of a failed device leaves an entry for what it holds.
LEMMA RetainChanges ==
  ASSUME NEW d \in Devices, IInv, owners' = Retained(d)
  PROVE  /\ OwnersChangeFor(d)
         /\ \A i \in Entries : owners'.entry[i].state = "RETAINED" => owners'.pinned \/ fatal.pinned
         /\ EnsuredHandle(d) \in Entries \cup {NoEntry}
         /\ hw[d].handle # NoEntry => EnsuredHandle(d) = hw[d].handle
         /\ EnsuredHandle(d) # NoEntry =>
              /\ owners'.entry[EnsuredHandle(d)].id = d
              /\ owners'.entry[EnsuredHandle(d)].state = "RETAINED"
<1>1. owners \in OwnerRegistry /\ hw \in [Devices -> Hw]
  BY DEF IInv, TypeOK
<1> DEFINE o == Ensured(d)
           h == EnsuredHandle(d)
           p == ~fatal.pinned
<1>2. /\ o \in OwnerRegistry /\ (owners.pinned => o.pinned)
      /\ \A i \in Entries : owners.entry[i].state # "FREE" => o.entry[i] = owners.entry[i]
      /\ \A i \in Entries :
           o.entry[i].state = "RETAINED" => owners.entry[i].state = "RETAINED"
      /\ h # NoEntry => /\ h \in Entries
                        /\ o.entry[h].id = d
                        /\ o.entry[h].state \in {"LIVE", "RETAINED"}
  <2>1. CASE hw[d].handle # NoEntry
    BY <1>1, <2>1 DEF Ensured, EnsuredHandle, IInv, Handles, Hw
  <2>2. CASE hw[d].handle = NoEntry
    <3>1. o = Create(owners, d)
      BY <2>2 DEF Ensured
    <3>5. /\ Create(owners, d) \in OwnerRegistry
          /\ Create(owners, d).pinned = owners.pinned
          /\ \A i \in Entries :
               owners.entry[i] # EmptyEntry => Create(owners, d).entry[i] = owners.entry[i]
          /\ \A i \in Entries :
               \/ Create(owners, d).entry[i] = owners.entry[i]
               \/ Create(owners, d).entry[i] = [state |-> "LIVE", id |-> d]
          /\ CreateResult(owners, d) = "OK" =>
               /\ FirstFree(owners) \in Entries
               /\ Create(owners, d).entry[FirstFree(owners)] = [state |-> "LIVE", id |-> d]
      BY <1>1, CreateEffect, Zenon
    <3>4. /\ o \in OwnerRegistry /\ o.pinned = owners.pinned
          /\ \A i \in Entries : owners.entry[i] # EmptyEntry => o.entry[i] = owners.entry[i]
          /\ \A i \in Entries :
               \/ o.entry[i] = owners.entry[i]
               \/ o.entry[i] = [state |-> "LIVE", id |-> d]
          /\ CreateResult(owners, d) = "OK" =>
               /\ FirstFree(owners) \in Entries
               /\ o.entry[FirstFree(owners)] = [state |-> "LIVE", id |-> d]
      <4> HIDE DEF o, h
      <4> QED
        BY <3>1, <3>5, Zenon
    <3>2. CASE CreateResult(owners, d) = "OK"
      <4>1. h = FirstFree(owners)
        BY <2>2, <3>2 DEF EnsuredHandle
      <4> HIDE DEF o, h
      <4> QED
        BY <1>1, <3>2, <3>4, <4>1 DEF EmptyEntry
    <3>3. CASE CreateResult(owners, d) # "OK"
      <4>1. h = NoEntry
        BY <2>2, <3>3 DEF EnsuredHandle
      <4> HIDE DEF o, h
      <4> QED
        BY <1>1, <3>4, <4>1 DEF EmptyEntry
    <3> QED
      BY <3>2, <3>3
  <2> QED
    BY <2>1, <2>2
<1>3. hw[d].handle # NoEntry => h = hw[d].handle
  BY DEF EnsuredHandle
<1>4. owners' = IF h = NoEntry THEN o ELSE RetainOwner(o, h, p)
  BY DEF Retained
<1>5. \A e \in Devices : hw[e].handle # NoEntry =>
        /\ hw[e].handle \in Entries
        /\ owners.entry[hw[e].handle].state # "FREE"
        /\ owners.entry[hw[e].handle].id = e
  BY <1>1 DEF IInv, Handles, Hw
<1>8. \A i \in Entries : owners.entry[i].state = "RETAINED" => owners.pinned \/ fatal.pinned
  BY DEF IInv, Pinning, Pinned
<1>9. p \in BOOLEAN /\ (p \/ fatal.pinned)
  OBVIOUS
<1> HIDE DEF o, h, p
<1>6. CASE h = NoEntry
  <2>1. owners' = o
    BY <1>4, <1>6
  <2> QED
    BY <1>1, <1>2, <1>3, <1>5, <1>6, <1>8, <2>1 DEF OwnersChangeFor, h
<1>7. CASE h # NoEntry
  <2>1. owners' = RetainOwner(o, h, p) /\ h \in Entries
    BY <1>2, <1>4, <1>7
  <2>7. p \in BOOLEAN /\ h \in Entries /\ o \in OwnerRegistry
    BY <1>2, <1>9, <2>1
  <2>8. /\ RetainOwner(o, h, p) \in OwnerRegistry
        /\ o.pinned => RetainOwner(o, h, p).pinned
        /\ \A j \in Entries :
             /\ RetainOwner(o, h, p).entry[j].id = o.entry[j].id
             /\ o.entry[j].state # "LIVE" =>
                  RetainOwner(o, h, p).entry[j] = o.entry[j]
             /\ j # h => RetainOwner(o, h, p).entry[j] = o.entry[j]
        /\ o.entry[h].state = "LIVE" =>
             /\ RetainOwner(o, h, p).entry[h].state = "RETAINED"
             /\ p => RetainOwner(o, h, p).pinned
    BY <2>7, RetainEffect, Zenon
  <2>2. /\ owners' \in OwnerRegistry
        /\ o.pinned => owners'.pinned
        /\ \A j \in Entries :
             /\ owners'.entry[j].id = o.entry[j].id
             /\ o.entry[j].state # "LIVE" => owners'.entry[j] = o.entry[j]
             /\ j # h => owners'.entry[j] = o.entry[j]
        /\ o.entry[h].state = "LIVE" =>
             /\ owners'.entry[h].state = "RETAINED"
             /\ p => owners'.pinned
    BY <2>1, <2>8, Zenon
  <2>3. owners'.pinned \/ fatal.pinned
    <3>1. CASE o.entry[h].state = "LIVE"
      BY <1>9, <2>2, <3>1
    <3>2. CASE o.entry[h].state = "RETAINED"
      BY <1>2, <1>8, <2>1, <2>2, <3>2
    <3> QED
      BY <1>2, <1>7, <3>1, <3>2
  <2>5. owners'.entry[h].id = d /\ owners'.entry[h].state = "RETAINED"
    BY <1>2, <1>7, <2>1, <2>2
  <2>6. \A e \in Devices : e # d /\ hw[e].handle # NoEntry => hw[e].handle # h
    BY <1>2, <1>5, <1>7
  <2>9. OwnersChangeFor(d)
    <3>1. \A j \in Entries :
            owners.entry[j].state = "RETAINED" => owners'.entry[j] = owners.entry[j]
      BY <1>2, <2>2
    <3>2. \A e \in Devices : e # d /\ hw[e].handle # NoEntry =>
            owners'.entry[hw[e].handle] = owners.entry[hw[e].handle]
      BY <1>2, <1>5, <2>2, <2>6
    <3>3. \A j \in Entries : owners'.entry[j].state = "RETAINED" =>
            owners.entry[j].state = "RETAINED" \/ owners'.entry[j].id = d
      BY <1>2, <2>2, <2>5
    <3>4. owners.pinned => owners'.pinned
      BY <1>2, <2>2
    <3> QED
      BY <2>2, <3>1, <3>2, <3>3, <3>4 DEF OwnersChangeFor
  <2> QED
    BY <1>3, <2>1, <2>3, <2>5, <2>9 DEF h
<1> QED
  BY <1>6, <1>7

\* The handle a device holds behind it; no memory for the owner leaves none.
KeptHandle(d) == IF owners' = Retained(d) THEN EnsuredHandle(d) ELSE NoEntry

\* The same when there may be no memory for an owner made that late.
LEMMA KeepChanges ==
  ASSUME NEW d \in Devices, IInv, owners' \in Keeps(d)
  PROVE  /\ OwnersChangeFor(d)
         /\ \A i \in Entries : owners'.entry[i].state = "RETAINED" => owners'.pinned \/ fatal.pinned
         /\ KeptHandle(d) \in Entries \cup {NoEntry}
         /\ hw[d].handle # NoEntry => KeptHandle(d) = hw[d].handle
         /\ KeptHandle(d) # NoEntry =>
              /\ owners'.entry[KeptHandle(d)].id = d
              /\ owners'.entry[KeptHandle(d)].state = "RETAINED"
<1>1. CASE owners' = Retained(d)
  <2>1. KeptHandle(d) = EnsuredHandle(d)
    BY <1>1 DEF KeptHandle
  <2> QED
    BY <1>1, <2>1, RetainChanges, Zenon
<1>2. CASE owners' # Retained(d)
  <2>1. owners' = owners /\ hw[d].handle = NoEntry /\ KeptHandle(d) = NoEntry
    BY <1>2 DEF Keeps, KeptHandle
  <2> QED
    BY <2>1 DEF IInv, TypeOK, Pinning, Pinned, OwnersChangeFor
<1> QED
  BY <1>1, <1>2

\* The new owner is the one its device holds a handle to.
LEMMA EnsureOwnerIInv ==
  ASSUME NEW d \in Devices, IInv, EnsureOwner(d)
  PROVE  IInv'
<1>1. /\ hw \in [Devices -> Hw] /\ owners \in OwnerRegistry /\ fatal \in FatalRegistry
      /\ memory \subseteq Devices /\ engine \in [Devices -> SUBSET Channels]
      /\ unloading \in BOOLEAN /\ doomed \subseteq Devices
  BY DEF IInv, TypeOK
<1>2. /\ OwnersChangeFor(d)
      /\ \A i \in Entries : owners'.entry[i].state = "RETAINED" => owners'.pinned \/ fatal.pinned
      /\ CreateResult(owners, d) = "OK" =>
           /\ FirstFree(owners) \in Entries
           /\ owners'.entry[FirstFree(owners)] = [state |-> "LIVE", id |-> d]
  BY CreateChanges DEF EnsureOwner
<1>3. /\ UNCHANGED <<fatal, memory, engine, unloading, doomed>> /\ At(d, "owner")
      /\ \A e \in Devices : e # d => hw'[e] = hw[e]
  BY <1>1 DEF EnsureOwner, FailTo
<1>13. ASSUME CreateResult(owners, d) = "OK"
       PROVE  hw' \in [Devices -> Hw]
  <2>1. hw' = [hw EXCEPT ![d] = [hw[d] EXCEPT !.stage = "alloc", !.handle = FirstFree(owners)]]
    BY <1>1, <1>13 DEF EnsureOwner
  <2>3. hw[d] \in Hw /\ "alloc" \in Stages /\ FirstFree(owners) \in Entries \cup {NoEntry}
    BY <1>1, <1>2, <1>13 DEF Stages
  <2>2. [hw[d] EXCEPT !.stage = "alloc", !.handle = FirstFree(owners)] \in Hw
    BY <2>3, HwFields, Zenon
  <2> QED
    BY <1>1, <2>1, <2>2
<1>14. ASSUME CreateResult(owners, d) # "OK"
       PROVE  hw' \in [Devices -> Hw]
  <2>1. hw' = [hw EXCEPT ![d] = [hw[d] EXCEPT !.stage = "teardown", !.failed = TRUE]]
    BY <1>1, <1>14 DEF EnsureOwner, FailTo
  <2>3. hw[d] \in Hw /\ "teardown" \in Stages
    BY <1>1 DEF Stages
  <2>2. [hw[d] EXCEPT !.stage = "teardown", !.failed = TRUE] \in Hw
    BY <2>3, HwFields, Zenon
  <2> QED
    BY <1>1, <2>1, <2>2
<1>4. hw' \in [Devices -> Hw]
  BY <1>13, <1>14
<1>5. /\ \/ /\ hw'[d].stage = "alloc" /\ hw'[d].handle \in Entries
            /\ owners'.entry[hw'[d].handle].id = d
            /\ owners'.entry[hw'[d].handle].state = "LIVE"
         \/ /\ hw'[d].stage = "teardown" /\ hw'[d].handle = NoEntry
      /\ hw'[d].programmed = hw[d].programmed
      /\ hw'[d].lost = hw[d].lost /\ hw'[d].fatal = hw[d].fatal
  BY <1>1, <1>2, <1>3 DEF EnsureOwner, FailTo, At, IInv, Handles, Unowned, Hw
<1>6. TypeOK'
  BY <1>1, <1>2, <1>3, <1>4 DEF TypeOK, OwnersChangeFor
<1>7. Exclusive'
  BY <1>1, <1>3, <1>4, <1>5 DEF IInv, Exclusive, SameSlot, At
<1>8. Handles'
  <2>1. SUFFICES ASSUME NEW e \in Devices
                 PROVE  /\ hw'[e].stage \in Unowned => hw'[e].handle = NoEntry
                        /\ hw'[e].stage \in {"alloc", "program", "live"} => hw'[e].handle # NoEntry
                        /\ hw'[e].stage = "retain" /\ ~hw'[e].fatal => hw'[e].handle # NoEntry
                        /\ hw'[e].handle # NoEntry =>
                             /\ owners'.entry[hw'[e].handle].id = e
                             /\ owners'.entry[hw'[e].handle].state \in {"LIVE", "RETAINED"}
    BY DEF Handles, At
  <2>2. CASE e = d
    <3>1. NoEntry \notin Entries
      BY DEF NoEntry, Entries
    <3> QED
      BY <1>5, <2>2, <3>1 DEF Unowned
  <2>3. CASE e # d
    BY <1>2, <1>3, <2>3 DEF IInv, Handles, Unowned, OwnersChangeFor, At
  <2> QED
    BY <2>2, <2>3
<1>9. Accounting'
  <2>1. \A e \in Devices : OwnedBy(e, {"RETAINED"}) => OwnedBy(e, {"RETAINED"})'
    BY <1>2, RetainedStays
  <2> QED
    BY <1>1, <1>3, <1>4, <1>5, <2>1 DEF IInv, Handles, Accounting, Unowned, NoMemoryYet, At
<1>10. Pinning'
  BY <1>1, <1>2, <1>3, <1>4, <1>5 DEF IInv, Pinning, Pinned, OwnersChangeFor, At
<1>11. Refusing' /\ NeverDrivenAgain'
  <2>1. /\ \A e \in Devices : RetainedFor(owners, e) => RetainedFor(owners', e)
        /\ \A e \in Devices : At(e, "guarded") => ~RetainedFor(owners', e)
    BY <1>2, <1>3, OwnersRefuse DEF At
  <2> QED
    BY <1>1, <1>3, <1>4, <1>5, <2>1 DEF IInv, Exclusive, Refusing, NeverDrivenAgain, SameSlot, At
<1>12. Engines' /\ NoTxAfterFree'
  BY <1>1, <1>3, <1>4, <1>5 DEF IInv, Engines, NoTxAfterFree, Accounting, Unowned, NoMemoryYet, At
<1> QED
  BY <1>6, <1>7, <1>8, <1>9, <1>10, <1>11, <1>12 DEF IInv

\* The owner is released while there is no memory yet.
LEMMA PoolFailsIInv ==
  ASSUME NEW d \in Devices, IInv, PoolFails(d)
  PROVE  IInv'
<1>1. /\ hw \in [Devices -> Hw] /\ owners \in OwnerRegistry /\ fatal \in FatalRegistry
      /\ memory \subseteq Devices /\ engine \in [Devices -> SUBSET Channels]
      /\ unloading \in BOOLEAN /\ doomed \subseteq Devices
  BY DEF IInv, TypeOK
<1>2. /\ OwnersChangeFor(d)
      /\ \A i \in Entries : owners'.entry[i].state = "RETAINED" => owners'.pinned \/ fatal.pinned
  BY ReleaseChanges DEF PoolFails
<1>3. /\ UNCHANGED <<fatal, memory, engine, unloading, doomed>> /\ At(d, "alloc")
      /\ \A e \in Devices : e # d => hw'[e] = hw[e]
  BY <1>1 DEF PoolFails
<1>4. hw' \in [Devices -> Hw]
  <2>1. hw' = [hw EXCEPT ![d] = [hw[d] EXCEPT !.stage = "teardown", !.failed = TRUE,
                                              !.handle = NoEntry]]
    BY <1>1 DEF PoolFails
  <2>3. hw[d] \in Hw /\ "teardown" \in Stages /\ NoEntry \in Entries \cup {NoEntry}
    BY <1>1 DEF Stages
  <2>2. [hw[d] EXCEPT !.stage = "teardown", !.failed = TRUE, !.handle = NoEntry] \in Hw
    BY <2>3, HwFields, Zenon
  <2> QED
    BY <1>1, <2>1, <2>2
<1>5. /\ hw'[d].stage = "teardown" /\ hw'[d].handle = NoEntry
      /\ hw'[d].programmed = hw[d].programmed
      /\ hw'[d].lost = hw[d].lost /\ hw'[d].fatal = hw[d].fatal
  BY <1>1 DEF PoolFails, Hw
<1>6. TypeOK'
  BY <1>1, <1>2, <1>3, <1>4 DEF TypeOK, OwnersChangeFor
<1>7. Exclusive'
  BY <1>1, <1>3, <1>4, <1>5 DEF IInv, Exclusive, SameSlot, At
<1>8. Handles'
  BY <1>1, <1>2, <1>3, <1>4, <1>5 DEF IInv, Handles, Unowned, OwnersChangeFor, At
<1>9. Accounting'
  <2>1. \A e \in Devices : OwnedBy(e, {"RETAINED"}) => OwnedBy(e, {"RETAINED"})'
    BY <1>2, RetainedStays
  <2> QED
    BY <1>1, <1>3, <1>4, <1>5, <2>1 DEF IInv, Handles, Accounting, Unowned, NoMemoryYet, At
<1>10. Pinning'
  BY <1>1, <1>2, <1>3, <1>4, <1>5 DEF IInv, Pinning, Pinned, OwnersChangeFor, At
<1>11. Refusing' /\ NeverDrivenAgain'
  <2>1. /\ \A e \in Devices : RetainedFor(owners, e) => RetainedFor(owners', e)
        /\ \A e \in Devices : At(e, "guarded") => ~RetainedFor(owners', e)
    BY <1>2, <1>3, OwnersRefuse DEF At
  <2> QED
    BY <1>1, <1>3, <1>4, <1>5, <2>1 DEF IInv, Exclusive, Refusing, NeverDrivenAgain, SameSlot, At
<1>12. Engines' /\ NoTxAfterFree'
  BY <1>1, <1>3, <1>4, <1>5 DEF IInv, Engines, NoTxAfterFree, Accounting, Unowned, NoMemoryYet, At
<1> QED
  BY <1>6, <1>7, <1>8, <1>9, <1>10, <1>11, <1>12 DEF IInv

\* The owner is released after the memory was freed.
LEMMA FinishIInv ==
  ASSUME NEW d \in Devices, IInv, Finish(d)
  PROVE  IInv'
<1>1. /\ hw \in [Devices -> Hw] /\ owners \in OwnerRegistry /\ fatal \in FatalRegistry
      /\ memory \subseteq Devices /\ engine \in [Devices -> SUBSET Channels]
      /\ unloading \in BOOLEAN /\ doomed \subseteq Devices
  BY DEF IInv, TypeOK
<1>2. /\ OwnersChangeFor(d)
      /\ \A i \in Entries : owners'.entry[i].state = "RETAINED" => owners'.pinned \/ fatal.pinned
  BY ReleaseChanges DEF Finish
<1>3. /\ UNCHANGED <<fatal, memory, engine, unloading, doomed>> /\ At(d, "finish")
      /\ \A e \in Devices : e # d => hw'[e] = hw[e]
  BY <1>1 DEF Finish
<1>13. ASSUME hw[d].failed
       PROVE  hw' \in [Devices -> Hw]
  BY <1>1, <1>13 DEF Finish, Gone, Hw, Stages
<1>14. ASSUME ~hw[d].failed
       PROVE  hw' \in [Devices -> Hw]
  <2>1. hw' = [hw EXCEPT ![d] = [hw[d] EXCEPT !.stage = "bound", !.handle = NoEntry]]
    BY <1>1, <1>14 DEF Finish
  <2>3. hw[d] \in Hw /\ "bound" \in Stages /\ NoEntry \in Entries \cup {NoEntry}
    BY <1>1 DEF Stages
  <2>2. [hw[d] EXCEPT !.stage = "bound", !.handle = NoEntry] \in Hw
    BY <2>3, HwFields, Zenon
  <2> QED
    BY <1>1, <2>1, <2>2
<1>4. hw' \in [Devices -> Hw]
  BY <1>13, <1>14
<1>5. /\ hw'[d].handle = NoEntry
      /\ \/ /\ hw'[d].stage = "absent" /\ hw'[d].programmed = {}
            /\ ~hw'[d].lost /\ ~hw'[d].fatal
         \/ /\ hw'[d].stage = "bound" /\ hw'[d].programmed = hw[d].programmed
            /\ hw'[d].lost = hw[d].lost /\ hw'[d].fatal = hw[d].fatal
  <2>1. CASE hw[d].failed
    <3>1. hw'[d] = Gone
      BY <1>1, <2>1 DEF Finish
    <3> QED
      BY <3>1 DEF Gone
  <2>2. CASE ~hw[d].failed
    <3>1. hw'[d] = [hw[d] EXCEPT !.stage = "bound", !.handle = NoEntry] /\ hw[d] \in Hw
      BY <1>1, <2>2 DEF Finish
    <3> HIDE DEF Finish
    <3> QED
      BY <3>1 DEF Hw
  <2> QED
    BY <2>1, <2>2
<1>6. TypeOK'
  BY <1>1, <1>2, <1>3, <1>4 DEF TypeOK, OwnersChangeFor
<1>7. Exclusive'
  BY <1>1, <1>3, <1>4, <1>5 DEF IInv, Exclusive, SameSlot, At
<1>8. Handles'
  BY <1>1, <1>2, <1>3, <1>4, <1>5 DEF IInv, Handles, Unowned, OwnersChangeFor, At
<1>9. Accounting'
  <2>1. \A e \in Devices : OwnedBy(e, {"RETAINED"}) => OwnedBy(e, {"RETAINED"})'
    BY <1>2, RetainedStays
  <2> QED
    BY <1>1, <1>3, <1>4, <1>5, <2>1 DEF IInv, Handles, Accounting, Unowned, NoMemoryYet, At
<1>10. Pinning'
  BY <1>1, <1>2, <1>3, <1>4, <1>5 DEF IInv, Pinning, Pinned, OwnersChangeFor, At
<1>11. Refusing' /\ NeverDrivenAgain'
  <2>1. /\ \A e \in Devices : RetainedFor(owners, e) => RetainedFor(owners', e)
        /\ \A e \in Devices : At(e, "guarded") => ~RetainedFor(owners', e)
    BY <1>2, <1>3, OwnersRefuse DEF At
  <2> QED
    BY <1>1, <1>3, <1>4, <1>5, <2>1 DEF IInv, Exclusive, Refusing, NeverDrivenAgain, SameSlot, At
<1>12. Engines' /\ NoTxAfterFree'
  BY <1>1, <1>3, <1>4, <1>5 DEF IInv, Engines, NoTxAfterFree, Accounting, Unowned, NoMemoryYet, At
<1> QED
  BY <1>6, <1>7, <1>8, <1>9, <1>10, <1>11, <1>12 DEF IInv

\* The memory of a device that stays bound, or goes, has a retained owner.
LEMMA RetainIInv ==
  ASSUME NEW d \in Devices, IInv, Retain(d)
  PROVE  IInv'
<1>1. /\ hw \in [Devices -> Hw] /\ owners \in OwnerRegistry /\ fatal \in FatalRegistry
      /\ memory \subseteq Devices /\ engine \in [Devices -> SUBSET Channels]
      /\ unloading \in BOOLEAN /\ doomed \subseteq Devices
  BY DEF IInv, TypeOK
<1> DEFINE h == KeptHandle(d)
<1>2. /\ OwnersChangeFor(d)
      /\ \A i \in Entries : owners'.entry[i].state = "RETAINED" => owners'.pinned \/ fatal.pinned
      /\ h \in Entries \cup {NoEntry}
      /\ hw[d].handle # NoEntry => h = hw[d].handle
      /\ h # NoEntry =>
           /\ owners'.entry[h].id = d
           /\ owners'.entry[h].state = "RETAINED"
  BY KeepChanges DEF Retain
<1>3. /\ UNCHANGED <<fatal, memory, engine, unloading, doomed>> /\ At(d, "retain")
      /\ \A e \in Devices : e # d => hw'[e] = hw[e]
      /\ hw[d].lost \/ hw[d].fatal
      /\ ~hw[d].fatal => hw[d].handle # NoEntry
  BY <1>1 DEF Retain, IInv, Pinning, Handles
<1>13. IF hw[d].fatal
       THEN hw' = [hw EXCEPT ![d] = [hw[d] EXCEPT !.stage = "bound", !.handle = h]]
       ELSE hw' = [hw EXCEPT ![d] = Gone]
  BY <1>1 DEF Retain, KeptHandle
<1> HIDE DEF h
<1>4. hw' \in [Devices -> Hw]
  <2>3. hw[d] \in Hw /\ "bound" \in Stages /\ h \in Entries \cup {NoEntry}
    BY <1>1, <1>2 DEF Stages
  <2>2. [hw[d] EXCEPT !.stage = "bound", !.handle = h] \in Hw
    BY <2>3, HwFields, Zenon
  <2>4. Gone \in Hw
    BY DEF Gone, Hw, Stages
  <2> QED
    BY <1>1, <1>13, <2>2, <2>4
<1>5. \/ /\ hw[d].fatal
         /\ hw'[d].stage = "bound" /\ hw'[d].handle = h
         /\ hw'[d].programmed = hw[d].programmed
         /\ hw'[d].lost = hw[d].lost /\ hw'[d].fatal
      \/ /\ hw[d].handle # NoEntry
         /\ hw'[d].stage = "absent" /\ hw'[d].handle = NoEntry
         /\ hw'[d].programmed = {} /\ ~hw'[d].lost /\ ~hw'[d].fatal
  <2>1. CASE hw[d].fatal
    <3>1. hw' = [hw EXCEPT ![d] = [hw[d] EXCEPT !.stage = "bound", !.handle = h]]
      BY <1>13, <2>1
    <3> QED
      BY <1>1, <2>1, <3>1 DEF Hw
  <2>2. CASE ~hw[d].fatal
    <3>1. hw'[d] = Gone
      BY <1>1, <1>13, <2>2
    <3> QED
      BY <1>3, <2>2, <3>1 DEF Gone
  <2> QED
    BY <2>1, <2>2
<1>14. hw[d].handle # NoEntry => OwnedBy(d, {"RETAINED"})'
  BY <1>2 DEF OwnedBy
<1>6. TypeOK'
  BY <1>1, <1>2, <1>3, <1>4 DEF TypeOK, OwnersChangeFor
<1>7. Exclusive'
  BY <1>1, <1>3, <1>4, <1>5 DEF IInv, Exclusive, SameSlot, At
<1>8. Handles'
  BY <1>1, <1>2, <1>3, <1>4, <1>5 DEF IInv, Handles, Unowned, OwnersChangeFor, At
<1>9. Accounting'
  <2>1. \A e \in Devices : OwnedBy(e, {"RETAINED"}) => OwnedBy(e, {"RETAINED"})'
    BY <1>2, RetainedStays
  <2> QED
    BY <1>1, <1>2, <1>3, <1>4, <1>5, <1>14, <2>1
       DEF IInv, Handles, Accounting, Unowned, NoMemoryYet, At
<1>10. Pinning'
  <2>1. hw[d].handle # NoEntry => Pinned'
    BY <1>2, <1>3 DEF Pinned
  <2>2. Pinned => Pinned'
    BY <1>2, <1>3 DEF Pinned, OwnersChangeFor
  <2>3. ~unloading
    BY <1>3 DEF IInv, Pinning, At
  <2> QED
    BY <1>1, <1>2, <1>3, <1>4, <1>5, <2>1, <2>2, <2>3 DEF IInv, Pinning, Pinned, At
<1>11. Refusing' /\ NeverDrivenAgain'
  <2>1. hw[d].handle # NoEntry =>
          \A e \in Devices : SameSlot(d, e) => RetainedFor(owners', e)
    BY <1>2, <1>3 DEF RetainedFor
  <2>2. /\ \A e \in Devices : RetainedFor(owners, e) => RetainedFor(owners', e)
        /\ \A e \in Devices : At(e, "guarded") => ~RetainedFor(owners', e)
    BY <1>2, <1>3, OwnersRefuse DEF At
  <2>3. \A c \in doomed, e \in Devices :
          SameSlot(c, e) => \/ FatalRefused(fatal, e)
                           \/ RetainedFor(owners', e)
                           \/ (c # d /\ At(c, "retain") /\ ~hw[c].fatal)
    BY <1>3, <2>1, <2>2 DEF IInv, Refusing, At
  <2> QED
    BY <1>1, <1>3, <1>4, <1>5, <2>1, <2>2, <2>3 DEF IInv, Exclusive, Refusing, NeverDrivenAgain, SameSlot, At
<1>12. Engines' /\ NoTxAfterFree'
  BY <1>1, <1>3, <1>4, <1>5 DEF IInv, Engines, NoTxAfterFree, Accounting, Unowned, NoMemoryYet, At
<1> QED
  BY <1>6, <1>7, <1>8, <1>9, <1>10, <1>11, <1>12 DEF IInv

\* When struct ob_hw goes, a retained owner holds what it left.
LEMMA RemoveIInv ==
  ASSUME NEW d \in Devices, IInv, Remove(d)
  PROVE  IInv'
<1>1. /\ hw \in [Devices -> Hw] /\ owners \in OwnerRegistry /\ fatal \in FatalRegistry
      /\ memory \subseteq Devices /\ engine \in [Devices -> SUBSET Channels]
      /\ unloading \in BOOLEAN /\ doomed \subseteq Devices
  BY DEF IInv, TypeOK
<1>2. /\ OwnersChangeFor(d)
      /\ \A i \in Entries : owners'.entry[i].state = "RETAINED" => owners'.pinned \/ fatal.pinned
      /\ hw[d].fatal /\ hw[d].handle # NoEntry =>
           \E i \in Entries : owners'.entry[i].id = d /\ owners'.entry[i].state = "RETAINED"
  <2>1. CASE hw[d].fatal
    BY <1>1, <2>1, KeepChanges DEF Remove
  <2>2. CASE ~hw[d].fatal
    <3>1. owners' = owners
      BY <2>2 DEF Remove
    <3> QED
      BY <1>1, <2>2, <3>1 DEF OwnersChangeFor, IInv, Pinning, Pinned
  <2> QED
    BY <2>1, <2>2
<1>3. /\ UNCHANGED <<fatal, memory, engine, unloading, doomed>> /\ At(d, "bound")
      /\ \A e \in Devices : e # d => hw'[e] = hw[e]
  BY <1>1 DEF Remove
<1>4. hw' \in [Devices -> Hw]
  BY <1>1 DEF Remove, Gone, Hw, Stages
<1>5. hw'[d] = Gone /\ Gone.handle = NoEntry /\ Gone.stage = "absent"
      /\ Gone.programmed = {} /\ Gone.lost = FALSE /\ Gone.fatal = FALSE
  BY <1>1 DEF Remove, Gone
<1>6. TypeOK'
  BY <1>1, <1>2, <1>3, <1>4 DEF TypeOK, OwnersChangeFor
<1>7. Exclusive'
  BY <1>1, <1>3, <1>4, <1>5 DEF IInv, Exclusive, SameSlot, At
<1>8. Handles'
  BY <1>1, <1>2, <1>3, <1>4, <1>5 DEF IInv, Handles, Unowned, OwnersChangeFor, At
<1>9. Accounting'
  <2>1. \A e \in Devices : OwnedBy(e, {"RETAINED"}) => OwnedBy(e, {"RETAINED"})'
    BY <1>2, RetainedStays
  <2>2. d \in memory => OwnedBy(d, {"RETAINED"})'
    <3>1. SUFFICES ASSUME d \in memory
                   PROVE  OwnedBy(d, {"RETAINED"})'
      OBVIOUS
    <3>2. hw[d].fatal /\ hw[d].handle # NoEntry
      BY <1>3, <3>1 DEF IInv, Accounting, At
    <3> QED
      BY <1>2, <3>2 DEF OwnedBy
  <2> QED
    BY <1>1, <1>3, <1>4, <1>5, <2>1, <2>2 DEF IInv, Handles, Accounting, Unowned, NoMemoryYet, At
<1>10. Pinning'
  <2>1. Pinned => Pinned'
    BY <1>2, <1>3 DEF Pinned, OwnersChangeFor
  <2>2. unloading => ~Pinned'
    <3>1. SUFFICES ASSUME unloading
                   PROVE  ~Pinned'
      OBVIOUS
    <3>2. ~Pinned /\ ~hw[d].fatal
      BY <3>1 DEF IInv, Pinning, Pinned
    <3>3. owners' = owners
      BY <3>2 DEF Remove
    <3> QED
      BY <1>3, <3>2, <3>3 DEF Pinned
  <2> QED
    BY <1>1, <1>2, <1>3, <1>4, <1>5, <2>1, <2>2 DEF IInv, Pinning, Pinned, At
<1>11. Refusing' /\ NeverDrivenAgain'
  <2>1. /\ \A e \in Devices : RetainedFor(owners, e) => RetainedFor(owners', e)
        /\ \A e \in Devices : At(e, "guarded") => ~RetainedFor(owners', e)
    BY <1>2, <1>3, OwnersRefuse DEF At
  <2> QED
    BY <1>1, <1>3, <1>4, <1>5, <2>1 DEF IInv, Exclusive, Refusing, NeverDrivenAgain, SameSlot, At
<1>12. Engines' /\ NoTxAfterFree'
  BY <1>1, <1>3, <1>4, <1>5 DEF IInv, Engines, NoTxAfterFree, Accounting, Unowned, NoMemoryYet, At
<1> QED
  BY <1>6, <1>7, <1>8, <1>9, <1>10, <1>11, <1>12 DEF IInv

\* Unloading begins only while nothing is pinned and no probe runs.
LEMMA BeginUnloadIInv ==
  ASSUME ~ProbeDuringUnload, IInv, BeginUnload
  PROVE  IInv'
<1>1. /\ ~owners.pinned /\ ~fatal.pinned /\ Idle /\ unloading'
      /\ UNCHANGED <<hw, owners, fatal, memory, engine, doomed>>
  BY DEF BeginUnload, Pinned
<1>2. TypeOK' /\ Exclusive' /\ Handles' /\ Accounting'
  BY <1>1 DEF IInv, BeginUnload, TypeOK, Exclusive, Handles, Accounting, OwnedBy, At
<1>3. Pinning'
  BY <1>1 DEF IInv, Pinning, Pinned, Idle, At
<1>4. Refusing' /\ NeverDrivenAgain' /\ Engines' /\ NoTxAfterFree'
  BY <1>1 DEF IInv, Refusing, NeverDrivenAgain, Engines, NoTxAfterFree, At
<1> QED
  BY <1>2, <1>3, <1>4 DEF IInv

\* When unloading ends there is nothing that could have been forgotten.
LEMMA NothingLeft ==
  ASSUME IInv, EndUnload
  PROVE  /\ memory = {}
         /\ doomed = {}
         /\ \A i \in Entries : owners.entry[i].state # "RETAINED"
<1>1. ~owners.pinned /\ ~fatal.pinned /\ \A d \in Devices : At(d, "absent")
  BY DEF IInv, Pinning, Pinned, EndUnload
<1>2. doomed = {} /\ \A i \in Entries : owners.entry[i].state # "RETAINED"
  BY <1>1 DEF IInv, TypeOK, Pinning, Pinned, At
<1>3. memory = {}
  BY <1>1, <1>2 DEF IInv, TypeOK, Handles, Accounting, Unowned, OwnedBy, At
<1> QED
  BY <1>2, <1>3

\* A fresh module starts from empty registries, and nothing else is left.
LEMMA EndUnloadIInv ==
  ASSUME IInv, EndUnload
  PROVE  IInv'
<1>1. /\ memory = {} /\ doomed = {}
      /\ \A d \in Devices : hw[d].stage = "absent" /\ hw[d].handle = NoEntry
      /\ \A d \in Devices : ~hw[d].lost /\ ~hw[d].fatal
      /\ UNCHANGED <<hw, memory, engine, doomed>>
      /\ owners' = NoOwners /\ fatal' = NoFatal /\ unloading' = FALSE
  BY NothingLeft DEF EndUnload, IInv, Handles, Pinning, Pinned, Unowned, At
<1>2. NoOwners \in OwnerRegistry /\ ~NoOwners.pinned
  BY DEF NoOwners, OwnerRegistry
<1>3. \A i \in Entries : NoOwners.entry[i].state = "FREE"
  BY DEF NoOwners, EmptyEntry
<1>4. NoFatal \in FatalRegistry
  BY DEF NoFatal, FatalRegistry
<1>5. TypeOK'
  BY <1>1, <1>2, <1>4 DEF IInv, TypeOK
<1>6. Exclusive' /\ Handles' /\ Accounting'
  BY <1>1 DEF IInv, Exclusive, Handles, Accounting, At, NoMemoryYet
<1>7. Pinning'
  BY <1>1, <1>2, <1>3 DEF Pinning, Pinned, At
<1>8. Refusing' /\ NeverDrivenAgain' /\ Engines' /\ NoTxAfterFree'
  BY <1>1 DEF IInv, Refusing, NeverDrivenAgain, Engines, NoTxAfterFree, Unowned, At
<1> QED
  BY <1>5, <1>6, <1>7, <1>8 DEF IInv

\* A fresh boot satisfies the invariant.
LEMMA InitIInv ==
  ASSUME Init
  PROVE  IInv
<1> USE DEF Init
<1>1. /\ Gone \in Hw /\ Gone.stage = "absent" /\ Gone.handle = NoEntry
      /\ Gone.programmed = {} /\ ~Gone.lost /\ ~Gone.fatal
  BY DEF Gone, Hw, Stages
<1>2. NoOwners \in OwnerRegistry /\ ~NoOwners.pinned
  BY DEF NoOwners, OwnerRegistry
<1>3. \A i \in Entries : NoOwners.entry[i].state = "FREE"
  BY DEF NoOwners, EmptyEntry
<1>4. NoFatal \in FatalRegistry
  BY DEF NoFatal, FatalRegistry
<1>5. TypeOK
  BY <1>1, <1>2, <1>4 DEF TypeOK
<1>6. Exclusive /\ Handles /\ Accounting
  BY <1>1 DEF Exclusive, Handles, Accounting, At, NoMemoryYet
<1>7. Pinning
  BY <1>1, <1>2, <1>3 DEF Pinning, Pinned, At
<1>8. Refusing /\ NeverDrivenAgain /\ Engines /\ NoTxAfterFree
  BY <1>1 DEF Refusing, NeverDrivenAgain, Engines, NoTxAfterFree, Unowned, At
<1> QED
  BY <1>5, <1>6, <1>7, <1>8 DEF IInv

\* Every step of a device preserves it.
LEMMA StepIInv ==
  ASSUME IInv, NEW d \in Devices, Step(d)
  PROVE  IInv'
BY GuardOwnerIInv, GuardFatalIInv, PreflightIInv, PrefixIInv, PrefixFailsIInv, PrefixLostIInv,
   EnsureOwnerIInv, PoolFailsIInv, AllocateIInv, AllocateFailsIInv, ProgramTxIInv,
   ProgramTxLostIInv, ProgramRxIInv, ProgramRxFailsIInv, ProgramRxLostIInv, LiveIInv,
   LiveLostIInv, LiveStalledIInv, EnsureOwnerNoMemIInv, TeardownLostIInv, QuiesceLostIInv, QuiesceOkIInv, QuiesceFailsIInv,
   FreeMemIInv, FinishIInv, RetainIInv, RemoveIInv, Zenon DEF Step

\* Every step preserves it, if no probe runs while the module unloads.
LEMMA NextIInv ==
  ASSUME ~ProbeDuringUnload, IInv, [Next]_vars
  PROVE  IInv'
<1>1. CASE Next
  BY <1>1, StepIInv, BeginUnloadIInv, EndUnloadIInv DEF Next
<1>2. CASE UNCHANGED vars
  <2>1. TypeOK' /\ Exclusive' /\ Handles' /\ Accounting'
    BY <1>2 DEF IInv, vars, TypeOK, Exclusive, Handles, Accounting, OwnedBy, At
  <2>2. Pinning' /\ Refusing'
    BY <1>2 DEF IInv, vars, Pinning, Pinned, Refusing, At
  <2>3. NeverDrivenAgain' /\ Engines' /\ NoTxAfterFree'
    BY <1>2 DEF IInv, vars, NeverDrivenAgain, Engines, NoTxAfterFree, At
  <2> QED
    BY <2>1, <2>2, <2>3 DEF IInv
<1> QED
  BY <1>1, <1>2

\* The inductive invariant always holds.
LEMMA SpecIInv ==
  ASSUME ~ProbeDuringUnload
  PROVE  Spec => []IInv
<1>1. Init => IInv
  BY InitIInv
<1>2. IInv /\ [Next]_vars => IInv'
  BY NextIInv
<1> QED
  BY <1>1, <1>2, PTL DEF Spec

\* The variables keep the types of the C structures.
THEOREM TypeCorrect ==
  ASSUME ~ProbeDuringUnload
  PROVE  Spec => []TypeOK
<1>1. IInv => TypeOK
  BY DEF IInv
<1> QED
  BY <1>1, SpecIInv, PTL

\* Whatever fails and wherever, memory a device may write to always has an
\* owner that outlives struct ob_hw, for registries of any capacity.
THEOREM MemoryIsAccountable ==
  ASSUME ~ProbeDuringUnload
  PROVE  Spec => []MemoryAccountable
<1>1. IInv => MemoryAccountable
  <2>1. SUFFICES ASSUME IInv, NEW d \in memory
                 PROVE  OwnedBy(d, IF At(d, "absent") THEN {"RETAINED"} ELSE {"LIVE", "RETAINED"})
    BY DEF MemoryAccountable
  <2>2. d \in Devices /\ hw[d].handle \in Entries \cup {NoEntry}
    BY <2>1 DEF IInv, TypeOK, Hw
  <2>3. CASE hw[d].handle = NoEntry
    BY <2>1, <2>2, <2>3 DEF IInv, Accounting
  <2>4. CASE hw[d].handle # NoEntry
    BY <2>1, <2>2, <2>4 DEF IInv, Handles, Unowned, OwnedBy, At
  <2> QED
    BY <2>3, <2>4
<1> QED
  BY <1>1, SpecIInv, PTL

\* Once the DMA of a device was given up, no board in its slot is driven until
\* a reboot, even if the fatal registry had no room for it.
THEOREM SlotNeverDrivenAgain ==
  ASSUME ~ProbeDuringUnload
  PROVE  Spec => []NeverDrivenAgain
<1>1. IInv => NeverDrivenAgain
  BY DEF IInv
<1> QED
  BY <1>1, SpecIInv, PTL

\* A TX engine never runs over memory that was freed.
THEOREM TxEnginesStopFirst ==
  ASSUME ~ProbeDuringUnload
  PROVE  Spec => []NoTxAfterFree
<1>1. IInv => NoTxAfterFree
  BY DEF IInv
<1> QED
  BY <1>1, SpecIInv, PTL

\* One step of a device leaves the retained owners alone.
LEMMA StepKeepsRetained ==
  ASSUME IInv, NEW d \in Devices, Step(d), NEW i \in Entries,
         owners.entry[i].state = "RETAINED"
  PROVE  owners'.entry[i] = owners.entry[i]
<1>1. CASE UNCHANGED owners
  BY <1>1
<1>2. CASE OwnersChangeFor(d)
  BY <1>2 DEF OwnersChangeFor
<1>3. CASE EnsureOwner(d)
  BY <1>2, <1>3, CreateChanges DEF EnsureOwner
<1>4. CASE PoolFails(d) \/ Finish(d)
  BY <1>2, <1>4, ReleaseChanges DEF PoolFails, Finish
<1>5. CASE Retain(d)
  BY <1>2, <1>5, KeepChanges DEF Retain
<1>6. CASE Remove(d)
  <2>1. CASE hw[d].fatal
    BY <1>2, <1>6, <2>1, KeepChanges DEF Remove
  <2>2. CASE ~hw[d].fatal
    BY <1>1, <1>6, <2>2 DEF Remove
  <2> QED
    BY <2>1, <2>2
<1>7. EnsureOwner(d) \/ PoolFails(d) \/ Finish(d) \/ Retain(d) \/ Remove(d) \/ UNCHANGED owners
  BY DEF Step, GuardOwner, GuardFatal, Preflight, Prefix, PrefixFails, PrefixLost, Allocate,
         AllocateFails, ProgramTx, ProgramTxLost, ProgramRx, ProgramRxFails, ProgramRxLost,
         Live, LiveLost, LiveStalled, EnsureOwnerNoMem, TeardownLost, QuiesceLost, QuiesceOk, QuiesceFails, FreeMem
<1> QED
  BY <1>1, <1>3, <1>4, <1>5, <1>6, <1>7

\* No step, a reload of the module included, releases a retained owner or gives
\* its entry to another device.
THEOREM RetainedOwnersStay ==
  ASSUME ~ProbeDuringUnload
  PROVE  Spec => RetainedForever
<1>1. IInv /\ [Next]_vars =>
        [\A i \in Entries :
           owners.entry[i].state = "RETAINED" => owners'.entry[i] = owners.entry[i]]_vars
  <2>1. SUFFICES ASSUME IInv, Next, NEW i \in Entries, owners.entry[i].state = "RETAINED"
                 PROVE  owners'.entry[i] = owners.entry[i]
    OBVIOUS
  <2>2. CASE \E d \in Devices : Step(d)
    BY <2>1, <2>2, StepKeepsRetained
  <2>3. CASE BeginUnload
    BY <2>3 DEF BeginUnload
  <2>4. CASE EndUnload
    BY <2>1, <2>4, NothingLeft
  <2> QED
    BY <2>1, <2>2, <2>3, <2>4 DEF Next
<1> QED
  BY <1>1, SpecIInv, PTL DEF Spec, RetainedForever
=============================================================================

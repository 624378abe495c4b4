-------------------------------- MODULE Memory --------------------------------
(***************************************************************************)
(* Guest memory as the renderer reads it: the fence of the backing         *)
(* (BackingFence), partially resident memory (PrtResidency) and memory     *)
(* that the GPU has written (GuestReadback).  The three share no state: a  *)
(* behaviour is of one of them, and the others stay as they were made.     *)
(***************************************************************************)
EXTENDS BackingFence

CONSTANTS Guests,
          Aperture,                               \* pages of partially resident memory
          Buffers, Slots, Requests, Modes, MaxWrites  \* pages the GPU writes, and bounds

VARIABLES
  used,  \* "fence", "residency" or "reads"
  aRange, aView, aMemory, aResidency, aCall, aSync, aRender, aFailed, aOwned, aVacant,
  rMode, rNewest, rDevice, rMemory, rGpuDirty, rSlotOf, rHeld, rRequest, rQueue,
  rEngine, rGuest, rRender

Residency == INSTANCE PrtResidency WITH
  Pages <- Aperture,
  range <- aRange, view <- aView, memory <- aMemory, residency <- aResidency,
  call <- aCall, sync <- aSync, render <- aRender, failed <- aFailed, owned <- aOwned,
  vacant <- aVacant

Readback == INSTANCE GuestReadback WITH
  Pages <- Buffers, None <- NoOne,
  mode <- rMode, newest <- rNewest, device <- rDevice, memory <- rMemory,
  gpuDirty <- rGpuDirty, slotOf <- rSlotOf, held <- rHeld, request <- rRequest,
  queue <- rQueue, engine <- rEngine, guest <- rGuest, render <- rRender

ASSUME MemoryAssumption == Residency!PrtAssumption /\ Readback!GuestReadbackAssumption

residencyVars == <<aRange, aView, aMemory, aResidency, aCall, aSync, aRender, aFailed,
                   aOwned, aVacant>>
readVars == <<rMode, rNewest, rDevice, rMemory, rGpuDirty, rSlotOf, rHeld, rRequest,
              rQueue, rEngine, rGuest, rRender>>
memoryVars == <<used, vars, residencyVars, readVars>>

OfFence(A) == used = "fence" /\ A /\ UNCHANGED <<used, residencyVars, readVars>>
OfResidency(A) == used = "residency" /\ A /\ UNCHANGED <<used, vars, readVars>>
OfReads(A) == used = "reads" /\ A /\ UNCHANGED <<used, vars, residencyVars>>

\* What is not used has one initial state.
MemoryInit ==
  /\ used \in {"fence", "residency", "reads"}
  /\ Init /\ Residency!Init /\ Readback!Init
  /\ used # "fence" => \A a \in Addr : maps[a] = NoOne
  /\ used # "reads" => rMode = CHOOSE m \in Modes : TRUE

MemoryNext ==
  OfFence(Next) \/ OfResidency(Residency!Next) \/ OfReads(Readback!Next)

MemorySpec == MemoryInit /\ [][MemoryNext]_memoryVars

\* The renderer reads an aperture whose pages stay owned.
ReadsSucceed == Residency!ReadsSucceed

\* A guest thread gets its own copy, and a page only with the GPU's last write.
ReadsAreSound == Readback!ReadsAreSound
===============================================================================

------------------------------ MODULE SlotClock ------------------------------
(***************************************************************************)
(* The slot arithmetic of src/consensus/clock.rs and the finality rule     *)
(* that src/net/server.rs and src/net/client.rs both spell out.  Time is   *)
(* in whole seconds, as now_secs() reads it.                               *)
(***************************************************************************)
EXTENDS Naturals

CONSTANTS
    SlotSeconds,    \* SLOT_SECONDS, 30 in the code
    EpochSlots      \* EPOCH_SLOTS, 32 in the code

ASSUME SlotClockAssumption ==
    /\ SlotSeconds \in Nat \ {0}
    /\ EpochSlots \in Nat \ {0}

-----------------------------------------------------------------------------
\* u64::saturating_sub.
SaturatingSub(a, b) == IF a >= b THEN a - b ELSE 0

\* A clock that starts where it is made.
UnalignedGenesis(now) == now

\* SlotClock::new_aligned_now: the last multiple of SLOT_SECONDS.
AlignedGenesis(now) == now - (now % SlotSeconds)

SlotOf(genesis, ts) == SaturatingSub(ts, genesis) \div SlotSeconds

EpochOfSlot(slot) == slot \div EpochSlots

SlotInEpoch(slot) == slot % EpochSlots

\* A clock that forgets to step to the following slot.
NextSlotStartSameSlot(genesis, now) ==
    genesis + SlotOf(genesis, now) * SlotSeconds

\* A clock that steps over the following slot.
NextSlotStartSkipping(genesis, now) ==
    genesis + (SlotOf(genesis, now) + 2) * SlotSeconds

NextSlotStart(genesis, now) ==
    genesis + (SlotOf(genesis, now) + 1) * SlotSeconds

-----------------------------------------------------------------------------
\* A rule that finalizes the epoch that is only opening.
FinalizedAtOpening(epoch) == (epoch + 1) * EpochSlots

\* The rule with its epoch counted one too low.
FinalizedAtOneEpochLess(epoch) ==
    IF epoch >= 1 THEN (epoch - 2) * EpochSlots ELSE 0

\* The height that the boundary block of this epoch finalizes.
FinalizedAt(epoch) ==
    IF epoch >= 2 THEN (epoch - 2 + 1) * EpochSlots ELSE 0

\* A rule that forgets the finalized height between boundaries.
FinalityAfterForgetting(finalized, slot) ==
    IF SlotInEpoch(slot) = 0 THEN FinalizedAt(EpochOfSlot(slot)) ELSE 0

\* finalized_height after a block of this slot: it moves only when the
\* block's slot opens an epoch.
FinalityAfter(finalized, slot) ==
    IF SlotInEpoch(slot) = 0 THEN FinalizedAt(EpochOfSlot(slot)) ELSE finalized

=============================================================================

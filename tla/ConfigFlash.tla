---------------------------- MODULE ConfigFlash ----------------------------
(***************************************************************************)
(* The configuration in flash (user_main.c, networking.c): struct           *)
(* startup_config, the identity and the ADC offset, kept twice, in sectors  *)
(* 0x7C and 0x7D.  Whoever changes it changes both copies in RAM and then   *)
(* erases and writes one sector after the other; user_init takes the        *)
(* identity only if both sectors agree on it.  Power may go at any point.   *)
(*                                                                         *)
(* A write is word by word, an erase is one step.  No other callback runs   *)
(* during a write: the handlers call the flash synchronously.               *)
(***************************************************************************)
EXTENDS Integers

CONSTANTS
    Ids,         \* identities the server may issue
    Offsets,     \* ADC readings a calibration may store
    Erased,      \* a word of an erased sector
    WORDS,       \* words the identity occupies (3); the offset is one more
    MaxLosses    \* bound on the power losses that interrupt a write

ASSUME FlashAssumption ==
    /\ Erased \notin Ids /\ Erased \notin Offsets
    /\ WORDS \in Nat \ {0}
    /\ MaxLosses \in Nat

VARIABLES
    config, configcmp,  \* the two copies in RAM
    C, D,               \* sectors 0x7C and 0x7D
    Dev_ID,             \* ProgramPara.Dev_ID
    pc,                 \* the flash call under way
    at,                 \* the next word it writes
    losses,             \* writes interrupted so far
    interrupted,        \* history: ... since an identity was last written out
    registered          \* history: the identity the server issued last

ram == <<config, configcmp, Dev_ID>>
vars == <<ram, C, D, pc, at, losses, interrupted, registered>>

\* A word of an identity is represented by the identity it belongs to.
IdPart == 1..WORDS
OffsetWord == WORDS + 1
Image == [1..OffsetWord -> Ids \cup Offsets \cup {Erased}]
Blank == [k \in 1..OffsetWord |-> Erased]
IdOf(image) == [k \in IdPart |-> image[k]]
Whole(id) == [k \in IdPart |-> id]
Placeholder == IdOf(Blank)  \* stands for "HTFXXXXXXX"
WithId(image, id) == [k \in 1..OffsetWord |-> IF k \in IdPart THEN id ELSE image[k]]
WithOffset(image, o) == [image EXCEPT ![OffsetWord] = o]

\* user_init, lines 562-571: the copies must agree, and start with "HT".
\* Mutant: one copy is believed.
BootId_OneCopy(c, d) == IF c[1] \in Ids THEN IdOf(c) ELSE Placeholder
BootId(c, d) == IF IdOf(c) = IdOf(d) /\ c[1] \in Ids THEN IdOf(c) ELSE Placeholder

\* Every variable has its type.
TypeOK ==
    /\ config \in Image /\ configcmp \in Image
    /\ C \in Image /\ D \in Image
    /\ Dev_ID \in [IdPart -> Ids \cup Offsets \cup {Erased}]
    /\ pc \in {"idle", "eraseC", "writeC", "eraseD", "writeD"}
    /\ at \in 1..OffsetWord
    /\ losses \in 0..MaxLosses
    /\ interrupted \in 0..MaxLosses
    /\ registered \in Ids \cup {Erased}

\* user_init, lines 557-571.  Mutant: sector 0x7C is read twice.
Booted_SameSector(c, d) ==
    /\ config' = c
    /\ configcmp' = c
    /\ Dev_ID' = BootId(c, d)
    /\ pc' = "idle"
    /\ at' = 1

Booted(c, d) ==
    /\ config' = c
    /\ configcmp' = d
    /\ Dev_ID' = BootId(c, d)
    /\ pc' = "idle"
    /\ at' = 1

\* A device fresh from the factory, or one with an identity.
Init ==
    /\ \/ C = Blank
       \/ \E id \in Ids, o \in Offsets : C = WithOffset(WithId(Blank, id), o)
    /\ D = C
    /\ config = C /\ configcmp = D
    /\ Dev_ID = BootId(C, D)
    /\ pc = "idle" /\ at = 1
    /\ losses = 0 /\ interrupted = 0
    /\ registered = C[1]

-----------------------------------------------------------------------------

NewIdAck(id) ==
    /\ Dev_ID' = Whole(id) /\ registered' = id
    /\ config' = WithId(config, id)
    /\ configcmp' = WithId(configcmp, id)
    /\ pc' = "eraseC"
    /\ UNCHANGED <<C, D, at, losses, interrupted>>

\* The server sends it to a device that asked, and only a device that holds
\* the placeholder asks (FirstCommand in module Device).
ServerIssues(id) == pc = "idle" /\ Dev_ID = Placeholder /\ NewIdAck(id)

\* led_test and led_test1, status 3: store the offset.
Calibrate(o) ==
    /\ pc = "idle"
    /\ config' = WithOffset(config, o)
    /\ configcmp' = WithOffset(configcmp, o)
    /\ pc' = "eraseC"
    /\ UNCHANGED <<Dev_ID, C, D, at, losses, interrupted, registered>>

\* spi_flash_erase_sector, spi_flash_write, twice.  Mutant: a word too many.
WriteC_OneMore ==
    /\ pc = "writeC"
    /\ C' = [C EXCEPT ![at] = config[at]]
    /\ IF at <= OffsetWord THEN at' = at + 1 /\ UNCHANGED pc
                           ELSE at' = 1 /\ pc' = "eraseD"
    /\ UNCHANGED <<ram, D, losses, interrupted, registered>>

EraseC ==
    /\ pc = "eraseC"
    /\ C' = Blank
    /\ pc' = "writeC" /\ at' = 1
    /\ UNCHANGED <<ram, D, losses, interrupted, registered>>

WriteC ==
    /\ pc = "writeC"
    /\ C' = [C EXCEPT ![at] = config[at]]
    /\ IF at < OffsetWord THEN at' = at + 1 /\ UNCHANGED pc
                          ELSE at' = 1 /\ pc' = "eraseD"
    /\ UNCHANGED <<ram, D, losses, interrupted, registered>>

EraseD ==
    /\ pc = "eraseD"
    /\ D' = Blank
    /\ pc' = "writeD" /\ at' = 1
    /\ UNCHANGED <<ram, C, losses, interrupted, registered>>

WriteD ==
    /\ pc = "writeD"
    /\ D' = [D EXCEPT ![at] = configcmp[at]]
    /\ IF at < OffsetWord THEN at' = at + 1 /\ UNCHANGED <<pc, interrupted>>
       ELSE /\ at' = 1 /\ pc' = "idle"
            /\ interrupted' = IF \E id \in Ids : Dev_ID = Whole(id) THEN 0 ELSE interrupted
    /\ UNCHANGED <<ram, C, losses, registered>>

\* A reboot between writes, and a power loss in the middle of one.
Reboot ==
    /\ pc = "idle"
    /\ Booted(C, D)
    /\ UNCHANGED <<C, D, losses, interrupted, registered>>

PowerLoss ==
    /\ pc # "idle" /\ losses < MaxLosses
    /\ losses' = losses + 1 /\ interrupted' = interrupted + 1
    /\ Booted(C, D)
    /\ UNCHANGED <<C, D, registered>>

Next == \/ \E id \in Ids : ServerIssues(id)
        \/ \E o \in Offsets : Calibrate(o)
        \/ EraseC \/ WriteC \/ EraseD \/ WriteD
        \/ Reboot \/ PowerLoss

Spec == Init /\ [][Next]_vars

-----------------------------------------------------------------------------
\* Between writes a reboot changes nothing: whatever calibrations and power
\* losses came before, the sectors hold what the device uses.
IdentityDurable == pc = "idle" => BootId(C, D) = Dev_ID

\* Calibrations and reboots never cost a device its identity: unless power was
\* lost during a write, it uses the one the server issued last.
IdentityRegistered == interrupted = 0 => Dev_ID = Whole(registered)

\* An older identity never comes back, however often power is lost.
IdentityLatest == \A id \in Ids : Dev_ID = Whole(id) => id = registered

\* One interrupted write costs at most the identity: the device has the one
\* issued last or asks for a new one, and does not log in with half of one.
\* (It may well cost it: from the erase of the first sector to the end of the
\* identity in the second the sectors disagree, in a calibration too.)
IdentityWhole == interrupted <= 1 => Dev_ID \in {Placeholder, Whole(registered)}

\* What calibrations, reboots and interrupted writes leave of the identity.
IdentityKept == IdentityDurable /\ IdentityRegistered /\ IdentityLatest /\ IdentityWhole

\* The abstract store: what is stored counts when it is whole.
IdIn(x) == IF \E id \in Ids : x = Whole(id) THEN CHOOSE id \in Ids : x = Whole(id) ELSE Erased
inUse == IdIn(Dev_ID)
stored == IdIn(BootId(C, D))
Abstract == INSTANCE IdentityStore WITH None <- Erased

\* The two sectors are one store of whole identities: as long as no second
\* write has been interrupted, every step issues, stores, exposes or reloads
\* an identity as IdentityStore does, or changes neither.
ImplementsStore ==
    /\ Abstract!Init
    /\ [][interrupted <= 1 /\ interrupted' <= 1 => Abstract!Next]_<<inUse, stored>>

=============================================================================

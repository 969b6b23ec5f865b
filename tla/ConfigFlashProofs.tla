------------------------- MODULE ConfigFlashProofs -------------------------
(***************************************************************************)
(* Proofs about the configuration in flash, for any identities, any size of *)
(* an identity and any number of power losses: between two writes a reboot  *)
(* finds the identity in use, which until a write is interrupted is the one *)
(* issued last; one interrupted write leaves that one or none, and none     *)
(* that is older ever comes back; the two sectors implement IdentityStore   *)
(* until two writes in a row are interrupted.                               *)
(***************************************************************************)
EXTENDS ConfigFlash, TLAPS

USE FlashAssumption DEF FlashAssumption

LEMMA WordRange ==
    /\ OffsetWord \in Nat \ {0} /\ OffsetWord \in 1..OffsetWord /\ 1 \in IdPart /\ 1 \in 1..OffsetWord
    /\ IdPart \subseteq 1..OffsetWord /\ OffsetWord \notin IdPart
  BY DEF OffsetWord, IdPart

LEMMA ImagesTyped ==
    /\ Blank \in Image
    /\ \A x \in Image, id \in Ids : WithId(x, id) \in Image
    /\ \A x \in Image, o \in Offsets : WithOffset(x, o) \in Image
    /\ \A x \in Image : IdOf(x) \in [IdPart -> Ids \cup Offsets \cup {Erased}]
    /\ \A id \in Ids : Whole(id) \in [IdPart -> Ids \cup Offsets \cup {Erased}]
<1>1. Blank \in Image
  BY DEF Blank, Image
<1>2. ASSUME NEW x \in Image, NEW id \in Ids PROVE WithId(x, id) \in Image
  BY DEF WithId, Image
<1>3. ASSUME NEW x \in Image, NEW o \in Offsets PROVE WithOffset(x, o) \in Image
  BY DEF WithOffset, Image
<1>4. ASSUME NEW x \in Image PROVE IdOf(x) \in [IdPart -> Ids \cup Offsets \cup {Erased}]
  BY WordRange DEF IdOf, Image
<1>5. ASSUME NEW id \in Ids PROVE Whole(id) \in [IdPart -> Ids \cup Offsets \cup {Erased}]
  BY DEF Whole
<1>. QED BY <1>1, <1>2, <1>3, <1>4, <1>5

\* What a boot takes for the identity is of an identity's type.
LEMMA BootTyped ==
    ASSUME NEW c \in Image, NEW d \in Image
    PROVE  BootId(c, d) \in [IdPart -> Ids \cup Offsets \cup {Erased}]
  BY ImagesTyped DEF BootId, Placeholder

\* Writing an identity to both copies makes it the one a boot would take.
LEMMA BootsIssued ==
    ASSUME NEW x \in Image, NEW y \in Image, NEW id \in Ids
    PROVE  BootId(WithId(x, id), WithId(y, id)) = Whole(id)
<1>1. IdOf(WithId(x, id)) = Whole(id) /\ IdOf(WithId(y, id)) = Whole(id)
  BY WordRange DEF IdOf, WithId, Whole
<1>2. WithId(x, id)[1] \in Ids
  BY WordRange DEF WithId
<1>. QED BY <1>1, <1>2 DEF BootId

\* Writing an offset to both copies does not change what a boot would take.
LEMMA BootsSame ==
    ASSUME NEW x \in Image, NEW y \in Image, NEW o \in Offsets
    PROVE  BootId(WithOffset(x, o), WithOffset(y, o)) = BootId(x, y)
<1>1. ASSUME NEW z \in Image PROVE IdOf(WithOffset(z, o)) = IdOf(z) /\ WithOffset(z, o)[1] = z[1]
  BY WordRange DEF IdOf, WithOffset, Image
<1>. QED BY <1>1 DEF BootId

-----------------------------------------------------------------------------
\* The identity in use is the one the copies in RAM agree on; a sector that
\* has been written holds its copy, one being written the words so far.
RamAgrees == Dev_ID = BootId(config, configcmp)
SectorsFollow ==
    /\ pc \in {"idle", "eraseD", "writeD"} => C = config
    /\ pc = "idle" => D = configcmp
    /\ pc = "writeC" => \A k \in 1..(at - 1) : C[k] = config[k]
    /\ pc = "writeD" => \A k \in 1..(at - 1) : D[k] = configcmp[k]
FlashInv == TypeOK /\ RamAgrees /\ SectorsFollow

LEMMA FlashInitially == Init => FlashInv
<1> SUFFICES ASSUME Init PROVE FlashInv
  OBVIOUS
<1>1. C \in Image
  BY ImagesTyped DEF Init
<1>2. TypeOK
  <2>1. C[1] \in Ids \cup {Erased}
    BY WordRange DEF Init, Blank, WithOffset, WithId
  <2>. QED BY <1>1, <2>1, BootTyped, WordRange DEF Init, TypeOK
<1>. QED BY <1>2 DEF Init, FlashInv, RamAgrees, SectorsFollow

\* A sector whose last word is written holds the whole copy.
LEMMA SectorComplete ==
    ASSUME NEW s \in Image, NEW r \in Image, \A k \in 1..(OffsetWord - 1) : s[k] = r[k]
    PROVE  [s EXCEPT ![OffsetWord] = r[OffsetWord]] = r
  BY WordRange DEF Image

LEMMA BootKeeps ==
    ASSUME FlashInv, Booted(C, D), UNCHANGED <<C, D, registered>>,
           losses' \in 0..MaxLosses, interrupted' \in 0..MaxLosses
    PROVE  FlashInv'
<1>1. TypeOK'
  BY BootTyped, WordRange DEF FlashInv, TypeOK, Booted
<1>. QED BY <1>1 DEF FlashInv, Booted, RamAgrees, SectorsFollow

\* A write is never interrupted more often than power is lost.
InterruptedBounded == interrupted <= losses

LEMMA FlashInductive == FlashInv /\ InterruptedBounded /\ [Next]_vars => FlashInv' /\ InterruptedBounded'
<1> SUFFICES ASSUME FlashInv, InterruptedBounded, [Next]_vars PROVE FlashInv' /\ InterruptedBounded'
  OBVIOUS
<1> USE DEF FlashInv, ram
<1>0. losses \in Nat /\ interrupted \in Nat /\ at \in 1..OffsetWord
  BY DEF TypeOK
<1>1. ASSUME NEW id \in Ids, ServerIssues(id) PROVE FlashInv' /\ InterruptedBounded'
  <2>1. TypeOK'
    BY <1>1, ImagesTyped DEF ServerIssues, NewIdAck, TypeOK
  <2>2. RamAgrees'
    BY <1>1, BootsIssued DEF ServerIssues, NewIdAck, RamAgrees, TypeOK
  <2>. QED BY <1>1, <2>1, <2>2 DEF ServerIssues, NewIdAck, SectorsFollow, InterruptedBounded
<1>2. ASSUME NEW o \in Offsets, Calibrate(o) PROVE FlashInv' /\ InterruptedBounded'
  <2>1. TypeOK'
    BY <1>2, ImagesTyped DEF Calibrate, TypeOK
  <2>2. RamAgrees'
    BY <1>2, BootsSame DEF Calibrate, RamAgrees, TypeOK
  <2>. QED BY <1>2, <2>1, <2>2 DEF Calibrate, SectorsFollow, InterruptedBounded
<1>3. CASE EraseC
  <2>1. TypeOK'
    BY <1>3, ImagesTyped, WordRange DEF EraseC, TypeOK
  <2>2. 1..(at' - 1) = {}
    BY <1>3 DEF EraseC
  <2>3. SectorsFollow'
    BY <1>3, <2>2 DEF EraseC, SectorsFollow
  <2>. QED BY <1>3, <2>1, <2>3 DEF EraseC, RamAgrees, InterruptedBounded
<1>4. CASE WriteC
  <2>1. C' \in Image /\ \A k \in 1..at : C'[k] = config[k]
    <3>1. C \in Image /\ config \in Image /\ \A k \in 1..(at - 1) : C[k] = config[k]
      BY <1>4 DEF WriteC, SectorsFollow, TypeOK
    <3>2. C' = [C EXCEPT ![at] = config[at]]
      BY <1>4 DEF WriteC
    <3>. QED BY <1>0, <3>1, <3>2, WordRange DEF Image
  <2>2. CASE at < OffsetWord
    <3>1. at' = at + 1 /\ at' \in 1..OffsetWord
      BY <1>0, <1>4, <2>2 DEF WriteC, OffsetWord
    <3>. QED BY <1>4, <2>1, <2>2, <3>1 DEF WriteC, TypeOK, RamAgrees, SectorsFollow, InterruptedBounded
  <2>3. CASE ~(at < OffsetWord)
    <3>1. at = OffsetWord
      BY <1>0, <2>3, WordRange
    <3>2. C' = config
      BY <1>4, <3>1, SectorComplete DEF WriteC, SectorsFollow, TypeOK
    <3>. QED BY <1>4, <2>1, <2>3, <3>2, WordRange
             DEF WriteC, TypeOK, RamAgrees, SectorsFollow, InterruptedBounded
  <2>. QED BY <2>2, <2>3
<1>5. CASE EraseD
  <2>1. TypeOK'
    BY <1>5, ImagesTyped, WordRange DEF EraseD, TypeOK
  <2>2. 1..(at' - 1) = {}
    BY <1>5 DEF EraseD
  <2>3. SectorsFollow'
    BY <1>5, <2>2 DEF EraseD, SectorsFollow
  <2>. QED BY <1>5, <2>1, <2>3 DEF EraseD, RamAgrees, InterruptedBounded
<1>6. CASE WriteD
  <2>1. D' \in Image /\ \A k \in 1..at : D'[k] = configcmp[k]
    <3>1. D \in Image /\ configcmp \in Image /\ \A k \in 1..(at - 1) : D[k] = configcmp[k]
      BY <1>6 DEF WriteD, SectorsFollow, TypeOK
    <3>2. D' = [D EXCEPT ![at] = configcmp[at]]
      BY <1>6 DEF WriteD
    <3>. QED BY <1>0, <3>1, <3>2, WordRange DEF Image
  <2>2. CASE at < OffsetWord
    <3>1. at' = at + 1 /\ at' \in 1..OffsetWord
      BY <1>0, <1>6, <2>2 DEF WriteD, OffsetWord
    <3>. QED BY <1>6, <2>1, <2>2, <3>1 DEF WriteD, TypeOK, RamAgrees, SectorsFollow, InterruptedBounded
  <2>3. CASE ~(at < OffsetWord)
    <3>1. at = OffsetWord
      BY <1>0, <2>3, WordRange
    <3>2. D' = configcmp
      BY <1>6, <3>1, SectorComplete DEF WriteD, SectorsFollow, TypeOK
    <3>3. interrupted' \in 0..MaxLosses /\ interrupted' <= losses
      BY <1>0, <1>6, <2>3 DEF WriteD, TypeOK, InterruptedBounded
    <3>. QED BY <1>6, <2>1, <2>3, <3>2, <3>3, WordRange
             DEF WriteD, TypeOK, RamAgrees, SectorsFollow, InterruptedBounded
  <2>. QED BY <2>2, <2>3
<1>7. CASE Reboot
  BY <1>7, BootKeeps DEF Reboot, TypeOK, InterruptedBounded
<1>8. CASE PowerLoss
  <2>1. losses' \in 0..MaxLosses /\ interrupted' \in 0..MaxLosses /\ interrupted' <= losses'
    BY <1>0, <1>8 DEF PowerLoss, InterruptedBounded
  <2>. QED BY <1>8, <2>1, BootKeeps DEF PowerLoss, InterruptedBounded
<1>9. CASE UNCHANGED vars
  BY <1>9 DEF vars, TypeOK, RamAgrees, SectorsFollow, InterruptedBounded
<1>. QED BY <1>1, <1>2, <1>3, <1>4, <1>5, <1>6, <1>7, <1>8, <1>9 DEF Next

\* The configuration keeps its type: no word is written outside its sector.
THEOREM FlashTypeCorrect == Spec => []TypeOK
<1>1. Init => InterruptedBounded
  BY DEF Init, InterruptedBounded
<1>2. FlashInv => TypeOK
  BY DEF FlashInv
<1>. QED BY <1>1, <1>2, FlashInitially, FlashInductive, PTL DEF Spec

-----------------------------------------------------------------------------
(* Whole identities.  While one sector is rewritten the other still holds    *)
(* what it held; only a power loss leaves half an identity behind, and one   *)
(* power loss leaves it in one sector only.                                  *)

\* An image that starts with an identity holds all of it.
Sound(x) == x[1] \in Ids => \E id \in Ids : IdOf(x) = Whole(id)
Usable == Dev_ID = Placeholder \/ \E id \in Ids : Dev_ID = Whole(id)
UsableInv == interrupted <= 1 => Dev_ID = Placeholder \/ \E id \in Ids : Dev_ID = Whole(id)

SoundInv ==
    interrupted = 0 =>
      /\ Sound(config) /\ Sound(configcmp)
      /\ pc \in {"idle", "eraseC", "writeC"} => Sound(D)

\* What has not been written yet is erased.
BlankBeyond ==
    /\ pc = "writeC" => \A k \in at..OffsetWord : C[k] = Erased
    /\ pc = "writeD" => \A k \in at..OffsetWord : D[k] = Erased

\* Without an identity there is nothing new to write but an offset.
OtherSectorKept ==
    Dev_ID = Placeholder /\ pc \in {"eraseC", "writeC"} => IdOf(D) = IdOf(configcmp)

WholeInv == SoundInv /\ UsableInv /\ BlankBeyond /\ OtherSectorKept

LEMMA WholeFacts ==
    /\ \A id \in Ids : Whole(id)[1] = id /\ Whole(id) # Placeholder
    /\ \A x \in Image : IdOf(x)[1] = x[1]
    /\ \A a, b \in Ids : Whole(a) = Whole(b) => a = b
<1>1. \A id \in Ids : Whole(id)[1] = id
  BY WordRange DEF Whole
<1>2. \A x \in Image : IdOf(x)[1] = x[1]
  BY WordRange DEF IdOf
<1>3. Placeholder[1] = Erased
  BY WordRange DEF Placeholder, IdOf, Blank
<1>. QED BY <1>1, <1>2, <1>3

\* What is stored, if anything, is what both sectors hold.
LEMMA BootCases ==
    ASSUME NEW c \in Image, NEW d \in Image
    PROVE  /\ BootId(c, d) # Placeholder <=> IdOf(c) = IdOf(d) /\ c[1] \in Ids
           /\ BootId(c, d) # Placeholder => BootId(c, d) = IdOf(c)
<1>1. c[1] \in Ids => IdOf(c) # Placeholder
  <2>1. Placeholder[1] = Erased
    BY WordRange DEF Placeholder, IdOf, Blank
  <2>. QED BY <2>1, WholeFacts
<1>. QED BY <1>1 DEF BootId

\* An identity in use is in both copies in RAM.
LEMMA RamHoldsUsed ==
    ASSUME TypeOK, RamAgrees, NEW id \in Ids, Dev_ID = Whole(id)
    PROVE  IdOf(config) = Whole(id) /\ IdOf(configcmp) = Whole(id)
<1>1. BootId(config, configcmp) # Placeholder
  BY WholeFacts DEF RamAgrees
<1>. QED BY <1>1, BootCases DEF RamAgrees, TypeOK

LEMMA SoundCopies ==
    /\ \A x \in Image, id \in Ids : Sound(WithId(x, id)) /\ IdOf(WithId(x, id)) = Whole(id)
    /\ \A x \in Image, o \in Offsets : IdOf(WithOffset(x, o)) = IdOf(x) /\ (Sound(x) => Sound(WithOffset(x, o)))
    /\ Sound(Blank)
<1>1. ASSUME NEW x \in Image, NEW id \in Ids
      PROVE  Sound(WithId(x, id)) /\ IdOf(WithId(x, id)) = Whole(id)
  <2>1. IdOf(WithId(x, id)) = Whole(id)
    BY WordRange DEF IdOf, WithId, Whole
  <2>. QED BY <2>1 DEF Sound
<1>2. ASSUME NEW x \in Image, NEW o \in Offsets
      PROVE  IdOf(WithOffset(x, o)) = IdOf(x) /\ (Sound(x) => Sound(WithOffset(x, o)))
  <2>1. IdOf(WithOffset(x, o)) = IdOf(x) /\ WithOffset(x, o)[1] = x[1]
    BY WordRange DEF IdOf, WithOffset, Image
  <2>. QED BY <2>1 DEF Sound
<1>3. Sound(Blank)
  BY WordRange DEF Sound, Blank
<1>. QED BY <1>1, <1>2, <1>3

\* If either sector is sound, a boot finds a whole identity or none.
LEMMA SoundBoots ==
    ASSUME NEW c \in Image, NEW d \in Image, Sound(c) \/ Sound(d)
    PROVE  BootId(c, d) = Placeholder \/ \E id \in Ids : BootId(c, d) = Whole(id)
<1> SUFFICES ASSUME BootId(c, d) # Placeholder PROVE \E id \in Ids : BootId(c, d) = Whole(id)
  OBVIOUS
<1>1. IdOf(c) = IdOf(d) /\ c[1] \in Ids /\ BootId(c, d) = IdOf(c)
  BY BootCases
<1>2. d[1] \in Ids
  BY <1>1, WholeFacts
<1>. QED BY <1>1, <1>2 DEF Sound

LEMMA WholeInitially == Init => WholeInv
<1> SUFFICES ASSUME Init PROVE WholeInv
  OBVIOUS
<1>1. C \in Image /\ Sound(C)
  BY ImagesTyped, SoundCopies DEF Init
<1>2. Usable
  BY <1>1, SoundBoots DEF Init, Usable
<1>. QED BY <1>1, <1>2 DEF Init, WholeInv, SoundInv, Usable, UsableInv, BlankBeyond, OtherSectorKept

LEMMA WholeInductive == FlashInv /\ WholeInv /\ [Next]_vars => WholeInv'
<1> SUFFICES ASSUME FlashInv, WholeInv, [Next]_vars PROVE WholeInv'
  OBVIOUS
<1> USE DEF ram
<1>0. /\ TypeOK /\ RamAgrees /\ SectorsFollow /\ at \in 1..OffsetWord /\ interrupted \in Nat
      /\ config \in Image /\ configcmp \in Image /\ C \in Image /\ D \in Image
  BY DEF FlashInv, TypeOK
<1>1. ASSUME NEW id \in Ids, ServerIssues(id) PROVE WholeInv'
  <2>1. Dev_ID' = Whole(id) /\ Sound(config') /\ Sound(configcmp') /\ pc = "idle" /\ pc' = "eraseC"
    BY <1>0, <1>1, SoundCopies DEF ServerIssues, NewIdAck
  <2>2. SoundInv'
    BY <1>1, <2>1 DEF ServerIssues, NewIdAck, WholeInv, SoundInv, Sound, IdOf
  <2>3. Dev_ID' # Placeholder
    BY <2>1, WholeFacts
  <2>. QED BY <2>1, <2>2, <2>3 DEF WholeInv, UsableInv, BlankBeyond, OtherSectorKept, Placeholder, IdOf, Blank
<1>2. ASSUME NEW o \in Offsets, Calibrate(o) PROVE WholeInv'
  <2>1. /\ pc = "idle" /\ pc' = "eraseC" /\ UNCHANGED <<Dev_ID, C, D, interrupted>>
        /\ config' = WithOffset(config, o) /\ configcmp' = WithOffset(configcmp, o)
    BY <1>2 DEF Calibrate
  <2>2. SoundInv'
    BY <1>0, <2>1, SoundCopies DEF WholeInv, SoundInv
  <2>3. IdOf(D') = IdOf(configcmp')
    BY <1>0, <2>1, SoundCopies DEF SectorsFollow
  <2>. QED BY <2>1, <2>2, <2>3 DEF WholeInv, UsableInv, BlankBeyond, OtherSectorKept
<1>3. CASE EraseC
  <2>1. \A k \in 1..OffsetWord : C'[k] = Erased
    BY <1>3 DEF EraseC, Blank
  <2>. QED BY <1>3, <2>1
           DEF EraseC, WholeInv, SoundInv, UsableInv, BlankBeyond, OtherSectorKept
<1>4. CASE WriteC
  <2>1. ASSUME pc' = "writeC" PROVE \A k \in at'..OffsetWord : C'[k] = Erased
    <3>1. at' = at + 1 /\ C' = [C EXCEPT ![at] = config[at]] /\ \A k \in at..OffsetWord : C[k] = Erased
      BY <1>4, <2>1 DEF WriteC, WholeInv, BlankBeyond
    <3>. QED BY <1>0, <3>1, WordRange DEF Image
  <2>2. pc = "writeC" /\ pc' \in {"writeC", "eraseD"} /\ UNCHANGED <<ram, D, interrupted>>
    BY <1>4 DEF WriteC
  <2>. QED BY <2>1, <2>2 DEF WholeInv, SoundInv, UsableInv, BlankBeyond, OtherSectorKept
<1>5. CASE EraseD
  <2>1. \A k \in 1..OffsetWord : D'[k] = Erased
    BY <1>5 DEF EraseD, Blank
  <2>. QED BY <1>5, <2>1
           DEF EraseD, WholeInv, SoundInv, UsableInv, BlankBeyond, OtherSectorKept
<1>6. CASE WriteD
  <2>1. CASE at < OffsetWord
    <3>1. /\ at' = at + 1 /\ D' = [D EXCEPT ![at] = configcmp[at]] /\ \A k \in at..OffsetWord : D[k] = Erased
          /\ pc = "writeD" /\ UNCHANGED <<ram, C, pc, interrupted>>
      BY <1>6, <2>1 DEF WriteD, WholeInv, BlankBeyond
    <3>2. \A k \in at'..OffsetWord : D'[k] = Erased
      BY <1>0, <3>1, WordRange DEF Image
    <3>. QED BY <3>1, <3>2 DEF WholeInv, SoundInv, UsableInv, BlankBeyond, OtherSectorKept
  <2>2. CASE ~(at < OffsetWord)
    <3>1. pc' = "idle" /\ UNCHANGED <<ram, C>>
      BY <1>6, <2>2 DEF WriteD
    <3>2. D' = configcmp
      <4>1. at = OffsetWord /\ \A k \in 1..(OffsetWord - 1) : D[k] = configcmp[k]
        BY <1>0, <1>6, <2>2, WordRange DEF WriteD, SectorsFollow
      <4>. QED BY <1>0, <1>6, <4>1, SectorComplete DEF WriteD
    <3>3. CASE \E id \in Ids : Dev_ID = Whole(id)
      <4>1. PICK id \in Ids : Dev_ID = Whole(id)
        BY <3>3
      <4>2. IdOf(config) = Whole(id) /\ IdOf(configcmp) = Whole(id)
        BY <1>0, <4>1, RamHoldsUsed
      <4>3. Sound(config) /\ Sound(configcmp)
        BY <4>1, <4>2 DEF Sound
      <4>. QED BY <3>1, <3>2, <4>1, <4>3
               DEF WholeInv, SoundInv, UsableInv, BlankBeyond, OtherSectorKept, Sound, IdOf
    <3>4. CASE ~(\E id \in Ids : Dev_ID = Whole(id))
      <4>1. interrupted' = interrupted
        BY <1>6, <2>2, <3>4 DEF WriteD
      <4>. QED BY <3>1, <3>2, <4>1
               DEF WholeInv, SoundInv, UsableInv, BlankBeyond, OtherSectorKept, Sound, IdOf
    <3>. QED BY <3>3, <3>4
  <2>. QED BY <2>1, <2>2
<1>7. CASE Reboot
  <2>1. C = config /\ D = configcmp /\ Dev_ID = BootId(C, D)
    BY <1>0, <1>7 DEF Reboot, SectorsFollow, RamAgrees
  <2>2. UNCHANGED <<config, configcmp, Dev_ID, C, D, interrupted, pc>>
    BY <1>7, <2>1 DEF Reboot, Booted
  <2>3. pc = "idle"
    BY <1>7 DEF Reboot
  <2>. QED BY <2>2, <2>3 DEF WholeInv, SoundInv, UsableInv, BlankBeyond, OtherSectorKept
<1>8. CASE PowerLoss
  <2>1. interrupted' = interrupted + 1 /\ pc' = "idle" /\ Dev_ID' = BootId(C, D) /\ pc # "idle"
    BY <1>8 DEF PowerLoss, Booted
  <2>2. ASSUME interrupted' <= 1 PROVE Usable'
    <3>1. interrupted = 0
      BY <1>0, <2>1, <2>2
    <3>2. Sound(C) \/ Sound(D)
      BY <1>0, <2>1, <3>1 DEF WholeInv, SoundInv, SectorsFollow, TypeOK
    <3>3. BootId(C, D) = Placeholder \/ \E id \in Ids : BootId(C, D) = Whole(id)
      BY <1>0, <3>2, SoundBoots
    <3>. QED BY <2>1, <3>3 DEF Usable, Placeholder, Whole, IdOf, Blank
  <2>3. interrupted' # 0
    BY <1>0, <2>1
  <2>. QED BY <2>1, <2>2, <2>3
           DEF WholeInv, SoundInv, UsableInv, BlankBeyond, OtherSectorKept, Usable
<1>9. CASE UNCHANGED vars
  BY <1>9 DEF vars, WholeInv, SoundInv, UsableInv, BlankBeyond, OtherSectorKept, Sound, IdOf
<1>. QED BY <1>1, <1>2, <1>3, <1>4, <1>5, <1>6, <1>7, <1>8, <1>9 DEF Next

-----------------------------------------------------------------------------
(* Which identity it is: the sectors agree on a whole one only if it was     *)
(* issued last, and until a write is interrupted both copies hold that one.  *)

LatestInv ==
    /\ IdentityLatest
    /\ \A id \in Ids : IdOf(C) = Whole(id) /\ IdOf(D) = Whole(id) => id = registered
    /\ Dev_ID = Placeholder /\ pc \in {"idle", "eraseC", "writeC"} => IdOf(D) = IdOf(configcmp)
RegisteredInv ==
    interrupted = 0 => IdOf(config) = Whole(registered) /\ IdOf(configcmp) = Whole(registered)

\* A sector that holds a whole identity while it is being written has all of
\* its copy's.
Written(s, r, n) ==
    (\A k \in 1..n : s[k] = r[k]) /\ (\A k \in (n + 1)..OffsetWord : s[k] = Erased)

LEMMA WrittenWhole ==
    ASSUME NEW s \in Image, NEW r \in Image, NEW n \in 1..OffsetWord, NEW id \in Ids,
           Written(s, r, n), IdOf(s) = Whole(id)
    PROVE  IdOf(r) = Whole(id)
<1> USE DEF Written
<1>1. \A k \in IdPart : s[k] = id
  BY DEF IdOf, Whole
<1>2. ASSUME NEW k \in IdPart PROVE r[k] = id
  <2>1. k \in 1..OffsetWord /\ k # OffsetWord
    BY WordRange
  <2>2. k \in 1..n
    <3> SUFFICES ASSUME k \notin 1..n PROVE FALSE
      OBVIOUS
    <3>1. k \in (n + 1)..OffsetWord
      BY <2>1, WordRange
    <3>. QED BY <1>1, <3>1
  <2>. QED BY <1>1, <2>2
<1>. QED BY <1>2 DEF IdOf, Whole

LEMMA LatestInitially == Init => LatestInv /\ RegisteredInv
<1> SUFFICES ASSUME Init PROVE LatestInv /\ RegisteredInv
  OBVIOUS
<1>1. C \in Image /\ D = C /\ configcmp = C /\ config = C /\ registered = C[1] /\ Dev_ID = BootId(C, C)
  BY ImagesTyped DEF Init
<1>2. IdOf(C) = Whole(registered)
  <2>1. CASE C = Blank
    BY <1>1, <2>1, WordRange DEF IdOf, Whole, Blank
  <2>2. ASSUME NEW id \in Ids, NEW o \in Offsets, C = WithOffset(WithId(Blank, id), o)
        PROVE  IdOf(C) = Whole(registered)
    <3>1. IdOf(C) = Whole(id)
      BY <2>2, ImagesTyped, SoundCopies
    <3>2. IdOf(C)[1] = C[1] /\ Whole(id)[1] = id
      BY <1>1, WholeFacts
    <3>. QED BY <1>1, <3>1, <3>2
  <2>. QED BY <2>1, <2>2 DEF Init
<1>3. \A id \in Ids : IdOf(C) = Whole(id) => id = registered
  <2> SUFFICES ASSUME NEW id \in Ids, IdOf(C) = Whole(id) PROVE id = registered
    OBVIOUS
  <2>1. IdOf(C)[1] = C[1] /\ Whole(id)[1] = id
    BY <1>1, WholeFacts
  <2>. QED BY <1>1, <2>1
<1>4. IdentityLatest
  BY <1>1, <1>3, BootCases, WholeFacts DEF IdentityLatest
<1>. QED BY <1>1, <1>2, <1>3, <1>4 DEF LatestInv, RegisteredInv

LEMMA LatestInductive ==
    FlashInv /\ BlankBeyond /\ LatestInv /\ RegisteredInv /\ [Next]_vars => LatestInv' /\ RegisteredInv'
<1> SUFFICES ASSUME FlashInv, BlankBeyond, LatestInv, RegisteredInv, [Next]_vars
             PROVE  LatestInv' /\ RegisteredInv'
  OBVIOUS
<1> USE DEF ram
<1>0. /\ TypeOK /\ RamAgrees /\ SectorsFollow /\ at \in 1..OffsetWord /\ interrupted \in Nat
      /\ config \in Image /\ configcmp \in Image /\ C \in Image /\ D \in Image
  BY DEF FlashInv, TypeOK
<1>1. ASSUME NEW id \in Ids, ServerIssues(id) PROVE LatestInv' /\ RegisteredInv'
  <2>1. /\ pc = "idle" /\ Dev_ID = Placeholder /\ Dev_ID' = Whole(id) /\ registered' = id
        /\ C' = C /\ D' = D /\ config' = WithId(config, id) /\ configcmp' = WithId(configcmp, id)
    BY <1>1 DEF ServerIssues, NewIdAck
  <2>2. BootId(C, D) = Placeholder
    BY <1>0, <2>1 DEF SectorsFollow, RamAgrees
  <2>3. ASSUME NEW x \in Ids, IdOf(C) = Whole(x), IdOf(D) = Whole(x) PROVE FALSE
    <3>1. C[1] = x
      BY <1>0, <2>3, WholeFacts
    <3>. QED BY <1>0, <2>2, <2>3, <3>1, BootCases
  <2>4. (Dev_ID # Placeholder)'
    BY <2>1, WholeFacts DEF Placeholder, IdOf, Blank
  <2>5. IdentityLatest'
    BY <2>1, WholeFacts DEF IdentityLatest, Whole
  <2>6. IdOf(config') = Whole(id) /\ IdOf(configcmp') = Whole(id)
    BY <1>0, <2>1, SoundCopies
  <2>7. RegisteredInv'
    BY <2>1, <2>6 DEF RegisteredInv, IdOf, Whole
  <2>8. (\A x \in Ids : IdOf(C) = Whole(x) /\ IdOf(D) = Whole(x) => x = registered)'
    BY <2>1, <2>3 DEF IdOf, Whole
  <2>. QED BY <2>4, <2>5, <2>7, <2>8 DEF LatestInv
<1>2. ASSUME NEW o \in Offsets, Calibrate(o) PROVE LatestInv' /\ RegisteredInv'
  <2>1. /\ pc = "idle" /\ pc' = "eraseC" /\ UNCHANGED <<Dev_ID, C, D, interrupted, registered>>
        /\ config' = WithOffset(config, o) /\ configcmp' = WithOffset(configcmp, o)
    BY <1>2 DEF Calibrate
  <2>2. IdOf(config') = IdOf(config) /\ IdOf(configcmp') = IdOf(configcmp)
    BY <1>0, <2>1, SoundCopies
  <2>. QED BY <2>1, <2>2 DEF LatestInv, RegisteredInv, IdentityLatest
<1>3. CASE EraseC \/ EraseD
  <2>1. \A id \in Ids : IdOf(Blank) # Whole(id)
    BY WholeFacts DEF Placeholder
  <2>2. /\ UNCHANGED <<config, configcmp, Dev_ID, interrupted, registered>>
        /\ (C' = Blank /\ D' = D /\ pc = "eraseC") \/ (D' = Blank /\ pc' = "writeD")
    BY <1>3 DEF EraseC, EraseD
  <2>. QED BY <2>1, <2>2 DEF LatestInv, RegisteredInv, IdentityLatest
<1>4. CASE WriteC
  <2>1. /\ C' = [C EXCEPT ![at] = config[at]] /\ C' \in Image /\ D' = D /\ pc = "writeC"
        /\ UNCHANGED <<config, configcmp, Dev_ID, interrupted, registered>>
    BY <1>0, <1>4 DEF WriteC, Image
  <2>2. \A k \in 1..at : C'[k] = config[k]
    BY <1>0, <2>1 DEF SectorsFollow, Image
  <2>3. \A k \in (at + 1)..OffsetWord : C'[k] = Erased
    <3>1. \A k \in at..OffsetWord : C[k] = Erased
      BY <2>1 DEF BlankBeyond
    <3>. QED BY <1>0, <2>1, <3>1, WordRange DEF Image
  <2>4. ASSUME NEW id \in Ids, IdOf(C') = Whole(id), IdOf(D) = Whole(id) PROVE id = registered
    <3>1. IdOf(config) = Whole(id)
      <4>1. Written(C', config, at)
        BY <2>2, <2>3 DEF Written
      <4>. QED BY <1>0, <2>1, <2>4, <4>1, WrittenWhole
    <3>2. config[1] = id
      BY <1>0, <3>1, WholeFacts
    <3>3. Dev_ID # Placeholder
      <4> SUFFICES ASSUME Dev_ID = Placeholder PROVE FALSE
        OBVIOUS
      <4>1. IdOf(configcmp) = Whole(id)
        BY <2>1, <2>4 DEF LatestInv
      <4>. QED BY <1>0, <3>1, <3>2, <4>1, BootCases DEF RamAgrees
    <3>4. Dev_ID = Whole(id)
      BY <1>0, <3>1, <3>3, BootCases DEF RamAgrees
    <3>. QED BY <3>4 DEF LatestInv, IdentityLatest
  <2>. QED BY <2>1, <2>4 DEF LatestInv, RegisteredInv, IdentityLatest
<1>5. CASE WriteD
  <2>1. /\ D' = [D EXCEPT ![at] = configcmp[at]] /\ D' \in Image /\ C' = C /\ C = config /\ pc = "writeD"
        /\ UNCHANGED <<config, configcmp, Dev_ID, registered>>
    BY <1>0, <1>5 DEF WriteD, Image, SectorsFollow
  <2>2. \A k \in 1..at : D'[k] = configcmp[k]
    BY <1>0, <2>1 DEF SectorsFollow, Image
  <2>3. \A k \in (at + 1)..OffsetWord : D'[k] = Erased
    <3>1. \A k \in at..OffsetWord : D[k] = Erased
      BY <2>1 DEF BlankBeyond
    <3>. QED BY <1>0, <2>1, <3>1, WordRange DEF Image
  <2>4. ASSUME NEW id \in Ids, IdOf(C) = Whole(id), IdOf(D') = Whole(id) PROVE id = registered
    <3>1. IdOf(configcmp) = Whole(id)
      <4>1. Written(D', configcmp, at)
        BY <2>2, <2>3 DEF Written
      <4>. QED BY <1>0, <2>1, <2>4, <4>1, WrittenWhole
    <3>2. config[1] = id /\ IdOf(config) = Whole(id)
      BY <1>0, <2>1, <2>4, WholeFacts
    <3>3. Dev_ID = Whole(id)
      BY <1>0, <3>1, <3>2, BootCases DEF RamAgrees
    <3>. QED BY <3>3 DEF LatestInv, IdentityLatest
  <2>5. RegisteredInv'
    <3>1. CASE \E id \in Ids : Dev_ID = Whole(id)
      <4>1. PICK id \in Ids : Dev_ID = Whole(id)
        BY <3>1
      <4>2. IdOf(config) = Whole(id) /\ IdOf(configcmp) = Whole(id) /\ id = registered
        BY <1>0, <4>1, RamHoldsUsed DEF LatestInv, IdentityLatest
      <4>. QED BY <2>1, <4>2 DEF RegisteredInv
    <3>2. CASE ~ \E id \in Ids : Dev_ID = Whole(id)
      BY <1>5, <2>1, <3>2 DEF WriteD, RegisteredInv
    <3>. QED BY <3>1, <3>2
  <2>6. pc' = "idle" => IdOf(D') = IdOf(configcmp)
    <3> SUFFICES ASSUME pc' = "idle" PROVE IdOf(D') = IdOf(configcmp)
      OBVIOUS
    <3>1. at = OffsetWord
      BY <1>0, <1>5, WordRange DEF WriteD
    <3>. QED BY <2>2, <3>1, WordRange DEF IdOf
  <2>7. pc' \in {"idle", "writeD"}
    BY <1>5 DEF WriteD
  <2>. QED BY <2>1, <2>4, <2>5, <2>6, <2>7 DEF LatestInv, IdentityLatest
<1>6. CASE Reboot \/ PowerLoss
  <2>1. /\ Dev_ID' = BootId(C, D) /\ config' = C /\ configcmp' = D /\ UNCHANGED <<C, D, registered>>
    BY <1>6 DEF Reboot, PowerLoss, Booted
  <2>2. IdentityLatest'
    <3> SUFFICES ASSUME NEW id \in Ids, BootId(C, D) = Whole(id) PROVE id = registered
      BY <2>1 DEF IdentityLatest, Whole
    <3>1. IdOf(C) = Whole(id) /\ IdOf(D) = Whole(id)
      BY <1>0, BootCases, WholeFacts
    <3>. QED BY <3>1 DEF LatestInv
  <2>3. RegisteredInv'
    <3>1. CASE Reboot
      BY <1>0, <2>1, <3>1 DEF Reboot, RegisteredInv, SectorsFollow
    <3>2. CASE PowerLoss
      BY <1>0, <3>2 DEF PowerLoss, RegisteredInv
    <3>. QED BY <1>6, <3>1, <3>2
  <2>. QED BY <2>1, <2>2, <2>3 DEF LatestInv
<1>7. CASE UNCHANGED vars
  BY <1>7 DEF vars, LatestInv, RegisteredInv, IdentityLatest
<1>. QED BY <1>1, <1>2, <1>3, <1>4, <1>5, <1>6, <1>7 DEF Next

\* What is kept follows: with one interrupted write what is in use is whole or
\* missing, and what is whole was issued last.
LEMMA KeptFollows == FlashInv /\ WholeInv /\ LatestInv /\ RegisteredInv => IdentityKept
<1> SUFFICES ASSUME FlashInv, WholeInv, LatestInv, RegisteredInv PROVE IdentityKept
  OBVIOUS
<1>1. IdentityDurable
  BY DEF FlashInv, RamAgrees, SectorsFollow, IdentityDurable
<1>2. config \in Image /\ configcmp \in Image /\ registered \in Ids \cup {Erased}
  BY DEF FlashInv, TypeOK
<1>3. ASSUME interrupted = 0 PROVE Dev_ID = Whole(registered)
  <2>1. IdOf(config) = Whole(registered) /\ IdOf(configcmp) = Whole(registered)
    BY <1>3 DEF RegisteredInv
  <2>2. CASE registered \in Ids
    BY <1>2, <2>1, <2>2, WholeFacts, BootCases DEF FlashInv, RamAgrees
  <2>3. CASE registered = Erased
    <3>1. config[1] = Erased
      BY <1>2, <2>1, <2>3, WholeFacts, WordRange DEF Whole
    <3>2. Whole(Erased) = Placeholder
      BY WordRange DEF Whole, Placeholder, IdOf, Blank
    <3>. QED BY <2>3, <3>1, <3>2 DEF FlashInv, RamAgrees, BootId
  <2>. QED BY <1>2, <2>2, <2>3
<1>4. ASSUME interrupted <= 1 PROVE Dev_ID \in {Placeholder, Whole(registered)}
  BY <1>4 DEF WholeInv, UsableInv, LatestInv, IdentityLatest
<1>. QED BY <1>1, <1>3, <1>4 DEF IdentityKept, IdentityRegistered, IdentityWhole, LatestInv

\* For any identities, any length of one and any number of power losses: what
\* the server issued last is the identity in use until a write is interrupted;
\* after one interrupted write it is that one or none; and neither then nor
\* later does the device use an older one, or one that its sectors lack.
THEOREM IdentitySurvives == Spec => []IdentityKept
<1>1. Init => InterruptedBounded
  BY DEF Init, InterruptedBounded
<1>2. WholeInv => BlankBeyond
  BY DEF WholeInv
<1>. QED BY <1>1, <1>2, FlashInitially, FlashInductive, WholeInitially, WholeInductive,
            LatestInitially, LatestInductive, KeptFollows, PTL DEF Spec

-----------------------------------------------------------------------------
(* The refinement: the two sectors implement the store of whole identities.  *)

LEMMA IdInFacts ==
    /\ \A id \in Ids : IdIn(Whole(id)) = id
    /\ IdIn(Placeholder) = Erased
    /\ \A x : IdIn(x) # Erased => \E id \in Ids : x = Whole(id) /\ IdIn(x) = id
<1>1. ASSUME NEW id \in Ids PROVE IdIn(Whole(id)) = id
  BY WholeFacts DEF IdIn
<1>2. IdIn(Placeholder) = Erased
  BY WholeFacts DEF IdIn
<1>3. ASSUME NEW x, IdIn(x) # Erased PROVE \E id \in Ids : x = Whole(id) /\ IdIn(x) = id
  BY <1>1, <1>3 DEF IdIn
<1>. QED BY <1>1, <1>2, <1>3

\* Something is stored only if both sectors hold the same whole identity.
LEMMA StoredIsWhole ==
    ASSUME NEW c \in Image, NEW d \in Image, IdIn(BootId(c, d)) # Erased
    PROVE  \E id \in Ids : IdIn(BootId(c, d)) = id /\ IdOf(c) = Whole(id) /\ IdOf(d) = Whole(id)
<1>1. PICK id \in Ids : BootId(c, d) = Whole(id) /\ IdIn(BootId(c, d)) = id
  BY IdInFacts
<1>2. BootId(c, d) # Placeholder
  BY <1>1, WholeFacts
<1>. QED BY <1>1, <1>2, BootCases

\* Writing the first sector exposes what is stored, stores what is in use, or
\* leaves what was stored.
LEMMA WriteCRefines ==
    ASSUME FlashInv, WholeInv, interrupted <= 1, WriteC
    PROVE  Abstract!Next \/ UNCHANGED <<inUse, stored>>
<1>0. /\ TypeOK /\ RamAgrees /\ SectorsFollow /\ at \in 1..OffsetWord
      /\ config \in Image /\ configcmp \in Image /\ C \in Image /\ D \in Image
  BY DEF FlashInv, TypeOK
<1>1. /\ C' = [C EXCEPT ![at] = config[at]] /\ C' \in Image /\ D' = D /\ pc = "writeC"
      /\ UNCHANGED <<config, configcmp, Dev_ID>>
  BY <1>0 DEF WriteC, ram, Image
<1>2. inUse' = inUse
  BY <1>1 DEF inUse
<1>3. CASE stored' = Erased
  BY <1>2, <1>3 DEF Abstract!Next, Abstract!Expose
<1>4. CASE stored' # Erased
  <2>1. PICK id \in Ids : stored' = id /\ IdOf(C') = Whole(id) /\ IdOf(D) = Whole(id)
    BY <1>0, <1>1, <1>4, StoredIsWhole DEF stored
  <2>2. \A k \in IdPart : C'[k] = id
    BY <2>1 DEF IdOf, Whole
  <2>3. \A k \in IdPart : k <= at
    <3> SUFFICES ASSUME NEW k \in IdPart, k > at PROVE FALSE
      BY <1>0 DEF IdPart
    <3>1. k \in at..OffsetWord /\ k # at
      BY <1>0, WordRange DEF IdPart, OffsetWord
    <3>2. C'[k] = Erased
      BY <1>0, <1>1, <3>1 DEF WholeInv, BlankBeyond, Image
    <3>. QED BY <2>2, <3>2
  <2>4. \A k \in IdPart : config[k] = C'[k]
    <3>1. \A k \in 1..(at - 1) : C[k] = config[k]
      BY <1>0, <1>1 DEF SectorsFollow
    <3> SUFFICES ASSUME NEW k \in IdPart PROVE config[k] = C'[k]
      OBVIOUS
    <3>2. k \in 1..OffsetWord /\ (k = at \/ k \in 1..(at - 1))
      BY <1>0, <2>3, WordRange DEF IdPart
    <3>. QED BY <1>0, <1>1, <3>1, <3>2 DEF Image
  <2>5. IdOf(config) = Whole(id)
    BY <2>2, <2>4 DEF IdOf, Whole
  <2>6. config[1] = id
    BY <2>5, WordRange DEF IdOf, Whole
  <2>7. Dev_ID # Placeholder
    <3> SUFFICES ASSUME Dev_ID = Placeholder PROVE FALSE
      OBVIOUS
    <3>1. IdOf(configcmp) = Whole(id)
      BY <1>1, <2>1 DEF WholeInv, OtherSectorKept
    <3>. QED BY <1>0, <2>5, <2>6, <3>1, BootCases DEF RamAgrees
  <2>8. PICK used \in Ids : Dev_ID = Whole(used)
    BY <2>7 DEF WholeInv, UsableInv
  <2>9. used = id
    BY <1>0, <2>5, <2>8, RamHoldsUsed, WholeFacts
  <2>10. inUse = id
    BY <2>8, <2>9, IdInFacts DEF inUse
  <2>11. CASE stored = Erased
    BY <1>2, <2>1, <2>10, <2>11 DEF Abstract!Next, Abstract!Commit
  <2>12. CASE stored # Erased
    <3>1. PICK old \in Ids : stored = old /\ IdOf(D) = Whole(old)
      BY <1>0, <2>12, StoredIsWhole DEF stored
    <3>. QED BY <1>2, <2>1, <3>1, WholeFacts
  <2>. QED BY <2>11, <2>12
<1>. QED BY <1>3, <1>4

\* So does writing the second, with the first holding its copy.
LEMMA WriteDRefines ==
    ASSUME FlashInv, WholeInv, interrupted <= 1, WriteD
    PROVE  Abstract!Next \/ UNCHANGED <<inUse, stored>>
<1>0. /\ TypeOK /\ RamAgrees /\ SectorsFollow /\ at \in 1..OffsetWord
      /\ config \in Image /\ configcmp \in Image /\ C \in Image /\ D \in Image
  BY DEF FlashInv, TypeOK
<1>1. /\ D' = [D EXCEPT ![at] = configcmp[at]] /\ D' \in Image /\ C' = C /\ C = config
      /\ pc = "writeD" /\ UNCHANGED <<config, configcmp, Dev_ID>>
  BY <1>0 DEF WriteD, ram, Image, SectorsFollow
<1>2. inUse' = inUse
  BY <1>1 DEF inUse
<1>3. CASE stored' = Erased
  BY <1>2, <1>3 DEF Abstract!Next, Abstract!Expose
<1>4. CASE stored' # Erased
  <2>1. PICK id \in Ids : stored' = id /\ IdOf(config) = Whole(id) /\ IdOf(D') = Whole(id)
    BY <1>0, <1>1, <1>4, StoredIsWhole DEF stored
  <2>2. \A k \in IdPart : D'[k] = id
    BY <2>1 DEF IdOf, Whole
  <2>3. \A k \in IdPart : k <= at
    <3> SUFFICES ASSUME NEW k \in IdPart, k > at PROVE FALSE
      BY <1>0 DEF IdPart
    <3>1. k \in at..OffsetWord /\ k # at
      BY <1>0, WordRange DEF IdPart, OffsetWord
    <3>2. D'[k] = Erased
      BY <1>0, <1>1, <3>1 DEF WholeInv, BlankBeyond, Image
    <3>. QED BY <2>2, <3>2
  <2>4. \A k \in IdPart : configcmp[k] = D'[k]
    <3>1. \A k \in 1..(at - 1) : D[k] = configcmp[k]
      BY <1>0, <1>1 DEF SectorsFollow
    <3> SUFFICES ASSUME NEW k \in IdPart PROVE configcmp[k] = D'[k]
      OBVIOUS
    <3>2. k \in 1..OffsetWord /\ (k = at \/ k \in 1..(at - 1))
      BY <1>0, <2>3, WordRange DEF IdPart
    <3>. QED BY <1>0, <1>1, <3>1, <3>2 DEF Image
  <2>5. IdOf(configcmp) = Whole(id)
    BY <2>2, <2>4 DEF IdOf, Whole
  <2>6. config[1] = id
    BY <2>1, WordRange DEF IdOf, Whole
  <2>7. Dev_ID # Placeholder
    BY <1>0, <2>1, <2>5, <2>6, BootCases DEF RamAgrees
  <2>8. PICK used \in Ids : Dev_ID = Whole(used)
    BY <2>7 DEF WholeInv, UsableInv
  <2>9. used = id
    BY <1>0, <2>1, <2>8, RamHoldsUsed, WholeFacts
  <2>10. inUse = id
    BY <2>8, <2>9, IdInFacts DEF inUse
  <2>11. CASE stored = Erased
    BY <1>2, <2>1, <2>10, <2>11 DEF Abstract!Next, Abstract!Commit
  <2>12. CASE stored # Erased
    <3>1. PICK old \in Ids : stored = old /\ IdOf(C) = Whole(old)
      BY <1>0, <2>12, StoredIsWhole DEF stored
    <3>. QED BY <1>1, <1>2, <2>1, <3>1, WholeFacts
  <2>. QED BY <2>11, <2>12
<1>. QED BY <1>3, <1>4

LEMMA StepRefines ==
    ASSUME FlashInv, WholeInv, interrupted <= 1, [Next]_vars
    PROVE  Abstract!Next \/ UNCHANGED <<inUse, stored>>
<1>0. config \in Image /\ configcmp \in Image /\ C \in Image /\ D \in Image
  BY DEF FlashInv, TypeOK
<1>1. ASSUME NEW id \in Ids, ServerIssues(id) PROVE Abstract!Next
  <2>1. Dev_ID = Placeholder /\ Dev_ID' = Whole(id) /\ C' = C /\ D' = D
    BY <1>1 DEF ServerIssues, NewIdAck
  <2>2. inUse = Erased /\ inUse' = id /\ stored' = stored
    <3>1. inUse' = IdIn(Whole(id)) /\ inUse = IdIn(Placeholder)
      BY <2>1 DEF inUse, IdIn, Whole
    <3>. QED BY <2>1, <3>1, IdInFacts DEF stored
  <2>. QED BY <2>2 DEF Abstract!Next, Abstract!Issue
<1>2. ASSUME NEW o \in Offsets, Calibrate(o) PROVE UNCHANGED <<inUse, stored>>
  BY <1>2 DEF Calibrate, inUse, stored
<1>3. CASE EraseC \/ EraseD
  <2>1. Dev_ID' = Dev_ID
    BY <1>3 DEF EraseC, EraseD, ram
  <2>2. BootId(C', D') = Placeholder
    <3>1. IdOf(Blank)[1] = Erased /\ Blank[1] = Erased
      BY WordRange DEF IdOf, Blank
    <3>2. CASE EraseC
      BY <3>1, <3>2 DEF EraseC, BootId
    <3>3. CASE EraseD
      BY <1>0, <3>1, <3>3, WholeFacts DEF EraseD, BootId
    <3>. QED BY <1>3, <3>2, <3>3
  <2>3. inUse' = inUse /\ stored' = Erased
    BY <2>1, <2>2, IdInFacts DEF inUse, stored
  <2>. QED BY <2>3 DEF Abstract!Next, Abstract!Expose
<1>4. CASE Reboot \/ PowerLoss
  <2>1. Dev_ID' = BootId(C, D) /\ C' = C /\ D' = D
    BY <1>4 DEF Reboot, PowerLoss, Booted
  <2>2. inUse' = stored /\ stored' = stored
    BY <2>1 DEF inUse, stored
  <2>. QED BY <2>2 DEF Abstract!Next, Abstract!Reboot
<1>5. CASE UNCHANGED vars
  BY <1>5 DEF vars, ram, inUse, stored
<1>. QED BY <1>1, <1>2, <1>3, <1>4, <1>5, WriteCRefines, WriteDRefines DEF Next

LEMMA InitRefines == Init => Abstract!Init
<1> SUFFICES ASSUME Init PROVE Abstract!Init
  OBVIOUS
<1>1. inUse = stored
  BY DEF Init, inUse, stored
<1>2. stored \in Ids \cup {Erased}
  BY IdInFacts DEF stored
<1>. QED BY <1>1, <1>2 DEF Abstract!Init

\* The two sectors, written word by word with power lost anywhere, implement
\* the store of whole identities, for any identities and any length of one.
THEOREM Refinement == Spec => ImplementsStore
<1>1. Init => InterruptedBounded
  BY DEF Init, InterruptedBounded
<1>2. FlashInv /\ WholeInv /\ [Next]_vars =>
        [interrupted <= 1 /\ interrupted' <= 1 => Abstract!Next]_<<inUse, stored>>
  BY StepRefines
<1>. QED BY <1>1, <1>2, InitRefines, FlashInitially, FlashInductive, WholeInitially, WholeInductive,
            PTL DEF Spec, ImplementsStore

=============================================================================

---------------------------- MODULE DetectProofs ----------------------------
(***************************************************************************)
(* Proofs about gas detection, for any readings, thresholds and windows in  *)
(* which two levels cannot both have a quorum.                              *)
(***************************************************************************)
EXTENDS Detect, FiniteSetTheorems, TLAPS

USE DetectAssumption DEF DetectAssumption

Last == recent[Len(recent)]

\* What a lasting level has to show: in this window a vote for each of its
\* passes, or all of them if it is older; and the alarm, once it had a quorum
\* in an earlier window.
StreakInv ==
    /\ recent = <<>> => streak = 0 /\ Cnt_Warning3 = 0
    /\ recent # <<>> =>
         /\ streak >= 1
         /\ streak <= Cnt_Warning3 => Cnt_Warning[Last] >= streak
         /\ streak > Cnt_Warning3 => Cnt_Warning[Last] = Cnt_Warning3
         /\ streak - Cnt_Warning3 - 1 >= QUORUM => flag_Alarm = Last

\* The report and its sources are in the bands of their levels.
ReportInv ==
    /\ ReportMatchesAlarm
    /\ PPM_Updata012[0] <= LOW
    /\ Cnt_Warning[1] > 0 => PPM_Updata012[1] > LOW
    /\ PPM_Updata012[1] <= HIGH
    /\ Cnt_Warning[2] > 0 => PPM_Updata012[2] > HIGH

LEMMA LevelTyped == ASSUME NEW p \in Nat PROVE Level(p) \in Levels
  BY DEF Level, Levels

LEMMA RelativeTyped ==
    ASSUME TypeOK, NEW adc \in Readings PROVE Relative(adc) \in Nat
  BY DEF Relative, TypeOK

LEMMA QuorumPositive == QUORUM >= 1 /\ WINDOW >= 1
  OBVIOUS

\* The history after a pass: it ends with the level just read.
LEMMA Remembered ==
    ASSUME TypeOK, NEW l \in Levels, Remember(l)
    PROVE  /\ recent' \in Seq(Levels)
           /\ recent' # <<>>
           /\ Last' = l
           /\ streak' = IF recent # <<>> /\ Last # l THEN 1
                        ELSE IF streak < Patience THEN streak + 1 ELSE streak
           /\ streak' \in 0..Patience
<1> DEFINE kept == IF Len(recent) < WINDOW THEN recent ELSE Tail(recent)
<1>1. kept \in Seq(Levels)
  <2>1. CASE Len(recent) < WINDOW
    BY <2>1 DEF TypeOK
  <2>2. CASE ~(Len(recent) < WINDOW)
    <3>1. recent \in Seq(Levels) /\ recent # <<>>
      BY <2>2, QuorumPositive DEF TypeOK
    <3>. QED BY <3>1, <2>2
  <2>. QED BY <2>1, <2>2
<1>2. recent' = Append(kept, l)
  BY DEF Remember
<1> HIDE DEF kept
<1>3. recent' \in Seq(Levels) /\ Len(recent') = Len(kept) + 1 /\ recent'[Len(kept) + 1] = l
  BY <1>1, <1>2
<1>4. recent' # <<>> /\ Last' = l
  BY <1>1, <1>3 DEF Last
<1>5. streak' = IF recent # <<>> /\ Last # l THEN 1
                ELSE IF streak < Patience THEN streak + 1 ELSE streak
  BY DEF Remember, Last
<1>6. streak' \in 0..Patience
  BY <1>5, QuorumPositive DEF TypeOK, Patience
<1>. QED BY <1>3, <1>4, <1>5, <1>6

\* A vote adds one to its level and leaves the others alone.
LEMMA Voted ==
    ASSUME TypeOK, NEW p \in Nat, Voting, Vote(p)
    PROVE  /\ Cnt_Warning3' = Cnt_Warning3 + 1 /\ Cnt_Warning3' \in 0..WINDOW
           /\ Cnt_Warning' \in [Levels -> 0..WINDOW]
           /\ Cnt_Warning'[0] + Cnt_Warning'[1] + Cnt_Warning'[2] = Cnt_Warning3'
           /\ Cnt_Warning'[Level(p)] = Cnt_Warning[Level(p)] + 1
           /\ \A k \in Levels \ {Level(p)} : Cnt_Warning'[k] = Cnt_Warning[k]
           /\ PPM_Updata012' \in [Levels -> Nat]
           /\ PPM_Updata012'[Level(p)] = p
           /\ \A k \in Levels \ {Level(p)} : PPM_Updata012'[k] = PPM_Updata012[k]
           /\ UNCHANGED verdict
<1> DEFINE l == Level(p)
<1>1. l \in Levels
  BY LevelTyped
<1>2. /\ Cnt_Warning3 \in 0..WINDOW /\ Cnt_Warning3 < WINDOW
      /\ Cnt_Warning \in [Levels -> 0..WINDOW]
      /\ Cnt_Warning[0] + Cnt_Warning[1] + Cnt_Warning[2] = Cnt_Warning3
      /\ PPM_Updata012 \in [Levels -> Nat]
  BY DEF TypeOK, Voting
<1>3. /\ Cnt_Warning3' = Cnt_Warning3 + 1
      /\ Cnt_Warning' = [Cnt_Warning EXCEPT ![l] = Cnt_Warning[l] + 1]
      /\ PPM_Updata012' = [PPM_Updata012 EXCEPT ![l] = p]
      /\ UNCHANGED verdict
  BY DEF Vote
<1> HIDE DEF l
<1>4. Cnt_Warning[l] + 1 \in 0..WINDOW
  BY <1>1, <1>2 DEF Levels
<1>5. /\ Cnt_Warning' \in [Levels -> 0..WINDOW]
      /\ Cnt_Warning'[l] = Cnt_Warning[l] + 1
      /\ \A k \in Levels \ {l} : Cnt_Warning'[k] = Cnt_Warning[k]
  BY <1>1, <1>2, <1>3, <1>4
<1>6. Cnt_Warning'[0] + Cnt_Warning'[1] + Cnt_Warning'[2] = Cnt_Warning3'
  BY <1>1, <1>2, <1>3, <1>5 DEF Levels
<1>7. /\ PPM_Updata012' \in [Levels -> Nat] /\ PPM_Updata012'[l] = p
      /\ \A k \in Levels \ {l} : PPM_Updata012'[k] = PPM_Updata012[k]
  BY <1>1, <1>2, <1>3
<1>. QED BY <1>2, <1>3, <1>5, <1>6, <1>7 DEF l

\* Counting: a level with a quorum is the only one, and becomes the alarm.
LEMMA Counted ==
    ASSUME TypeOK, ~Voting, CountVotes
    PROVE  /\ Cnt_Warning3 = WINDOW /\ Cnt_Warning3' = 0
           /\ Cnt_Warning' = [k \in Levels |-> 0]
           /\ UNCHANGED PPM_Updata012
           /\ \A k \in Levels : HasQuorum(k) => flag_Alarm' = k
           /\ \/ UNCHANGED verdict
              \/ \E k \in Levels : HasQuorum(k) /\ Wins(k)
<1>1. /\ Cnt_Warning3 = WINDOW
      /\ Cnt_Warning[0] + Cnt_Warning[1] + Cnt_Warning[2] = WINDOW
      /\ \A k \in Levels : Cnt_Warning[k] \in 0..WINDOW
  BY DEF TypeOK, Voting
<1>2. \A j, k \in Levels : HasQuorum(j) /\ HasQuorum(k) => j = k
  BY <1>1 DEF HasQuorum, Levels
<1>3. \/ UNCHANGED verdict /\ \A k \in Levels : ~HasQuorum(k)
      \/ \E k \in Levels : HasQuorum(k) /\ Wins(k)
  BY DEF CountVotes, Levels
<1>4. \A k \in Levels : HasQuorum(k) => flag_Alarm' = k
  BY <1>2, <1>3 DEF Wins
<1>. QED BY <1>1, <1>3, <1>4 DEF CountVotes, Clear

LEMMA WonTyped ==
    ASSUME TypeOK, NEW k \in Levels, Wins(k)
    PROVE  /\ PPM_Updata' \in Nat /\ flag_Alarm' \in Levels
           /\ flag_Alarm' = k /\ PPM_Updata' = (PPM_Updata012[k] * 5) \div 10
<1>1. PPM_Updata012[k] \in Nat
  BY DEF TypeOK
<1>2. \A n \in Nat : (n * 5) \div 10 \in Nat
  OBVIOUS
<1>. QED BY <1>1, <1>2 DEF Wins, Report

-----------------------------------------------------------------------------
\* Every variable keeps its type, and the votes add up to the passes of the
\* window.
LEMMA TypeInitially == Init => TypeOK
  BY DEF Init, TypeOK, Levels, SensorModes, Patience

LEMMA TypeInductive == TypeOK /\ [Next]_vars => TypeOK'
<1> SUFFICES ASSUME TypeOK, [Next]_vars PROVE TypeOK'
  OBVIOUS
<1>1. ASSUME NEW adc \in Readings, RunDetect(adc) PROVE TypeOK'
  <2>1. PPM_H' \in Nat /\ Level(PPM_H') \in Levels
    BY <1>1, RelativeTyped, LevelTyped DEF RunDetect
  <2>2. recent' \in Seq(Levels) /\ streak' \in 0..Patience
    BY <1>1, <2>1, Remembered DEF RunDetect
  <2>3. UNCHANGED <<SensorMode, status, adoffset, Alarm_H>>
    BY <1>1 DEF RunDetect
  <2>4. CASE Voting
    <3>1. Vote(PPM_H')
      BY <1>1, <2>4 DEF RunDetect
    <3>. QED BY <2>1, <2>2, <2>3, <2>4, <3>1, Voted DEF TypeOK, verdict
  <2>5. CASE ~Voting
    <3>1. CountVotes
      BY <1>1, <2>5 DEF RunDetect
    <3>2. /\ Cnt_Warning3' \in 0..WINDOW
          /\ Cnt_Warning' \in [Levels -> 0..WINDOW]
          /\ Cnt_Warning'[0] + Cnt_Warning'[1] + Cnt_Warning'[2] = Cnt_Warning3'
      BY <2>5, <3>1, Counted DEF Levels
    <3>3. PPM_Updata' \in Nat /\ flag_Alarm' \in Levels
      BY <2>5, <3>1, Counted, WonTyped DEF verdict, TypeOK
    <3>4. PPM_Updata012' \in [Levels -> Nat]
      BY <2>5, <3>1, Counted DEF TypeOK
    <3>. QED BY <2>1, <2>2, <2>3, <3>2, <3>3, <3>4 DEF TypeOK
  <2>. QED BY <2>4, <2>5
<1>2. ASSUME NEW adc \in Readings, LedTest(adc) PROVE TypeOK'
  <2>0. status \in 0..3 /\ SensorMode \in SensorModes /\ adoffset \in Nat \cup {-1}
    BY DEF TypeOK
  <2>1. status' \in 0..3
    BY <1>2, <2>0 DEF LedTest
  <2>2. SensorMode' \in SensorModes /\ adoffset' \in Nat \cup {-1}
    BY <1>2, <2>0 DEF LedTest, SensorModes
  <2>. QED BY <1>2, <2>1, <2>2 DEF LedTest, TypeOK, votes, verdict, history
<1>3. ASSUME NEW adc \in Readings, LedTest1(adc) PROVE TypeOK'
  BY <1>3 DEF LedTest1, TypeOK, votes, verdict, history
<1>4. ASSUME NEW v \in Limits, SetPpm(v) PROVE TypeOK'
  BY <1>4 DEF SetPpm, TypeOK, votes, verdict, history
<1>5. CASE Elsewhere
  BY <1>5 DEF Elsewhere, TypeOK, votes, verdict, history
<1>6. CASE UNCHANGED vars
  BY <1>6 DEF vars, TypeOK, votes, verdict, history
<1>. QED BY <1>1, <1>2, <1>3, <1>4, <1>5, <1>6 DEF Next

THEOREM DetectTypeCorrect == Spec => []TypeOK
  BY TypeInitially, TypeInductive, PTL DEF Spec

-----------------------------------------------------------------------------
\* Only a pass of Detect touches the votes, the verdict and the history.
LEMMA OnlyDetect ==
    ASSUME [Next]_vars
    PROVE  \/ \E adc \in Readings : RunDetect(adc)
           \/ UNCHANGED <<Cnt_Warning3, Cnt_Warning, PPM_Updata012, PPM_Updata, flag_Alarm, recent, streak>>
  BY DEF Next, LedTest, LedTest1, SetPpm, Elsewhere, vars, votes, verdict, history

LEMMA StreakInductive == TypeOK /\ StreakInv /\ [Next]_vars => StreakInv'
<1> SUFFICES ASSUME TypeOK, StreakInv, [Next]_vars PROVE StreakInv'
  OBVIOUS
<1>1. ASSUME NEW adc \in Readings, RunDetect(adc) PROVE StreakInv'
  <2> DEFINE l == Level(PPM_H')
  <2>1. PPM_H' \in Nat /\ l \in Levels
    BY <1>1, RelativeTyped, LevelTyped DEF RunDetect
  <2>2. /\ recent' # <<>> /\ Last' = l
        /\ streak' = IF recent # <<>> /\ Last # l THEN 1
                     ELSE IF streak < Patience THEN streak + 1 ELSE streak
    BY <1>1, <2>1, Remembered DEF RunDetect
  <2>3. /\ Cnt_Warning3 \in 0..WINDOW /\ streak \in 0..Patience
        /\ \A k \in Levels : Cnt_Warning[k] \in 0..WINDOW
    BY DEF TypeOK
  <2> HIDE DEF l
  <2>4. CASE recent = <<>> \/ Last # l
    <3>1. streak' = 1
      BY <2>2, <2>3, <2>4, QuorumPositive DEF StreakInv, Patience
    <3>2. CASE Voting
      <4>1. Cnt_Warning3' \in Nat /\ Cnt_Warning3' >= 1 /\ Cnt_Warning'[l] >= 1
        BY <1>1, <2>1, <2>3, <3>2, Voted DEF RunDetect, l
      <4>. QED BY <2>2, <3>1, <4>1, QuorumPositive DEF StreakInv
    <3>3. CASE ~Voting
      <4>1. Cnt_Warning3' = 0 /\ Cnt_Warning'[l] = 0
        BY <1>1, <2>1, <3>3, Counted DEF RunDetect, l
      <4>. QED BY <2>2, <3>1, <4>1, QuorumPositive DEF StreakInv
    <3>. QED BY <3>2, <3>3
  <2>5. CASE recent # <<>> /\ Last = l
    <3>1. /\ streak >= 1
          /\ streak <= Cnt_Warning3 => Cnt_Warning[l] >= streak
          /\ streak > Cnt_Warning3 => Cnt_Warning[l] = Cnt_Warning3
          /\ streak - Cnt_Warning3 - 1 >= QUORUM => flag_Alarm = l
      BY <2>5 DEF StreakInv
    <3>2. streak' = IF streak < Patience THEN streak + 1 ELSE streak
      BY <2>2, <2>5
    <3>3. Cnt_Warning[l] \in 0..WINDOW /\ Patience \in Nat /\ Patience >= WINDOW + QUORUM + 1
      BY <2>1, <2>3, QuorumPositive DEF Patience
    <3>4. CASE Voting
      <4>1. /\ Cnt_Warning3' = Cnt_Warning3 + 1 /\ Cnt_Warning3' <= WINDOW
            /\ Cnt_Warning'[l] = Cnt_Warning[l] + 1
            /\ flag_Alarm' = flag_Alarm
        BY <1>1, <2>1, <3>4, Voted DEF RunDetect, verdict, l
      <4>2. /\ streak' >= 1
            /\ streak' <= Cnt_Warning3' => Cnt_Warning'[l] >= streak'
            /\ streak' > Cnt_Warning3' => Cnt_Warning'[l] = Cnt_Warning3'
        BY <2>3, <3>1, <3>2, <3>3, <4>1, QuorumPositive
      <4>3. streak' - Cnt_Warning3' - 1 >= QUORUM => flag_Alarm' = l
        BY <2>3, <3>1, <3>2, <3>3, <4>1, QuorumPositive
      <4>. QED BY <2>2, <4>2, <4>3 DEF StreakInv
    <3>5. CASE ~Voting
      <4>1. /\ Cnt_Warning3 = WINDOW /\ Cnt_Warning3' = 0
            /\ Cnt_Warning'[l] = 0
            /\ Cnt_Warning[l] >= QUORUM => flag_Alarm' = l
        BY <1>1, <2>1, <3>5, Counted DEF RunDetect, HasQuorum, l
      <4>2. streak' - Cnt_Warning3' - 1 >= QUORUM => flag_Alarm' = l
        BY <2>3, <3>1, <3>2, <3>3, <4>1, QuorumPositive
      <4>3. streak' > Cnt_Warning3'
        BY <2>3, <3>1, <3>2, <4>1
      <4>. QED BY <2>2, <2>3, <3>1, <3>2, <4>1, <4>2, <4>3 DEF StreakInv
    <3>. QED BY <3>4, <3>5
  <2>. QED BY <2>4, <2>5
<1>2. CASE UNCHANGED <<Cnt_Warning3, Cnt_Warning, PPM_Updata012, PPM_Updata, flag_Alarm, recent, streak>>
  BY <1>2 DEF StreakInv, Last
<1>. QED BY <1>1, <1>2, OnlyDetect

LEMMA StreakInitially == Init => StreakInv
  BY DEF Init, StreakInv

\* A level that lasts Patience passes is the alarm, however the windows fall.
THEOREM AlarmIsPrompt == Spec => []LastingLevelShown
<1>1. TypeOK /\ StreakInv => LastingLevelShown
  BY QuorumPositive DEF StreakInv, LastingLevelShown, TypeOK, Patience, Last
<1>. QED BY <1>1, DetectTypeCorrect, StreakInitially, StreakInductive, PTL DEF Spec

-----------------------------------------------------------------------------
LEMMA ReportInductive == TypeOK /\ ReportInv /\ [Next]_vars => ReportInv'
<1> SUFFICES ASSUME TypeOK, ReportInv, [Next]_vars PROVE ReportInv'
  OBVIOUS
<1>1. ASSUME NEW adc \in Readings, RunDetect(adc) PROVE ReportInv'
  <2>1. PPM_H' \in Nat /\ Level(PPM_H') \in Levels
    BY <1>1, RelativeTyped, LevelTyped DEF RunDetect
  <2>2. CASE Voting
    <3>1. Vote(PPM_H')
      BY <1>1, <2>2 DEF RunDetect
    <3>2. UNCHANGED <<PPM_Updata, flag_Alarm>>
      BY <3>1 DEF Vote, verdict
    <3>3. ReportMatchesAlarm'
      BY <3>2 DEF ReportInv, ReportMatchesAlarm
    <3>4. \A k \in Levels :
             IF k = Level(PPM_H') THEN PPM_Updata012'[k] = PPM_H'
             ELSE PPM_Updata012'[k] = PPM_Updata012[k] /\ Cnt_Warning'[k] = Cnt_Warning[k]
      BY <2>1, <2>2, <3>1, Voted
    <3>. QED BY <2>1, <3>3, <3>4 DEF ReportInv, Level, Levels
  <2>3. CASE ~Voting
    <3>1. CountVotes
      BY <1>1, <2>3 DEF RunDetect
    <3>2. UNCHANGED PPM_Updata012 /\ Cnt_Warning' = [k \in Levels |-> 0]
      BY <2>3, <3>1, Counted
    <3>3. CASE UNCHANGED verdict
      BY <3>2, <3>3 DEF ReportInv, ReportMatchesAlarm, verdict, Levels
    <3>4. ASSUME NEW k \in Levels, HasQuorum(k), Wins(k) PROVE ReportMatchesAlarm'
      <4>1. flag_Alarm' = k /\ PPM_Updata' = (PPM_Updata012[k] * 5) \div 10
        BY <3>4, WonTyped
      <4>2. Cnt_Warning[k] > 0
        BY <3>4, QuorumPositive DEF HasQuorum, TypeOK
      <4>3. PPM_Updata012[k] \in Nat
        BY DEF TypeOK
      <4>4. /\ k = 0 => PPM_Updata012[k] <= LOW
            /\ k = 1 => PPM_Updata012[k] > LOW /\ PPM_Updata012[k] <= HIGH
            /\ k = 2 => PPM_Updata012[k] > HIGH
        BY <4>2 DEF ReportInv
      <4>5. \A n \in Nat : (n * 5) \div 10 = n \div 2
        OBVIOUS
      <4>6. \A m, n \in Nat : m <= n => m \div 2 <= n \div 2
        OBVIOUS
      <4>. QED BY <4>1, <4>3, <4>4, <4>5, <4>6 DEF ReportMatchesAlarm, Levels
    <3>5. ReportMatchesAlarm'
      BY <2>3, <3>1, <3>3, <3>4, Counted DEF ReportInv
    <3>. QED BY <3>2, <3>5 DEF ReportInv, Levels
  <2>. QED BY <2>2, <2>3
<1>2. CASE UNCHANGED <<Cnt_Warning3, Cnt_Warning, PPM_Updata012, PPM_Updata, flag_Alarm, recent, streak>>
  BY <1>2 DEF ReportInv, ReportMatchesAlarm
<1>. QED BY <1>1, <1>2, OnlyDetect

LEMMA ReportInitially == Init => ReportInv
  BY DEF Init, ReportInv, ReportMatchesAlarm, Levels

\* The reported value and the alarm are always of the same level.
THEOREM ReportAgrees == Spec => []ReportMatchesAlarm
<1>1. ReportInv => ReportMatchesAlarm
  BY DEF ReportInv
<1>. QED BY <1>1, DetectTypeCorrect, ReportInitially, ReportInductive, PTL DEF Spec

\* Alarm and reported value follow a level that lasts, and agree.
THEOREM VerdictCorrect == Spec => []VerdictTrue
  BY AlarmIsPrompt, ReportAgrees, PTL DEF VerdictTrue

-----------------------------------------------------------------------------
\* The passes of this window that voted for a level are among the last ones,
\* and are as many as its votes.
Voters(l) == {i \in (Len(recent) - Cnt_Warning3 + 1)..Len(recent) : recent[i] = l}
BackedInv ==
    /\ Cnt_Warning3 <= Len(recent) /\ Len(recent) <= WINDOW
    /\ \A l \in Levels : Cardinality(Voters(l)) = Cnt_Warning[l]

LEMMA VotersFinite == ASSUME TypeOK, NEW l \in Levels PROVE IsFiniteSet(Voters(l))
<1> DEFINE S == (Len(recent) - Cnt_Warning3 + 1)..Len(recent)
<1>1. IsFiniteSet(S)
  BY FS_Interval DEF TypeOK
<1>2. Voters(l) \in SUBSET S
  BY DEF Voters
<1>. QED BY <1>1, <1>2, FS_Subset

\* A set of numbers moved by d has as many elements.
LEMMA MovedSet ==
    ASSUME NEW S, S \subseteq Int, IsFiniteSet(S), NEW d \in Int
    PROVE  LET T == {i - d : i \in S} IN
           IsFiniteSet(T) /\ Cardinality(T) = Cardinality(S)
<1> DEFINE T == {i - d : i \in S}
           f == [i \in S |-> i - d]
<1>1. f \in Bijection(S, T)
  <2>1. f \in [S -> T] /\ \A t \in T : \E i \in S : f[i] = t
    OBVIOUS
  <2>2. \A i, j \in S : f[i] = f[j] => i = j
    OBVIOUS
  <2>. QED BY <2>1, <2>2 DEF Bijection, Injection, Surjection, IsInjective
<1>2. ExistsBijection(S, T)
  BY <1>1 DEF ExistsBijection
<1>. QED BY <1>2, FS_Bijection

\* A pass moves the history by d: not at all, or by one once it is full.
LEMMA Moved ==
    ASSUME TypeOK, NEW l \in Levels, Remember(l)
    PROVE  LET d == IF Len(recent) < WINDOW THEN 0 ELSE 1 IN
           /\ Len(recent') = Len(recent) + 1 - d
           /\ \A i \in 1..(Len(recent) - d) : recent'[i] = recent[i + d]
           /\ recent'[Len(recent) + 1 - d] = l
<1> DEFINE d == IF Len(recent) < WINDOW THEN 0 ELSE 1
           kept == IF Len(recent) < WINDOW THEN recent ELSE Tail(recent)
<1>1. /\ kept \in Seq(Levels) /\ Len(kept) = Len(recent) - d
      /\ \A i \in 1..Len(kept) : kept[i] = recent[i + d]
  <2>1. CASE Len(recent) < WINDOW
    BY <2>1 DEF TypeOK
  <2>2. CASE ~(Len(recent) < WINDOW)
    <3>1. recent \in Seq(Levels) /\ recent # <<>>
      BY <2>2, QuorumPositive DEF TypeOK
    <3>. QED BY <3>1, <2>2
  <2>. QED BY <2>1, <2>2
<1>2. recent' = Append(kept, l)
  BY DEF Remember
<1> HIDE DEF kept
<1>3. /\ Len(recent') = Len(kept) + 1
      /\ \A i \in 1..Len(kept) : recent'[i] = kept[i]
      /\ recent'[Len(kept) + 1] = l
  BY <1>1, <1>2
<1>. QED BY <1>1, <1>3

LEMMA BackedInductive == TypeOK /\ BackedInv /\ [Next]_vars => BackedInv'
<1> SUFFICES ASSUME TypeOK, BackedInv, [Next]_vars PROVE BackedInv'
  OBVIOUS
<1>1. ASSUME NEW adc \in Readings, RunDetect(adc) PROVE BackedInv'
  <2> DEFINE l == Level(PPM_H')
             d == IF Len(recent) < WINDOW THEN 0 ELSE 1
             n == Len(recent)
             c == Cnt_Warning3
  <2>1. PPM_H' \in Nat /\ l \in Levels /\ Remember(l)
    BY <1>1, RelativeTyped, LevelTyped DEF RunDetect
  <2>2. /\ Len(recent') = n + 1 - d
        /\ \A i \in 1..(n - d) : recent'[i] = recent[i + d]
        /\ recent'[n + 1 - d] = l
    BY <2>1, Moved
  <2>3. /\ n \in Nat /\ d \in {0, 1} /\ c \in Nat /\ c <= n /\ n <= WINDOW
        /\ (d = 1 => n = WINDOW) /\ (d = 0 => n < WINDOW)
    BY DEF BackedInv, TypeOK
  <2> HIDE DEF l, d
  <2>4. Len(recent') <= WINDOW
    BY <2>2, <2>3
  <2>5. CASE Voting
    <3>1. /\ Cnt_Warning3' = c + 1 /\ c < WINDOW
          /\ Cnt_Warning'[l] = Cnt_Warning[l] + 1
          /\ \A k \in Levels \ {l} : Cnt_Warning'[k] = Cnt_Warning[k]
      BY <1>1, <2>1, <2>5, Voted DEF RunDetect, l, Voting
    <3>2. Cnt_Warning3' <= Len(recent')
      BY <2>2, <2>3, <3>1
    <3>3. ASSUME NEW k \in Levels PROVE Cardinality(Voters(k)') = Cnt_Warning'[k]
      <4> DEFINE T == {i - d : i \in Voters(k)}
      <4>1. IsFiniteSet(T) /\ Cardinality(T) = Cnt_Warning[k]
        <5>1. Voters(k) \subseteq Int
          BY <2>3 DEF Voters
        <5>2. Cardinality(Voters(k)) = Cnt_Warning[k]
          BY DEF BackedInv
        <5>. QED BY <5>1, <5>2, <2>3, VotersFinite, MovedSet
      <4>2. /\ Voters(k)' = {i \in (n - d - c + 1)..(n + 1 - d) : recent'[i] = k}
            /\ n - d - c + 1 >= 1
        BY <2>2, <2>3, <3>1 DEF Voters
      <4>3. T = {j \in (n - d - c + 1)..(n - d) : recent'[j] = k}
        <5>1. ASSUME NEW i \in Voters(k)
              PROVE  i - d \in (n - d - c + 1)..(n - d) /\ recent'[i - d] = k
          <6>1. i \in (n - c + 1)..n /\ recent[i] = k
            BY DEF Voters
          <6>2. i - d \in 1..(n - d) /\ (i - d) + d = i
            BY <2>3, <3>1, <6>1
          <6>. QED BY <2>2, <2>3, <6>1, <6>2
        <5>2. ASSUME NEW j \in (n - d - c + 1)..(n - d), recent'[j] = k
              PROVE  j \in T
          <6>1. j + d \in (n - c + 1)..n /\ j \in 1..(n - d) /\ (j + d) - d = j
            BY <2>3, <4>2
          <6>2. j + d \in Voters(k)
            BY <2>2, <5>2, <6>1 DEF Voters
          <6>. QED BY <6>1, <6>2
        <5>. QED BY <5>1, <5>2
      <4>4. n + 1 - d \notin T
        BY <2>3, <4>3
      <4>5. CASE k = l
        <5>1. Voters(k)' = T \cup {n + 1 - d}
          BY SMTT(40), <2>2, <2>3, <4>2, <4>3, <4>5
        <5>2. Cardinality(T \cup {n + 1 - d}) = Cardinality(T) + 1
          BY <4>1, <4>4, FS_AddElement
        <5>. QED BY <3>1, <4>1, <4>5, <5>1, <5>2
      <4>6. CASE k # l
        <5>1. Voters(k)' = T
          BY SMTT(40), <2>2, <2>3, <4>2, <4>3, <4>6
        <5>. QED BY <3>1, <4>1, <4>6, <5>1
      <4>. QED BY <4>5, <4>6
    <3>. QED BY <2>4, <3>2, <3>3 DEF BackedInv
  <2>6. CASE ~Voting
    <3>1. Cnt_Warning3' = 0 /\ Cnt_Warning' = [k \in Levels |-> 0]
      BY <1>1, <2>1, <2>6, Counted DEF RunDetect
    <3>2. ASSUME NEW k \in Levels PROVE Cardinality(Voters(k)') = Cnt_Warning'[k]
      <4>1. Voters(k)' = {}
        BY <2>2, <2>3, <3>1 DEF Voters
      <4>. QED BY <3>1, <4>1, FS_EmptySet
    <3>. QED BY <2>2, <2>3, <2>4, <3>1, <3>2 DEF BackedInv
  <2>. QED BY <2>5, <2>6
<1>2. CASE UNCHANGED <<Cnt_Warning3, Cnt_Warning, PPM_Updata012, PPM_Updata, flag_Alarm, recent, streak>>
  BY <1>2 DEF BackedInv, Voters
<1>. QED BY <1>1, <1>2, OnlyDetect

LEMMA BackedInitially == Init => BackedInv
<1> SUFFICES ASSUME Init PROVE BackedInv
  OBVIOUS
<1>1. recent = <<>> /\ Cnt_Warning3 = 0 /\ Cnt_Warning = [l \in Levels |-> 0]
  BY DEF Init
<1>2. \A l \in Levels : Voters(l) = {}
  BY <1>1 DEF Voters
<1>3. \A l \in Levels : Cardinality(Voters(l)) = Cnt_Warning[l]
  BY <1>1, <1>2, FS_EmptySet
<1>4. Len(recent) = 0
  BY <1>1
<1>. QED BY <1>1, <1>3, <1>4, QuorumPositive DEF BackedInv

\* The alarm changes only to a level that QUORUM of the last WINDOW readings
\* had.
THEOREM AlarmIsBacked == Spec => AlarmBacked
<1>1. TypeOK /\ BackedInv /\ [Next]_vars
        => [flag_Alarm' # flag_Alarm => Cardinality(Backing(flag_Alarm')) >= QUORUM]_vars
  <2> SUFFICES ASSUME TypeOK, BackedInv, [Next]_vars, flag_Alarm' # flag_Alarm
               PROVE  Cardinality(Backing(flag_Alarm')) >= QUORUM
    OBVIOUS
  <2>1. PICK adc \in Readings : RunDetect(adc)
    BY OnlyDetect
  <2>2. ~Voting
    BY <2>1 DEF RunDetect, Vote, verdict
  <2>3. CountVotes
    BY <2>1, <2>2 DEF RunDetect
  <2>4. PICK k \in Levels : HasQuorum(k) /\ flag_Alarm' = k
    BY <2>2, <2>3, Counted DEF verdict, Wins
  <2>5. Cnt_Warning3 = WINDOW /\ Len(recent) = WINDOW
    BY <2>2, <2>3, Counted DEF BackedInv, TypeOK
  <2>6. Backing(k) = Voters(k)
    BY <2>5 DEF Backing, Voters
  <2>7. Cardinality(Backing(k)) = Cnt_Warning[k]
    BY <2>6 DEF BackedInv
  <2>. QED BY <2>4, <2>7 DEF HasQuorum
<1>. QED BY <1>1, DetectTypeCorrect, BackedInitially, BackedInductive, PTL DEF Spec, AlarmBacked

=============================================================================

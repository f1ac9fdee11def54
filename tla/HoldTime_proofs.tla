--------------------------- MODULE HoldTime_proofs ---------------------------
(***************************************************************************)
(* What the announced time says about the estimate, for every setting of a *)
(* queue and every number: an announced time is the limited estimate       *)
(* rounded to the unit of the mode (SayTimeRounds).  And what a listener    *)
(* makes of the files is what was meant: two recursions, over the digits of *)
(* a number and over the files, unfolded by a least counterexample (Least). *)
(***************************************************************************)
EXTENDS HoldTime, SequenceTheorems, WellFoundedInduction, TLAPS

Bases == {1, 10, 30, 60}

\* A whole number of units, at most half of a unit away.
IsRounding(result, value, base) ==
  /\ result \in Nat
  /\ 2 * (result - value) <= base /\ 2 * (value - result) <= base
  /\ value % base = 0 => result = value

\* roundSeconds rounds to whole units of ten seconds, half a minute or a minute.
LEMMA RoundSecondsRounds ==
  ASSUME NEW value \in Nat, NEW base \in Bases
  PROVE  IsRounding(RoundSeconds(value, base), value, base)
<1>1. CASE base = 1  BY <1>1 DEF IsRounding, RoundSeconds
<1>2. CASE base = 10 BY <1>2 DEF IsRounding, RoundSeconds
<1>3. CASE base = 30 BY <1>3 DEF IsRounding, RoundSeconds
<1>4. CASE base = 60 BY <1>4 DEF IsRounding, RoundSeconds
<1> QED BY <1>1, <1>2, <1>3, <1>4 DEF Bases

\* More seconds are not rounded to fewer.
LEMMA RoundSecondsGrows ==
  ASSUME NEW value \in Nat, NEW more \in Nat, value <= more, NEW base \in Bases
  PROVE  RoundSeconds(value, base) <= RoundSeconds(more, base)
<1>1. CASE base = 1  BY <1>1 DEF RoundSeconds
<1>2. CASE base = 10 BY <1>2 DEF RoundSeconds
<1>3. CASE base = 30 BY <1>3 DEF RoundSeconds
<1>4. CASE base = 60 BY <1>4 DEF RoundSeconds
<1> QED BY <1>1, <1>2, <1>3, <1>4 DEF Bases

\* The unit of an announced time is one of four.
LEMMA BaseType ==
  ASSUME NEW time \in Nat, NEW mode \in Modes
  PROVE  Base(time, mode) \in Bases
BY DEF Base, Bases, Modes

\* mixMinutesAndSeconds splits the rounded time at the minute, and carries.
LEMMA MixSplits ==
  ASSUME NEW time \in Nat, NEW mode \in Modes, NEW base \in {1, 10, 30},
         RestOfMinute(time, mode) = RoundSeconds(time % 60, base)
  PROVE  LET said1 == MixMinutesAndSeconds(time, mode) IN
         /\ InSeconds(said1) = RoundSeconds(time, base)
         /\ said1.seconds < 60
<1> DEFINE minutes == time \div 60
           rest == RestOfMinute(time, mode)
<1>1. minutes \in Nat /\ time % 60 \in 0 .. 59 /\ time = 60 * minutes + (time % 60)
  OBVIOUS
<1>2. rest \in 0 .. 60 /\ RoundSeconds(time, base) = 60 * minutes + rest
  <2>1. CASE base = 1  BY <1>1, <2>1 DEF RoundSeconds
  <2>2. CASE base = 10 BY <1>1, <2>2 DEF RoundSeconds
  <2>3. CASE base = 30 BY <1>1, <2>3 DEF RoundSeconds
  <2> QED BY <2>1, <2>2, <2>3
<1>3. CASE rest = 60
  BY <1>1, <1>2, <1>3 DEF MixMinutesAndSeconds, InSeconds, Minutes, Silent
<1>4. CASE rest \in 1 .. 59
  BY <1>1, <1>2, <1>4 DEF MixMinutesAndSeconds, InSeconds, Minutes, Silent
<1>5. CASE rest = 0
  BY <1>1, <1>2, <1>5 DEF MixMinutesAndSeconds, InSeconds, Minutes, Silent
<1> QED BY <1>2, <1>3, <1>4, <1>5

\* Whatever the mode, the announced minutes and seconds are the time rounded to its unit.
LEMMA SayTimeRounds ==
  ASSUME NEW time \in Nat, NEW mode \in Modes
  PROVE  /\ InSeconds(SayTime(time, mode)) = RoundSeconds(time, Base(time, mode))
         /\ SayTime(time, mode).minutes # Silent => SayTime(time, mode).seconds < 60
<1>1. CASE time < 60 \/ mode = "SecondsBy10Sec"
  <2>1. SayTime(time, mode) = Seconds(RoundSeconds(time, 10)) /\ Base(time, mode) = 10
    BY <1>1 DEF SayTime, Base
  <2>2. RoundSeconds(time, 10) \in Nat
    BY RoundSecondsRounds DEF IsRounding, Bases
  <2> QED BY <2>1, <2>2 DEF InSeconds, Seconds, Silent
<1>2. CASE time >= 60 /\ mode = "SecondsBy30Sec"
  <2>1. SayTime(time, mode) = Seconds(RoundSeconds(time, 30)) /\ Base(time, mode) = 30
    BY <1>2 DEF SayTime, Base
  <2>2. RoundSeconds(time, 30) \in Nat
    BY RoundSecondsRounds DEF IsRounding, Bases
  <2> QED BY <2>1, <2>2 DEF InSeconds, Seconds, Silent
<1>3. CASE time >= 60 /\ mode = "MinutesBy1Min"
  <2>1. SayTime(time, mode) = Minutes(SecondsToMinutes(time)) /\ Base(time, mode) = 60
    BY <1>3 DEF SayTime, Base
  <2>2. SecondsToMinutes(time) \in Nat /\ 60 * SecondsToMinutes(time) = RoundSeconds(time, 60)
    BY DEF SecondsToMinutes, RoundSeconds
  <2> QED BY <2>1, <2>2 DEF InSeconds, Minutes, Silent
<1>4. CASE time >= 60 /\ mode \in {"MinutesBy10Sec", "MinutesBy30Sec", "Other"}
  <2>1. SayTime(time, mode) = MixMinutesAndSeconds(time, mode)
    BY <1>4 DEF SayTime
  <2>2. Base(time, mode) \in {1, 10, 30}
        /\ RestOfMinute(time, mode) = RoundSeconds(time % 60, Base(time, mode))
    BY <1>4 DEF Base, RestOfMinute
  <2> QED BY <2>1, <2>2, MixSplits
<1> QED BY <1>1, <1>2, <1>3, <1>4 DEF Modes

-----------------------------------------------------------------------------
\* What the proofs need to know of a state.
IInv ==
  /\ service \in Service /\ asked \in Nat /\ first \in Nat
  /\ said = Announcement(service, asked)

\* Every state of a run of announcements is one.
LEMMA Invariance == Spec => []IInv
<1>1. Init => IInv
  BY HoldTimeAssumption DEF Init, IInv
<1>2. IInv /\ [Next]_vars => IInv'
  BY DEF IInv, Next, AskNext, vars, Announcement, LimitHoldTime, SayTime
<1> QED BY <1>1, <1>2, PTL DEF Spec

\* The limited time is a time.
LEMMA LimitedType ==
  ASSUME NEW s \in Service, NEW n \in Nat
  PROVE  LimitHoldTime(s, n).time \in Nat /\ s.mode \in Modes
BY DEF Service, LimitHoldTime

\* roundSeconds and mixMinutesAndSeconds: the announced time differs from the limited
\* estimate by at most half of its unit, and after minutes come at most 59 seconds.
THEOREM AnnouncedTimeIsRounded == Spec => []TimeRounded
<1>1. IInv => TimeRounded
  <2> SUFFICES ASSUME IInv PROVE TimeRounded
    OBVIOUS
  <2> DEFINE time == LimitHoldTime(service, asked).time
             base == Base(time, service.mode)
  <2>1. time \in Nat /\ service.mode \in Modes /\ base \in Bases
    BY LimitedType, BaseType DEF IInv
  <2>2. said.time = SayTime(time, service.mode)
    BY DEF IInv, Announcement
  <2>3. /\ InSeconds(said.time) = RoundSeconds(time, base)
        /\ said.time.minutes # Silent => said.time.seconds < 60
    BY <2>1, <2>2, SayTimeRounds
  <2>4. IsRounding(RoundSeconds(time, base), time, base)
    BY <2>1, RoundSecondsRounds
  <2>5. base \in Nat
    BY <2>1 DEF Bases
  <2> HIDE DEF time, base
  <2>6. 2 * (RoundSeconds(time, base) - time) <= base /\ -2 * (RoundSeconds(time, base) - time) <= base
    BY <2>1, <2>4, <2>5 DEF IsRounding
  <2> USE DEF time, base
  <2> QED BY <2>3, <2>6 DEF TimeRounded
<1> QED BY <1>1, Invariance, PTL

\* limitHoldTime: "less than" and "more than" are true of the estimate if the limit is a
\* whole number of the announced units, and wrong by less than half a unit if it is not.
THEOREM LimitsAreTrue == Spec => []LimitsTrue
<1>1. IInv => LimitsTrue
  <2> SUFFICES ASSUME IInv PROVE LimitsTrue
    OBVIOUS
  <2>1. service \in Service /\ asked \in Nat /\ service.min \in Nat /\ service.max \in Nat
        /\ service.mode \in Modes
    BY DEF IInv, Service
  <2>2. ASSUME NEW limit \in Nat, said.time = SayTime(limit, service.mode)
        PROVE  IsRounding(InSeconds(said.time), limit, Base(limit, service.mode))
    <3>1. InSeconds(said.time) = RoundSeconds(limit, Base(limit, service.mode))
      BY <2>1, <2>2, SayTimeRounds
    <3> QED BY <2>1, <3>1, BaseType, RoundSecondsRounds
  <2>3. said.limit = "lessThan" => asked < service.min /\ said.time = SayTime(service.min, service.mode)
    BY DEF IInv, Announcement, LimitHoldTime
  <2>4. said.limit = "moreThan" => asked > service.max /\ said.time = SayTime(service.max, service.mode)
    BY DEF IInv, Announcement, LimitHoldTime
  <2>5. \A limit \in Nat : Base(limit, service.mode) \in Nat
    BY <2>1, BaseType DEF Bases
  <2>6. CASE said.limit = "lessThan"
    BY <2>1, <2>2, <2>3, <2>5, <2>6 DEF LimitsTrue, IsRounding
  <2>7. CASE said.limit = "moreThan"
    BY <2>1, <2>2, <2>4, <2>5, <2>7 DEF LimitsTrue, IsRounding
  <2> QED BY <2>6, <2>7 DEF LimitsTrue
<1> QED BY <1>1, Invariance, PTL

-----------------------------------------------------------------------------
\* A longer time is not announced as a shorter one, within a unit and where it changes.
LEMMA SayTimeGrows ==
  ASSUME NEW time \in Nat, NEW more \in Nat, time <= more, NEW mode \in Modes
  PROVE  InSeconds(SayTime(time, mode)) <= InSeconds(SayTime(more, mode))
<1>1. /\ InSeconds(SayTime(time, mode)) = RoundSeconds(time, Base(time, mode))
      /\ InSeconds(SayTime(more, mode)) = RoundSeconds(more, Base(more, mode))
  BY SayTimeRounds
<1>2. CASE Base(time, mode) = Base(more, mode)
  BY <1>1, <1>2, BaseType, RoundSecondsGrows
<1>3. CASE Base(time, mode) # Base(more, mode)
  <2>1. time < 60 /\ more >= 60 /\ Base(time, mode) = 10
    BY <1>3 DEF Base
  <2>2. RoundSeconds(time, 10) <= 60
    BY <2>1 DEF RoundSeconds
  <2>3. RoundSeconds(60, Base(more, mode)) <= RoundSeconds(more, Base(more, mode))
    BY <2>1, BaseType, RoundSecondsGrows
  <2>4. RoundSeconds(60, Base(more, mode)) = 60
    BY BaseType DEF Bases, RoundSeconds
  <2>5. RoundSeconds(time, 10) \in Nat
    BY RoundSecondsRounds DEF IsRounding, Bases
  <2>6. RoundSeconds(more, Base(more, mode)) \in Nat
    BY BaseType, RoundSecondsRounds DEF IsRounding
  <2> QED BY <1>1, <2>1, <2>2, <2>3, <2>4, <2>5, <2>6
<1> QED BY <1>2, <1>3

\* Limits that agree keep the order of the estimates.
LEMMA LimitGrows ==
  ASSUME NEW s \in Service, NEW n \in Nat, s.max = 0 \/ s.min <= s.max
  PROVE  LimitHoldTime(s, n).time <= LimitHoldTime(s, n + 1).time
BY DEF Service, LimitHoldTime

\* SayTime and limitHoldTime together: of two callers with the same settings, the one
\* with the longer estimate is not told a shorter time.
THEOREM LongerWaitIsNotToldShorter == Spec => LongerIsNotShorter
<1>1. IInv /\ [Next]_vars => [LimitsAgree => InSeconds(said'.time) >= InSeconds(said.time)]_vars
  <2> SUFFICES ASSUME IInv, AskNext, LimitsAgree
               PROVE  InSeconds(said'.time) >= InSeconds(said.time)
    BY DEF Next
  <2> DEFINE time == LimitHoldTime(service, asked).time
             more == LimitHoldTime(service, asked + 1).time
  <2>1. service \in Service /\ asked \in Nat
    BY DEF IInv
  <2>2. time \in Nat /\ more \in Nat /\ service.mode \in Modes /\ time <= more
    BY <2>1, LimitedType, LimitGrows DEF LimitsAgree
  <2>3. said.time = SayTime(time, service.mode) /\ said'.time = SayTime(more, service.mode)
    BY DEF IInv, AskNext, Announcement
  <2>4. InSeconds(SayTime(time, service.mode)) <= InSeconds(SayTime(more, service.mode))
    BY <2>2, SayTimeGrows
  <2>5. /\ InSeconds(SayTime(time, service.mode)) \in Nat
        /\ InSeconds(SayTime(more, service.mode)) \in Nat
    BY <2>2, SayTimeRounds, BaseType, RoundSecondsRounds DEF IsRounding
  <2> HIDE DEF time, more
  <2> QED BY <2>3, <2>4, <2>5
<1> QED BY <1>1, Invariance, PTL DEF Spec, LongerIsNotShorter

-----------------------------------------------------------------------------
\* The induction of the proofs below, over sets: numbers of which there are any have a least one.
LEMMA Least ==
  ASSUME NEW S \in SUBSET Nat, S # {}
  PROVE  \E n \in S : \A m \in S : n <= m
<1> DEFINE R == OpToRel(<, Nat)
<1>1. IsWellFoundedOn(R, Nat)
  BY NatLessThanWellFounded
<1>2. \A x, y \in Nat : y < x => <<y, x>> \in R
  BY Zenon DEF OpToRel
<1> HIDE DEF R
<1>3. PICK x \in S : \A y \in S : ~(<<y, x>> \in R)
  BY <1>1, WFMin
<1>4. \A y \in S : ~(y < x)
  BY <1>2, <1>3
<1> QED BY <1>4

\* A file as it is announced.
AFile == [name: Texts \cup {"digits", "minute", "minutes", "second", "seconds"}, n: Nat]

\* What has been heard up to each file.
HearsUpTo(upTo, files) ==
  upTo = [i \in 0 .. Len(files) |-> IF i = 0 THEN Nothing ELSE Hear(upTo[i - 1], files[i])]

\* A listener hears the files in their order and in one way.
LEMMA HearingUnique ==
  ASSUME NEW files \in Seq(AFile), NEW f, NEW g, HearsUpTo(f, files), HearsUpTo(g, files)
  PROVE  f = g
<1> DEFINE D == {i \in 0 .. Len(files) : f[i] # g[i]}
<1>1. Len(files) \in Nat
  BY LenProperties
<1>2. CASE D # {}
  <2>0. D \in SUBSET Nat
    BY <1>1
  <2> HIDE DEF D
  <2>1. PICK i \in D : \A j \in D : i <= j
    BY <1>2, <2>0, Least
  <2> USE DEF D
  <2>2. i \in 0 .. Len(files) /\ f[i] # g[i]
    BY <2>1
  <2>3. f[0] = Nothing /\ g[0] = Nothing
    BY <1>1 DEF HearsUpTo
  <2>4. i # 0 /\ i - 1 \in 0 .. Len(files) /\ ~(i <= i - 1)
    BY <1>1, <2>2, <2>3
  <2>5. f[i - 1] = g[i - 1]
    BY <2>1, <2>4
  <2>6. f[i] = Hear(f[i - 1], files[i]) /\ g[i] = Hear(g[i - 1], files[i])
    BY <1>1, <2>2, <2>4 DEF HearsUpTo
  <2> QED BY <2>2, <2>5, <2>6
<1>3. CASE D = {}
  BY <1>3 DEF HearsUpTo
<1> QED BY <1>2, <1>3

\* One more file can be heard.
LEMMA HearingExtends ==
  ASSUME NEW files \in Seq(AFile), NEW file \in AFile, NEW f, HearsUpTo(f, files)
  PROVE  LET more == Append(files, file)
             g == [i \in 0 .. Len(more) |-> IF i <= Len(files) THEN f[i] ELSE Hear(f[Len(files)], file)] IN
         HearsUpTo(g, more)
<1> DEFINE more == Append(files, file)
           n == Len(files)
           g == [i \in 0 .. Len(more) |-> IF i <= n THEN f[i] ELSE Hear(f[n], file)]
<1>1. n \in Nat /\ Len(more) = n + 1 /\ more[n + 1] = file /\ \A i \in 1 .. n : more[i] = files[i]
  BY LenProperties
<1>2. ASSUME NEW i \in 0 .. Len(more)
      PROVE  g[i] = IF i = 0 THEN Nothing ELSE Hear(g[i - 1], more[i])
  <2>1. CASE i = 0
    BY <1>1, <2>1 DEF HearsUpTo
  <2>2. CASE i \in 1 .. n
    <3>1. g[i] = f[i] /\ g[i - 1] = f[i - 1] /\ more[i] = files[i]
      BY <1>1, <2>2
    <3>2. f[i] = Hear(f[i - 1], files[i])
      BY <1>1, <2>2 DEF HearsUpTo
    <3> QED BY <2>2, <3>1, <3>2
  <2>3. CASE i = n + 1
    <3>1. g[i] = Hear(f[n], file) /\ g[i - 1] = f[n] /\ more[i] = file /\ i # 0
      BY <1>1, <2>3
    <3> QED BY <3>1
  <2> QED BY <1>1, <2>1, <2>2, <2>3
<1> HIDE DEF more, n
<1>3. g = [i \in 0 .. Len(more) |-> IF i = 0 THEN Nothing ELSE Hear(g[i - 1], more[i])]
  BY <1>2
<1> QED BY <1>3 DEF HearsUpTo, more, n

\* Whatever is announced can be heard.
LEMMA HearingExists ==
  ASSUME NEW files \in Seq(AFile)
  PROVE  \E f : HearsUpTo(f, files)
<1> DEFINE Unheard == {n \in Nat : \E s \in Seq(AFile) : Len(s) = n /\ ~ \E f : HearsUpTo(f, s)}
<1>1. CASE Unheard # {}
  <2>1. Unheard \in SUBSET Nat
    OBVIOUS
  <2> HIDE DEF Unheard
  <2>2. PICK n \in Unheard : \A m \in Unheard : n <= m
    BY <1>1, <2>1, Least
  <2> USE DEF Unheard
  <2>3. PICK s \in Seq(AFile) : Len(s) = n /\ ~ \E f : HearsUpTo(f, s)
    BY <2>2
  <2>4. CASE n = 0
    <3>1. HearsUpTo([i \in 0 .. Len(s) |-> Nothing], s)
      BY <2>3, <2>4 DEF HearsUpTo
    <3> QED BY <2>3, <3>1
  <2>5. CASE n # 0
    <3> DEFINE front == SubSeq(s, 1, n - 1)
    <3>1. n \in Nat /\ n - 1 \in Nat /\ ~(n <= n - 1)
      BY <2>5
    <3>2. front \in Seq(AFile) /\ Len(front) = n - 1 /\ s[n] \in AFile /\ s = Append(front, s[n])
      <4>1. \A i \in 1 .. n - 1 : s[i] \in AFile
        BY <2>3, <3>1
      <4>2. front \in Seq(AFile) /\ Len(front) = n - 1 /\ \A i \in 1 .. n - 1 : front[i] = s[i]
        BY <2>3, <3>1, <4>1, SubSeqProperties
      <4>3. s[n] \in AFile
        BY <2>3, <2>5, <3>1
      <4> HIDE DEF front
      <4>4. Append(front, s[n]) \in Seq(AFile) /\ Len(Append(front, s[n])) = n
            /\ \A i \in 1 .. n : Append(front, s[n])[i] = s[i]
        BY <3>1, <4>2, <4>3
      <4>5. s = Append(front, s[n])
        BY <2>3, <4>4, SeqEqual
      <4> QED BY <4>2, <4>3, <4>5
    <3> HIDE DEF front
    <3>3. n - 1 \notin Unheard
      BY <2>2, <3>1
    <3>4. PICK f : HearsUpTo(f, front)
      BY <3>1, <3>2, <3>3
    <3> QED BY <2>3, <3>2, <3>4, HearingExtends
  <2> QED BY <2>4, <2>5
<1>2. CASE Unheard = {}
  <2>1. Len(files) \in Nat
    BY LenProperties
  <2> QED BY <1>2, <2>1
<1> QED BY <1>1, <1>2

\* What is heard in the end is what has been heard up to the last file.
LEMMA HeardInTheEnd ==
  ASSUME NEW files \in Seq(AFile), NEW f, HearsUpTo(f, files)
  PROVE  Heard(files) = f[Len(files)]
<1> DEFINE upTo == CHOOSE g : HearsUpTo(g, files)
<1>1. HearsUpTo(upTo, files)
  BY Zenon
<1>2. upTo = f
  <2> HIDE DEF upTo
  <2> QED BY <1>1, HearingUnique
<1>3. Heard(files) = upTo[Len(files)]
  BY DEF Heard, HearsUpTo
<1> QED BY <1>2, <1>3

\* Nothing is heard before the first file.
LEMMA HeardNothing == Heard(<<>>) = Nothing
<1>1. <<>> \in Seq(AFile) /\ Len(<<>>) = 0
  BY EmptySeq
<1>2. HearsUpTo([i \in 0 .. Len(<<>>) |-> Nothing], <<>>)
  BY <1>1 DEF HearsUpTo
<1> QED BY <1>1, <1>2, HeardInTheEnd

\* A file is heard after what was heard before it.
LEMMA HeardNext ==
  ASSUME NEW files \in Seq(AFile), NEW file \in AFile
  PROVE  Heard(Append(files, file)) = Hear(Heard(files), file)
<1>1. PICK f : HearsUpTo(f, files)
  BY HearingExists
<1> DEFINE more == Append(files, file)
           n == Len(files)
           g == [i \in 0 .. Len(more) |-> IF i <= n THEN f[i] ELSE Hear(f[n], file)]
<1>2. HearsUpTo(g, more)
  BY <1>1, HearingExtends, Zenon
<1>3. more \in Seq(AFile) /\ n \in Nat /\ Len(more) = n + 1
  BY LenProperties
<1>4. Heard(more) = g[n + 1]
  <2> HIDE DEF g
  <2> QED BY <1>2, <1>3, HeardInTheEnd
<1>5. g[n + 1] = Hear(f[n], file)
  BY <1>3
<1>6. Heard(files) = f[n]
  BY <1>1, HeardInTheEnd
<1> QED BY <1>4, <1>5, <1>6

\* formatNumber of a value, given what it returns for smaller ones.
Counted(f, lang, n) == IF lang = "EN" \/ n > 1 THEN f[n] ELSE <<>>
ThousandsOf(f, lang, value) ==
  IF value >= 1000 THEN Append(Counted(f, lang, value \div 1000), 1000) ELSE <<>>
HundredsOf(f, lang, value) ==
  IF (value % 1000) \div 100 > 0 THEN Append(Counted(f, lang, (value % 1000) \div 100), 100) ELSE <<>>
TensOf(rest) == IF rest >= 20 THEN <<rest - (rest % 10)>> ELSE <<>>
UnitOf(rest) == IF rest >= 20 THEN rest % 10 ELSE rest
UnitsOf(rest) == IF UnitOf(rest) > 0 THEN <<UnitOf(rest)>> ELSE <<>>
Parts(f, lang, value) ==
  IF value = 0 THEN <<0>>
  ELSE ThousandsOf(f, lang, value) \o HundredsOf(f, lang, value)
       \o TensOf(value % 100) \o UnitsOf(value % 100)

FormatsTo(f, lang, m) == f = [value \in 0 .. m |-> Parts(f, lang, value)]

\* formatNumber calls itself with smaller numbers only.
LEMMA PartsOfSmaller ==
  ASSUME NEW f, NEW g, NEW lang, NEW value \in Nat,
         \A n \in Nat : n < value => f[n] = g[n]
  PROVE  Parts(f, lang, value) = Parts(g, lang, value)
<1> DEFINE thousands == value \div 1000
           hundreds == (value % 1000) \div 100
<1>1. value >= 1000 => f[thousands] = g[thousands]
  <2>1. value >= 1000 => thousands \in Nat /\ thousands < value
    OBVIOUS
  <2> QED BY <2>1
<1>2. hundreds > 0 => f[hundreds] = g[hundreds]
  <2>1. hundreds \in Nat /\ (hundreds > 0 => hundreds < value)
    OBVIOUS
  <2> QED BY <2>1
<1>3. ThousandsOf(f, lang, value) = ThousandsOf(g, lang, value)
  <2>1. CASE value >= 1000
    <3>1. Counted(f, lang, thousands) = Counted(g, lang, thousands)
      BY <1>1, <2>1 DEF Counted
    <3> QED BY <2>1, <3>1 DEF ThousandsOf
  <2>2. CASE ~(value >= 1000)
    BY <2>2 DEF ThousandsOf
  <2> QED BY <2>1, <2>2
<1>4. HundredsOf(f, lang, value) = HundredsOf(g, lang, value)
  <2>1. CASE hundreds > 0
    <3>1. Counted(f, lang, hundreds) = Counted(g, lang, hundreds)
      BY <1>2, <2>1 DEF Counted
    <3> QED BY <2>1, <3>1 DEF HundredsOf
  <2>2. CASE ~(hundreds > 0)
    BY <2>2 DEF HundredsOf
  <2> QED BY <2>1, <2>2
<1> QED BY <1>3, <1>4, Zenon DEF Parts

\* What it returns does not depend on how far one looks.
LEMMA FormatsUnique ==
  ASSUME NEW m \in Nat, NEW k \in Nat, m <= k, NEW f, NEW g, NEW lang,
         FormatsTo(f, lang, m), FormatsTo(g, lang, k), NEW value \in 0 .. m
  PROVE  f[value] = g[value]
<1> DEFINE D == {n \in 0 .. m : f[n] # g[n]}
<1>1. CASE D # {}
  <2>0. D \in SUBSET Nat
    OBVIOUS
  <2> HIDE DEF D
  <2>1. PICK n \in D : \A j \in D : n <= j
    BY <1>1, <2>0, Least
  <2> USE DEF D
  <2>2. n \in 0 .. m /\ n \in 0 .. k /\ n \in Nat
    BY <2>1
  <2>3. \A j \in Nat : j < n => f[j] = g[j]
    BY <2>1, <2>2
  <2>4. Parts(f, lang, n) = Parts(g, lang, n)
    BY <2>2, <2>3, PartsOfSmaller
  <2>5. f[n] = Parts(f, lang, n)
    BY <2>2 DEF FormatsTo
  <2>6. g[n] = Parts(g, lang, n)
    BY <2>2 DEF FormatsTo
  <2> QED BY <2>1, <2>4, <2>5, <2>6
<1>2. CASE D = {}
  BY <1>2
<1> QED BY <1>1, <1>2
\* From what it returns for numbers up to one limit follows what it returns for the next.
LEMMA FormatsExtend ==
  ASSUME NEW m \in Nat, NEW f, NEW lang, FormatsTo(f, lang, m)
  PROVE  \E g : FormatsTo(g, lang, m + 1)
<1> DEFINE g == [value \in 0 .. m + 1 |-> IF value <= m THEN f[value] ELSE Parts(f, lang, value)]
<1>1. ASSUME NEW value \in 0 .. m + 1
      PROVE  g[value] = Parts(g, lang, value)
  <2>1. Parts(f, lang, value) = Parts(g, lang, value)
    <3>1. \A n \in Nat : n < value => f[n] = g[n]
      OBVIOUS
    <3> QED BY <3>1, PartsOfSmaller
  <2>2. CASE value <= m
    <3>1. f[value] = Parts(f, lang, value)
      BY <2>2 DEF FormatsTo
    <3> QED BY <2>1, <2>2, <3>1
  <2>3. CASE value > m
    BY <2>1, <2>3
  <2> QED BY <2>2, <2>3
<1>2. g = [value \in 0 .. m + 1 |-> g[value]]
  OBVIOUS
<1> HIDE DEF g
<1> QED BY <1>1, <1>2 DEF FormatsTo

\* It returns something for every number.
LEMMA FormatsExist ==
  ASSUME NEW lang, NEW m \in Nat
  PROVE  \E f : FormatsTo(f, lang, m)
<1> DEFINE Bad == {n \in Nat : ~ \E f : FormatsTo(f, lang, n)}
<1>1. CASE Bad # {}
  <2>0. Bad \in SUBSET Nat
    OBVIOUS
  <2> HIDE DEF Bad
  <2>1. PICK n \in Bad : \A j \in Bad : n <= j
    BY <1>1, <2>0, Least
  <2> USE DEF Bad
  <2>2. CASE n = 0
    <3>1. \A f : Parts(f, lang, 0) = <<0>>
      BY DEF Parts
    <3>2. FormatsTo([value \in 0 .. 0 |-> <<0>>], lang, 0)
      BY <3>1 DEF FormatsTo
    <3> QED BY <2>1, <2>2, <3>2
  <2>3. CASE n # 0
    <3>1. n - 1 \in Nat /\ ~(n <= n - 1) /\ n = (n - 1) + 1
      BY <2>1, <2>3
    <3>2. n - 1 \notin Bad
      BY <2>1, <3>1
    <3>3. PICK f : FormatsTo(f, lang, n - 1)
      BY <3>1, <3>2
    <3>4. \E g : FormatsTo(g, lang, (n - 1) + 1)
      BY <3>1, <3>3, FormatsExtend
    <3> QED BY <2>1, <3>1, <3>4
  <2> QED BY <2>2, <2>3
<1>2. CASE Bad = {}
  BY <1>2
<1> QED BY <1>1, <1>2

Formats(f, lang) == f = [value \in Nat |-> Parts(f, lang, value)]

\* So there is a function that is as formatNumber says.
LEMMA FormatsAll ==
  ASSUME NEW lang
  PROVE  \E f : Formats(f, lang)
<1> DEFINE upTo(m) == CHOOSE f : FormatsTo(f, lang, m)
           g == [value \in Nat |-> upTo(value)[value]]
<1>1. \A m \in Nat : FormatsTo(upTo(m), lang, m)
  BY FormatsExist, Zenon
<1> HIDE DEF upTo
<1>2. ASSUME NEW value \in Nat
      PROVE  g[value] = Parts(g, lang, value)
  <2>1. \A n \in Nat : n < value => upTo(value)[n] = g[n]
    <3>1. ASSUME NEW n \in Nat, n < value
          PROVE  upTo(n)[n] = upTo(value)[n]
      <4>1. n <= value /\ n \in 0 .. n
        BY <3>1
      <4> QED BY <1>1, <4>1, FormatsUnique
    <3> QED BY <3>1
  <2>2. upTo(value)[value] = Parts(upTo(value), lang, value)
    <3>1. FormatsTo(upTo(value), lang, value)
      BY <1>1
    <3>2. value \in 0 .. value
      OBVIOUS
    <3> QED BY <3>1, <3>2 DEF FormatsTo
  <2>3. Parts(upTo(value), lang, value) = Parts(g, lang, value)
    <3> HIDE DEF g
    <3> QED BY <2>1, PartsOfSmaller
  <2> QED BY <2>2, <2>3
<1>3. g = [value \in Nat |-> g[value]]
  OBVIOUS
<1> HIDE DEF g
<1> QED BY <1>2, <1>3 DEF Formats

\* formatNumber, for every number, is what its code says of it.
LEMMA FormatNumberDef ==
  ASSUME NEW lang
  PROVE  \E f : /\ Formats(f, lang)
                /\ \A value \in Nat : FormatNumber(lang, value) = f[value]
<1> DEFINE f == CHOOSE g : Formats(g, lang)
<1>1. Formats(f, lang)
  BY FormatsAll, Zenon
<1>2. \A value \in Nat : FormatNumber(lang, value) = f[value]
  BY DEF FormatNumber, Formats, Parts, ThousandsOf, HundredsOf, TensOf, UnitsOf, UnitOf, Counted
<1> QED BY <1>1, <1>2

\* What a listener keeps in mind.
Ear == [number: Nat, group: Nat, position: Int, limit: Texts \cup {"none"}, minutes: Int, seconds: Int]

\* Whoever is at one point before the files is at the other after them.
Hears(before, files, after) ==
  /\ files \in Seq(AFile)
  /\ \A s \in Seq(AFile) : Heard(s) = before => Heard(s \o files) = after

\* No files, nothing new.
LEMMA HearsNone ==
  ASSUME NEW h
  PROVE  Hears(h, <<>>, h)
<1>1. <<>> \in Seq(AFile)
  BY EmptySeq
<1>2. \A s \in Seq(AFile) : s \o <<>> = s
  BY ConcatEmptySeq
<1> QED BY <1>1, <1>2 DEF Hears

\* One more file.
LEMMA HearsOneMore ==
  ASSUME NEW h, NEW k, NEW files, Hears(h, files, k), NEW file \in AFile
  PROVE  Hears(h, Append(files, file), Hear(k, file))
<1>1. files \in Seq(AFile) /\ Append(files, file) \in Seq(AFile)
  BY DEF Hears
<1>2. ASSUME NEW s \in Seq(AFile), Heard(s) = h
      PROVE  Heard(s \o Append(files, file)) = Hear(k, file)
  <2>1. s \o files \in Seq(AFile) /\ Heard(s \o files) = k
    BY <1>1, <1>2, ConcatProperties DEF Hears
  <2>2. s \o Append(files, file) = Append(s \o files, file)
    BY <1>1
  <2> QED BY <2>1, <2>2, HeardNext
<1> QED BY <1>1, <1>2 DEF Hears

\* One file.
LEMMA HearsFile ==
  ASSUME NEW h, NEW file \in AFile
  PROVE  Hears(h, <<file>>, Hear(h, file))
<1>1. <<file>> = Append(<<>>, file)
  OBVIOUS
<1> QED BY <1>1, HearsNone, HearsOneMore

\* Files after files.
LEMMA HearsBoth ==
  ASSUME NEW h, NEW k, NEW m, NEW a, NEW b, Hears(h, a, k), Hears(k, b, m)
  PROVE  Hears(h, a \o b, m)
<1>1. a \in Seq(AFile) /\ b \in Seq(AFile) /\ a \o b \in Seq(AFile)
  BY ConcatProperties DEF Hears
<1>2. ASSUME NEW s \in Seq(AFile), Heard(s) = h
      PROVE  Heard(s \o (a \o b)) = m
  <2>1. s \o a \in Seq(AFile) /\ Heard(s \o a) = k
    BY <1>1, <1>2, ConcatProperties DEF Hears
  <2>2. Heard((s \o a) \o b) = m
    BY <2>1 DEF Hears
  <2>3. (s \o a) \o b = s \o (a \o b)
    BY <1>1, ConcatAssociative
  <2> QED BY <2>2, <2>3
<1> QED BY <1>1, <1>2 DEF Hears

-----------------------------------------------------------------------------
\* The files of digits, and what a listener makes of them.
DigitFile(n) == [name |-> "digits", n |-> n]
DigitFiles(parts) == [i \in DOMAIN parts |-> DigitFile(parts[i])]
HearsDigits(h, parts, k) == parts \in Seq(Nat) /\ Hears(h, DigitFiles(parts), k)
With(h, number, group) ==
  [number |-> number, group |-> group, position |-> h.position, limit |-> h.limit,
   minutes |-> h.minutes, seconds |-> h.seconds]

\* The files of no digits, of one more, and of digits after digits.
LEMMA FilesOfDigits ==
  /\ DigitFiles(<<>>) = <<>>
  /\ \A parts \in Seq(Nat), n \in Nat :
       DigitFiles(Append(parts, n)) = Append(DigitFiles(parts), DigitFile(n))
  /\ \A a, b \in Seq(Nat) : DigitFiles(a \o b) = DigitFiles(a) \o DigitFiles(b)
<1>1. \A parts \in Seq(Nat) :
        /\ DigitFiles(parts) \in Seq(AFile) /\ Len(DigitFiles(parts)) = Len(parts)
        /\ \A i \in 1 .. Len(parts) : DigitFiles(parts)[i] = DigitFile(parts[i])
  <2> SUFFICES ASSUME NEW parts \in Seq(Nat)
               PROVE  /\ DigitFiles(parts) \in Seq(AFile) /\ Len(DigitFiles(parts)) = Len(parts)
                      /\ \A i \in 1 .. Len(parts) : DigitFiles(parts)[i] = DigitFile(parts[i])
    OBVIOUS
  <2>1. Len(parts) \in Nat /\ DOMAIN parts = 1 .. Len(parts) /\ \A i \in 1 .. Len(parts) : parts[i] \in Nat
    BY LenProperties
  <2>2. \A i \in 1 .. Len(parts) : DigitFile(parts[i]) \in AFile
    BY <2>1 DEF DigitFile, AFile
  <2>3. DigitFiles(parts) = [i \in 1 .. Len(parts) |-> DigitFile(parts[i])]
    BY <2>1 DEF DigitFiles
  <2> QED BY <2>1, <2>2, <2>3
<1>2. DigitFiles(<<>>) = <<>>
  <2>1. <<>> \in Seq(Nat)
    BY EmptySeq
  <2>2. DigitFiles(<<>>) \in Seq(AFile) /\ Len(DigitFiles(<<>>)) = 0
    BY <1>1, <2>1
  <2> QED BY <2>2, EmptySeq
<1>3. ASSUME NEW parts \in Seq(Nat), NEW n \in Nat
      PROVE  DigitFiles(Append(parts, n)) = Append(DigitFiles(parts), DigitFile(n))
  <2>1. DigitFile(n) \in AFile
    BY DEF DigitFile, AFile
  <2> DEFINE one == Append(parts, n)
             two == Append(DigitFiles(parts), DigitFile(n))
  <2>2. one \in Seq(Nat) /\ Len(one) = Len(parts) + 1 /\ Len(parts) \in Nat
        /\ one[Len(parts) + 1] = n /\ \A i \in 1 .. Len(parts) : one[i] = parts[i]
    OBVIOUS
  <2>3. two \in Seq(AFile) /\ Len(two) = Len(parts) + 1
        /\ two[Len(parts) + 1] = DigitFile(n) /\ \A i \in 1 .. Len(parts) : two[i] = DigitFile(parts[i])
    BY <1>1, <2>1, <2>2
  <2> HIDE DEF one, two
  <2>4. DigitFiles(one) \in Seq(AFile) /\ Len(DigitFiles(one)) = Len(one)
        /\ \A i \in 1 .. Len(one) : DigitFiles(one)[i] = DigitFile(one[i])
    BY <1>1, <2>2
  <2>5. \A i \in 1 .. Len(parts) + 1 : DigitFiles(one)[i] = two[i]
    <3> SUFFICES ASSUME NEW i \in 1 .. Len(parts) + 1 PROVE DigitFiles(one)[i] = two[i]
      OBVIOUS
    <3>1. DigitFiles(one)[i] = DigitFile(one[i])
      BY <2>2, <2>4
    <3>2. CASE i \in 1 .. Len(parts)
      BY <2>2, <2>3, <3>1, <3>2
    <3>3. CASE i = Len(parts) + 1
      BY <2>2, <2>3, <3>1, <3>3
    <3> QED BY <2>2, <3>2, <3>3
  <2>6. DigitFiles(one) = two
    BY <2>2, <2>3, <2>4, <2>5, SeqEqual
  <2> QED BY <2>6 DEF one, two
<1>4. ASSUME NEW a \in Seq(Nat), NEW b \in Seq(Nat)
      PROVE  DigitFiles(a \o b) = DigitFiles(a) \o DigitFiles(b)
  <2> DEFINE one == a \o b
             two == DigitFiles(a) \o DigitFiles(b)
  <2>1. Len(a) \in Nat /\ Len(b) \in Nat
    OBVIOUS
  <2>2. one \in Seq(Nat) /\ Len(one) = Len(a) + Len(b)
        /\ \A i \in 1 .. Len(a) + Len(b) : one[i] = IF i <= Len(a) THEN a[i] ELSE b[i - Len(a)]
    BY ConcatProperties
  <2>3. two \in Seq(AFile) /\ Len(two) = Len(a) + Len(b)
        /\ \A i \in 1 .. Len(a) + Len(b) :
             two[i] = IF i <= Len(a) THEN DigitFiles(a)[i] ELSE DigitFiles(b)[i - Len(a)]
    <3> DEFINE x == DigitFiles(a)
               y == DigitFiles(b)
    <3>1. x \in Seq(AFile) /\ y \in Seq(AFile) /\ Len(x) = Len(a) /\ Len(y) = Len(b)
      BY <1>1
    <3> HIDE DEF x, y
    <3>2. /\ x \o y \in Seq(AFile) /\ Len(x \o y) = Len(x) + Len(y)
          /\ \A i \in 1 .. Len(x) + Len(y) : (x \o y)[i] = IF i <= Len(x) THEN x[i] ELSE y[i - Len(x)]
      BY <3>1, ConcatProperties
    <3>3. /\ x \o y \in Seq(AFile) /\ Len(x \o y) = Len(a) + Len(b)
          /\ \A i \in 1 .. Len(a) + Len(b) : (x \o y)[i] = IF i <= Len(a) THEN x[i] ELSE y[i - Len(a)]
      BY <3>1, <3>2
    <3> QED BY <3>3, Zenon DEF x, y
  <2> HIDE DEF one, two
  <2>4. DigitFiles(one) \in Seq(AFile) /\ Len(DigitFiles(one)) = Len(one)
        /\ \A i \in 1 .. Len(one) : DigitFiles(one)[i] = DigitFile(one[i])
    BY <1>1, <2>2
  <2>5. \A i \in 1 .. Len(a) + Len(b) : DigitFiles(one)[i] = two[i]
    <3> SUFFICES ASSUME NEW i \in 1 .. Len(a) + Len(b) PROVE DigitFiles(one)[i] = two[i]
      OBVIOUS
    <3>1. CASE i <= Len(a)
      <4>1. i \in 1 .. Len(a)
        BY <2>1, <3>1
      <4> QED BY <1>1, <2>2, <2>3, <2>4, <3>1, <4>1
    <3>2. CASE ~(i <= Len(a))
      <4>1. i - Len(a) \in 1 .. Len(b)
        BY <2>1, <3>2
      <4> QED BY <1>1, <2>2, <2>3, <2>4, <3>2, <4>1
    <3> QED BY <3>1, <3>2
  <2>6. DigitFiles(one) = two
    BY <2>2, <2>3, <2>4, <2>5, SeqEqual
  <2> QED BY <2>6 DEF one, two
<1> QED BY <1>2, <1>3, <1>4

\* With changes the number that is being heard and nothing else.
LEMMA WithIs ==
  ASSUME NEW h \in Ear, NEW number, NEW group
  PROVE  [h EXCEPT !.number = number, !.group = group] = With(h, number, group)
<1> DEFINE k == [h EXCEPT !.number = number]
<1>1. [h EXCEPT !.number = number, !.group = group] = [k EXCEPT !.group = group]
  OBVIOUS
<1>2. k = With(h, number, h.group)
  BY DEF Ear, With
<1> HIDE DEF k
<1>3. [k EXCEPT !.group = group] = With(h, number, group)
  BY <1>2 DEF With
<1> QED BY <1>1, <1>3

\* What a digit, a hundred and a thousand do to the number that is being heard.
LEMMA HearDigits ==
  ASSUME NEW h \in Ear
  PROVE  /\ \A n \in 0 .. 99 : Hear(h, DigitFile(n)) = With(h, h.number, h.group + n)
         /\ Hear(h, DigitFile(100)) = With(h, h.number, 100 * OneIfNone(h.group))
         /\ Hear(h, DigitFile(1000)) = With(h, h.number + 1000 * OneIfNone(h.group), 0)
<1>1. ASSUME NEW n \in 0 .. 99
      PROVE  Hear(h, DigitFile(n)) = With(h, h.number, h.group + n)
  <2>1. DigitFile(n).name = "digits" /\ DigitFile(n).n = n /\ n # 1000 /\ n # 100 /\ n < 100
    BY DEF DigitFile
  <2>2. Hear(h, DigitFile(n)) = [h EXCEPT !.group = @ + n]
    BY <2>1 DEF Hear, DigitFile
  <2> QED BY <2>2 DEF With, Ear
<1>2. Hear(h, DigitFile(100)) = With(h, h.number, 100 * OneIfNone(h.group))
  <2>1. Hear(h, DigitFile(100)) = [h EXCEPT !.group = 100 * OneIfNone(@)]
    BY DEF Hear, DigitFile
  <2> QED BY <2>1 DEF With, Ear
<1>3. Hear(h, DigitFile(1000)) = With(h, h.number + 1000 * OneIfNone(h.group), 0)
  <2>1. Hear(h, DigitFile(1000)) = [h EXCEPT !.number = @ + 1000 * OneIfNone(h.group), !.group = 0]
    BY DEF Hear, DigitFile
  <2> DEFINE number == h.number + 1000 * OneIfNone(h.group)
  <2> HIDE DEF number
  <2>2. [h EXCEPT !.number = number, !.group = 0] = With(h, number, 0)
    BY WithIs
  <2> QED BY <2>1, <2>2 DEF number
<1> QED BY <1>1, <1>2, <1>3

\* Numbers added to a number keep it one.
LEMMA WithType ==
  ASSUME NEW h \in Ear, NEW number \in Nat, NEW group \in Nat
  PROVE  /\ With(h, number, group) \in Ear
         /\ With(h, number, group).number = number /\ With(h, number, group).group = group
         /\ \A a, b : With(With(h, number, group), a, b) = With(h, a, b)
         /\ With(h, h.number, h.group) = h
BY DEF With, Ear

\* No digits, nothing new.
LEMMA HearsNoDigits ==
  ASSUME NEW h
  PROVE  HearsDigits(h, <<>>, h)
<1>1. <<>> \in Seq(Nat)
  BY EmptySeq
<1> QED BY <1>1, HearsNone, FilesOfDigits DEF HearsDigits

\* One more digit.
LEMMA HearsOneMoreDigit ==
  ASSUME NEW h, NEW k, NEW parts, NEW n \in Nat, HearsDigits(h, parts, k)
  PROVE  HearsDigits(h, Append(parts, n), Hear(k, DigitFile(n)))
<1>1. parts \in Seq(Nat) /\ Append(parts, n) \in Seq(Nat) /\ Hears(h, DigitFiles(parts), k)
  BY DEF HearsDigits
<1>2. DigitFile(n) \in AFile
  BY DEF DigitFile, AFile
<1>3. DigitFiles(Append(parts, n)) = Append(DigitFiles(parts), DigitFile(n))
  BY <1>1, FilesOfDigits
<1> QED BY <1>1, <1>2, <1>3, HearsOneMore DEF HearsDigits

\* One digit.
LEMMA HearsDigit ==
  ASSUME NEW h, NEW n \in Nat
  PROVE  HearsDigits(h, <<n>>, Hear(h, DigitFile(n)))
<1>1. <<n>> = Append(<<>>, n)
  OBVIOUS
<1> QED BY <1>1, HearsNoDigits, HearsOneMoreDigit

\* Digits after digits.
LEMMA HearsMoreDigits ==
  ASSUME NEW h, NEW k, NEW m, NEW a, NEW b, HearsDigits(h, a, k), HearsDigits(k, b, m)
  PROVE  HearsDigits(h, a \o b, m)
<1>1. a \in Seq(Nat) /\ b \in Seq(Nat)
  BY DEF HearsDigits
<1>2. a \o b \in Seq(Nat)
  BY <1>1, ConcatProperties
<1>3. Hears(h, DigitFiles(a), k) /\ Hears(k, DigitFiles(b), m)
  BY DEF HearsDigits
<1>4. Hears(h, DigitFiles(a) \o DigitFiles(b), m)
  BY <1>3, HearsBoth
<1>5. DigitFiles(a \o b) = DigitFiles(a) \o DigitFiles(b)
  BY <1>1, FilesOfDigits
<1> QED BY <1>2, <1>4, <1>5 DEF HearsDigits

\* Tens and units are heard as the number they make.
LEMMA TensAndUnitsHeard ==
  ASSUME NEW h \in Ear, NEW rest \in 0 .. 99, NEW parts, NEW g, HearsDigits(g, parts, h)
  PROVE  HearsDigits(g, (parts \o TensOf(rest)) \o UnitsOf(rest), With(h, h.number, h.group + rest))
<1> DEFINE tens == IF rest >= 20 THEN rest - (rest % 10) ELSE 0
           unit == UnitOf(rest)
           mid == With(h, h.number, h.group + tens)
<1>1. tens \in 0 .. 99 /\ unit \in 0 .. 99 /\ tens + unit = rest
  BY DEF UnitOf
<1>2. h.number \in Nat /\ h.group \in Nat
  BY DEF Ear
<1>3. mid \in Ear /\ mid.number = h.number /\ mid.group = h.group + tens
      /\ \A a, b : With(mid, a, b) = With(h, a, b)
  <2>1. h.group + tens \in Nat
    BY <1>1, <1>2
  <2> HIDE DEF tens
  <2> QED BY <1>2, <2>1, WithType
<1>4. HearsDigits(h, TensOf(rest), mid)
  <2>1. CASE rest >= 20
    <3>1. TensOf(rest) = <<tens>>
      BY <2>1 DEF TensOf
    <3> HIDE DEF tens
    <3>2. Hear(h, DigitFile(tens)) = mid
      BY <1>1, HearDigits
    <3> QED BY <1>1, <3>1, <3>2, HearsDigit
  <2>2. CASE ~(rest >= 20)
    <3>1. TensOf(rest) = <<>> /\ tens = 0
      BY <2>2 DEF TensOf
    <3>2. mid = h
      BY <1>2, <3>1, WithType
    <3> QED BY <3>1, <3>2, HearsNoDigits
  <2> QED BY <2>1, <2>2
<1>5. HearsDigits(mid, UnitsOf(rest), With(h, h.number, h.group + rest))
  <2> HIDE DEF mid, tens, unit
  <2>0. With(mid, mid.number, mid.group + unit) = With(h, h.number, h.group + rest)
    BY <1>1, <1>2, <1>3
  <2>1. CASE unit > 0
    <3>1. UnitsOf(rest) = <<unit>>
      BY <2>1 DEF UnitsOf, unit
    <3>2. Hear(mid, DigitFile(unit)) = With(mid, mid.number, mid.group + unit)
      BY <1>1, <1>3, HearDigits
    <3> QED BY <1>1, <2>0, <3>1, <3>2, HearsDigit
  <2>2. CASE ~(unit > 0)
    <3>1. UnitsOf(rest) = <<>>
      BY <2>2 DEF UnitsOf, unit
    <3>2. unit = 0 /\ mid.group + unit = mid.group
      BY <1>1, <1>2, <1>3, <2>2
    <3>3. With(mid, mid.number, mid.group) = mid
      BY <1>3, WithType DEF Ear
    <3> QED BY <2>0, <3>1, <3>2, <3>3, HearsNoDigits
  <2> QED BY <2>1, <2>2
<1> HIDE DEF mid
<1>6. HearsDigits(g, parts \o TensOf(rest), mid)
  BY <1>4, HearsMoreDigits
<1> QED BY <1>5, <1>6, HearsMoreDigits

\* The thousands, and what formatNumber puts after them.
After(parts, f, lang, value) ==
  ((parts \o HundredsOf(f, lang, value)) \o TensOf(value % 100)) \o UnitsOf(value % 100)

\* What formatNumber returns for a number that is not zero.
LEMMA FormatOf ==
  ASSUME NEW f, NEW lang, Formats(f, lang), NEW value \in Nat, value # 0
  PROVE  f[value] = After(ThousandsOf(f, lang, value), f, lang, value)
<1>1. f[value] = Parts(f, lang, value)
  BY DEF Formats
<1> QED BY <1>1 DEF Parts, After

\* The digit that counts the hundreds is heard as itself.
LEMMA DigitHeard ==
  ASSUME NEW f, NEW lang, Formats(f, lang), NEW q \in 1 .. 9, NEW h \in Ear
  PROVE  HearsDigits(h, f[q], With(h, h.number, h.group + q))
<1>1. ThousandsOf(f, lang, q) = <<>> /\ HundredsOf(f, lang, q) = <<>> /\ q % 100 = q /\ q \in 0 .. 99
  BY DEF ThousandsOf, HundredsOf
<1>2. <<>> \o <<>> = <<>>
  OBVIOUS
<1>3. f[q] = (<<>> \o TensOf(q)) \o UnitsOf(q)
  <2>1. f[q] = After(ThousandsOf(f, lang, q), f, lang, q)
    BY FormatOf
  <2> QED BY <1>1, <1>2, <2>1 DEF After
<1>4. HearsDigits(h, <<>>, h)
  BY HearsNoDigits
<1> QED BY <1>1, <1>3, <1>4, TensAndUnitsHeard

\* What counts the hundreds or thousands is heard as their number, or not said if it is one.
LEMMA CountedHeard ==
  ASSUME NEW f, NEW lang, NEW q \in Nat, q # 0, NEW h \in Ear, h.group = 0,
         HearsDigits(h, f[q], With(h, h.number, q))
  PROVE  /\ HearsDigits(h, Append(Counted(f, lang, q), 100), With(h, h.number, 100 * q))
         /\ HearsDigits(h, Append(Counted(f, lang, q), 1000), With(h, h.number + 1000 * q, 0))
<1> DEFINE said1 == IF lang = "EN" \/ q > 1 THEN q ELSE 0
           mid == With(h, h.number, said1)
<1>1. said1 \in Nat /\ OneIfNone(said1) = q /\ h.number \in Nat
  BY DEF OneIfNone, Ear
<1>2. HearsDigits(h, Counted(f, lang, q), mid)
  <2>1. CASE lang = "EN" \/ q > 1
    BY <2>1, Zenon DEF Counted
  <2>2. CASE ~(lang = "EN" \/ q > 1)
    <3>1. Counted(f, lang, q) = <<>> /\ said1 = 0
      BY <2>2 DEF Counted
    <3>2. With(h, h.number, 0) = h
      BY <1>1, WithType
    <3> QED BY <3>1, <3>2, HearsNoDigits
  <2> QED BY <2>1, <2>2
<1> HIDE DEF said1
<1>3. mid \in Ear /\ mid.group = said1 /\ mid.number = h.number
      /\ \A a, b : With(mid, a, b) = With(h, a, b)
  BY <1>1, WithType
<1> HIDE DEF mid
<1>4. \A n \in Nat : HearsDigits(h, Append(Counted(f, lang, q), n), Hear(mid, DigitFile(n)))
  BY <1>2, HearsOneMoreDigit
<1>5. Hear(mid, DigitFile(100)) = With(h, h.number, 100 * q)
  BY <1>1, <1>3, HearDigits
<1>6. Hear(mid, DigitFile(1000)) = With(h, h.number + 1000 * q, 0)
  BY <1>1, <1>3, HearDigits
<1> QED BY <1>4, <1>5, <1>6

\* The hundreds are heard, whether or not their number is said.
LEMMA HundredsHeard ==
  ASSUME NEW f, NEW lang, Formats(f, lang), NEW value \in Nat, NEW h \in Ear, h.group = 0
  PROVE  HearsDigits(h, HundredsOf(f, lang, value), With(h, h.number, 100 * ((value % 1000) \div 100)))
<1> DEFINE q == (value % 1000) \div 100
<1>1. q \in 0 .. 9 /\ h.number \in Nat
  BY DEF Ear
<1>2. HundredsOf(f, lang, value) = IF q = 0 THEN <<>> ELSE Append(Counted(f, lang, q), 100)
  BY <1>1 DEF HundredsOf
<1> HIDE DEF q
<1>3. CASE q = 0
  <2>1. With(h, h.number, 100 * q) = h
    BY <1>1, <1>3, WithType
  <2> QED BY <1>2, <1>3, <2>1, HearsNoDigits DEF q
<1>4. CASE q # 0
  <2>1. HearsDigits(h, f[q], With(h, h.number, h.group + q))
    BY <1>1, <1>4, DigitHeard
  <2>2. h.group + q = q
    BY <1>1
  <2>3. HearsDigits(h, Append(Counted(f, lang, q), 100), With(h, h.number, 100 * q))
    BY <1>1, <1>4, <2>1, <2>2, CountedHeard
  <2> QED BY <1>2, <1>4, <2>3 DEF q
<1> QED BY <1>3, <1>4

\* What follows the thousands is heard as the number it is.
LEMMA BelowThousandHeard ==
  ASSUME NEW f, NEW lang, Formats(f, lang), NEW value \in Nat, NEW h \in Ear, h.group = 0,
         NEW g, NEW parts, HearsDigits(g, parts, h)
  PROVE  HearsDigits(g, After(parts, f, lang, value), With(h, h.number, value % 1000))
<1> DEFINE q == (value % 1000) \div 100
           mid == With(h, h.number, 100 * q)
<1>1. q \in Nat /\ 100 * q \in Nat /\ value % 100 \in 0 .. 99 /\ 100 * q + (value % 100) = value % 1000
      /\ h.number \in Nat
  BY DEF Ear
<1>2. HearsDigits(h, HundredsOf(f, lang, value), mid)
  BY HundredsHeard
<1> HIDE DEF q
<1>3. mid \in Ear /\ mid.number = h.number /\ mid.group = 100 * q
      /\ \A a, b : With(mid, a, b) = With(h, a, b)
  BY <1>1, WithType
<1> HIDE DEF mid
<1>4. HearsDigits(g, parts \o HundredsOf(f, lang, value), mid)
  BY <1>2, HearsMoreDigits
<1>5. HearsDigits(g, After(parts, f, lang, value), With(mid, mid.number, mid.group + (value % 100)))
  BY <1>1, <1>3, <1>4, TensAndUnitsHeard DEF After
<1>6. With(mid, mid.number, mid.group + (value % 100)) = With(h, h.number, value % 1000)
  BY <1>1, <1>3
<1> QED BY <1>5, <1>6

\* The number that counts the thousands is heard as itself.
LEMMA CountHeard ==
  ASSUME NEW f, NEW lang, Formats(f, lang), NEW q \in Nat, q # 0, q < 1000, NEW h \in Ear, h.group = 0
  PROVE  HearsDigits(h, f[q], With(h, h.number, q))
<1>1. q % 1000 = q /\ ThousandsOf(f, lang, q) = <<>>
  BY DEF ThousandsOf
<1>2. HearsDigits(h, <<>>, h)
  BY HearsNoDigits
<1>3. HearsDigits(h, After(<<>>, f, lang, q), With(h, h.number, q % 1000))
  BY <1>2, BelowThousandHeard
<1>4. f[q] = After(ThousandsOf(f, lang, q), f, lang, q)
  BY FormatOf
<1> QED BY <1>1, <1>3, <1>4

\* The thousands are heard, up to nine hundred ninety-nine of them.
LEMMA ThousandsHeard ==
  ASSUME NEW f, NEW lang, Formats(f, lang), NEW value \in Nat, value \div 1000 < 1000,
         NEW h \in Ear, h.group = 0
  PROVE  HearsDigits(h, ThousandsOf(f, lang, value), With(h, h.number + 1000 * (value \div 1000), 0))
<1> DEFINE q == value \div 1000
<1>1. q \in Nat /\ q < 1000 /\ h.number \in Nat
  BY DEF Ear
<1>2. ThousandsOf(f, lang, value) = IF q = 0 THEN <<>> ELSE Append(Counted(f, lang, q), 1000)
  BY <1>1 DEF ThousandsOf
<1> HIDE DEF q
<1>3. CASE q = 0
  <2>1. With(h, h.number + 1000 * q, 0) = h
    BY <1>1, <1>3, WithType
  <2> QED BY <1>2, <1>3, <2>1, HearsNoDigits DEF q
<1>4. CASE q # 0
  <2>1. HearsDigits(h, f[q], With(h, h.number, q))
    BY <1>1, <1>4, CountHeard
  <2>2. HearsDigits(h, Append(Counted(f, lang, q), 1000), With(h, h.number + 1000 * q, 0))
    BY <1>1, <1>4, <2>1, CountedHeard
  <2> QED BY <1>2, <1>4, <2>2 DEF q
<1> QED BY <1>3, <1>4

\* formatNumber: a number below a million is heard as itself.
LEMMA NumberHeard ==
  ASSUME NEW lang, NEW value \in Nat, value \div 1000 < 1000, NEW h \in Ear, h.group = 0
  PROVE  HearsDigits(h, FormatNumber(lang, value),
                     With(h, h.number + 1000 * (value \div 1000), value % 1000))
<1>1. PICK f : Formats(f, lang) /\ FormatNumber(lang, value) = f[value]
  BY FormatNumberDef
<1>2. CASE value = 0
  <2>1. f[0] = <<0>>
    BY <1>1 DEF Formats, Parts
  <2>2. HearsDigits(h, <<0>>, Hear(h, DigitFile(0)))
    BY HearsDigit
  <2>3. Hear(h, DigitFile(0)) = With(h, h.number, h.group + 0)
    BY HearDigits
  <2>4. h.number + 1000 * (value \div 1000) = h.number /\ value % 1000 = h.group + 0
    BY <1>2 DEF Ear
  <2> QED BY <1>1, <1>2, <2>1, <2>2, <2>3, <2>4
<1>3. CASE value # 0
  <2> DEFINE thousands == h.number + 1000 * (value \div 1000)
             mid == With(h, thousands, 0)
  <2>1. HearsDigits(h, ThousandsOf(f, lang, value), mid)
    BY <1>1, ThousandsHeard
  <2>2. thousands \in Nat /\ value \in Nat
    BY DEF Ear
  <2> HIDE DEF thousands
  <2>3. mid \in Ear /\ mid.number = thousands /\ mid.group = 0
        /\ \A a, b : With(mid, a, b) = With(h, a, b)
    BY <2>2, WithType
  <2> HIDE DEF mid
  <2>4. HearsDigits(h, After(ThousandsOf(f, lang, value), f, lang, value), With(mid, mid.number, value % 1000))
    BY <1>1, <2>1, <2>2, <2>3, BelowThousandHeard
  <2>5. f[value] = After(ThousandsOf(f, lang, value), f, lang, value)
    BY <1>1, <1>3, <2>2, FormatOf
  <2> QED BY <1>1, <2>3, <2>4, <2>5 DEF thousands
<1> QED BY <1>2, <1>3

\* What a listener knows when no number is being heard.
Told(position, limit, minutes, seconds) ==
  [number |-> 0, group |-> 0, position |-> position, limit |-> limit,
   minutes |-> minutes, seconds |-> seconds]

\* When a number is taken for what it counts, the next one starts from nothing.
LEMMA NumberTaken ==
  ASSUME NEW k \in Ear, NEW x
  PROVE  /\ [k EXCEPT !.position = x, !.number = 0, !.group = 0] = Told(x, k.limit, k.minutes, k.seconds)
         /\ [k EXCEPT !.minutes = x, !.number = 0, !.group = 0] = Told(k.position, k.limit, x, k.seconds)
         /\ [k EXCEPT !.seconds = x, !.number = 0, !.group = 0] = Told(k.position, k.limit, k.minutes, x)
<1>1. [k EXCEPT !.position = x, !.number = 0, !.group = 0] = Told(x, k.limit, k.minutes, k.seconds)
  <2> DEFINE m == [k EXCEPT !.position = x]
             n == [m EXCEPT !.number = 0]
  <2>1. [k EXCEPT !.position = x, !.number = 0, !.group = 0] = [n EXCEPT !.group = 0]
    OBVIOUS
  <2>2. m = [number |-> k.number, group |-> k.group, position |-> x, limit |-> k.limit, minutes |-> k.minutes, seconds |-> k.seconds]
    BY DEF Ear
  <2> HIDE DEF m
  <2>3. n = [number |-> 0, group |-> k.group, position |-> x, limit |-> k.limit, minutes |-> k.minutes, seconds |-> k.seconds]
    BY <2>2
  <2> HIDE DEF n
  <2>4. [n EXCEPT !.group = 0] = Told(x, k.limit, k.minutes, k.seconds)
    BY <2>3 DEF Told
  <2> QED BY <2>1, <2>4
<1>2. [k EXCEPT !.minutes = x, !.number = 0, !.group = 0] = Told(k.position, k.limit, x, k.seconds)
  <2> DEFINE m == [k EXCEPT !.minutes = x]
             n == [m EXCEPT !.number = 0]
  <2>1. [k EXCEPT !.minutes = x, !.number = 0, !.group = 0] = [n EXCEPT !.group = 0]
    OBVIOUS
  <2>2. m = [number |-> k.number, group |-> k.group, minutes |-> x, position |-> k.position, limit |-> k.limit, seconds |-> k.seconds]
    BY DEF Ear
  <2> HIDE DEF m
  <2>3. n = [number |-> 0, group |-> k.group, minutes |-> x, position |-> k.position, limit |-> k.limit, seconds |-> k.seconds]
    BY <2>2
  <2> HIDE DEF n
  <2>4. [n EXCEPT !.group = 0] = Told(k.position, k.limit, x, k.seconds)
    BY <2>3 DEF Told
  <2> QED BY <2>1, <2>4
<1>3. [k EXCEPT !.seconds = x, !.number = 0, !.group = 0] = Told(k.position, k.limit, k.minutes, x)
  <2> DEFINE m == [k EXCEPT !.seconds = x]
             n == [m EXCEPT !.number = 0]
  <2>1. [k EXCEPT !.seconds = x, !.number = 0, !.group = 0] = [n EXCEPT !.group = 0]
    OBVIOUS
  <2>2. m = [number |-> k.number, group |-> k.group, seconds |-> x, position |-> k.position, limit |-> k.limit, minutes |-> k.minutes]
    BY DEF Ear
  <2> HIDE DEF m
  <2>3. n = [number |-> 0, group |-> k.group, seconds |-> x, position |-> k.position, limit |-> k.limit, minutes |-> k.minutes]
    BY <2>2
  <2> HIDE DEF n
  <2>4. [n EXCEPT !.group = 0] = Told(k.position, k.limit, k.minutes, x)
    BY <2>3 DEF Told
  <2> QED BY <2>1, <2>4
<1> QED BY <1>1, <1>2, <1>3

\* A text is heard if the queue has one.
LEMMA TextHeard ==
  ASSUME NEW s, NEW name \in Texts, NEW h
  PROVE  Hears(h, Text(s, name), IF name \in s.texts THEN Hear(h, File(name)) ELSE h)
<1>1. File(name) \in AFile
  BY DEF File, AFile
<1>2. CASE name \in s.texts
  BY <1>1, <1>2, HearsFile DEF Text
<1>3. CASE name \notin s.texts
  BY <1>3, HearsNone DEF Text
<1> QED BY <1>2, <1>3

\* The digits of a number below a million, after which the number is known.
LEMMA DigitsHeard ==
  ASSUME NEW s, NEW n \in Nat, n \div 1000 < 1000, NEW h \in Ear, h.number = 0, h.group = 0
  PROVE  \E number, group \in Nat :
           number + group = n /\ Hears(h, Digits(s, n), With(h, number, group))
<1> DEFINE number == 1000 * (n \div 1000)
           group == n % 1000
<1>1. number \in Nat /\ group \in Nat /\ number + group = n /\ h.number + number = number
  OBVIOUS
<1>2. HearsDigits(h, FormatNumber(s.lang, n), With(h, h.number + number, group))
  BY NumberHeard
<1>3. Digits(s, n) = DigitFiles(FormatNumber(s.lang, n))
  BY DEF Digits, DigitFiles, DigitFile
<1>4. Hears(h, Digits(s, n), With(h, number, group))
  <2> HIDE DEF number, group
  <2> QED BY <1>1, <1>2, <1>3 DEF HearsDigits
<1> HIDE DEF number, group
<1> QED BY <1>1, <1>4

\* buildPositionFileSequence: after it, and the text that introduces the hold time, the
\* position is known and no number is left to be heard.
LEMMA PositionHeard ==
  ASSUME NEW s, NEW p \in Nat, p \div 1000 < 1000, {"callsWaiting", "holdTime"} \cap s.texts # {}
  PROVE  \E k : /\ Hears(Nothing, PositionFiles(s, p), k)
                /\ Hears(k, Text(s, "holdTime"), Told(p, "none", Silent, Silent))
<1> DEFINE told == Told(p, "none", Silent, Silent)
<1>1. Nothing \in Ear /\ Nothing.number = 0 /\ Nothing.group = 0
      /\ Nothing.position = Silent /\ Nothing.limit = "none"
  BY DEF Nothing, Ear, Silent
<1>2. Hears(told, Text(s, "holdTime"), told)
  <2>1. Hear(told, File("holdTime")) = told
    BY DEF Hear, File, Told, Silent
  <2>2. "holdTime" \in Texts
    BY DEF Texts
  <2> QED BY <2>1, <2>2, TextHeard
<1>3. CASE p = 1 /\ "youAreNext" \in s.texts
  <2>1. PositionFiles(s, p) = <<File("youAreNext")>>
    BY <1>3 DEF PositionFiles
  <2>2. Hear(Nothing, File("youAreNext")) = told
    BY <1>3 DEF Hear, File, Nothing, Told, Silent
  <2>3. File("youAreNext") \in AFile
    BY DEF File, AFile, Texts
  <2> QED BY <1>2, <2>1, <2>2, <2>3, HearsFile
<1>4. CASE ~(p = 1 /\ "youAreNext" \in s.texts)
  <2>1. PositionFiles(s, p) = (Text(s, "thereAre") \o Digits(s, p)) \o Text(s, "callsWaiting")
    BY <1>4 DEF PositionFiles
  <2>2. Hears(Nothing, Text(s, "thereAre"), Nothing)
    <3>1. Hear(Nothing, File("thereAre")) = Nothing
      BY DEF Hear, File
    <3>2. "thereAre" \in Texts
      BY DEF Texts
    <3> QED BY <3>1, <3>2, TextHeard
  <2>3. PICK number, group \in Nat :
          number + group = p /\ Hears(Nothing, Digits(s, p), With(Nothing, number, group))
    BY <1>1, DigitsHeard
  <2> DEFINE mid == With(Nothing, number, group)
  <2> HIDE DEF told
  <2>4. /\ Hear(mid, File("callsWaiting")) = told
        /\ Hear(mid, File("holdTime")) = told
    <3>1. mid = [number |-> number, group |-> group, position |-> Silent, limit |-> "none",
                 minutes |-> Silent, seconds |-> Silent]
      BY DEF With, Nothing
    <3>2. mid.position = Silent /\ mid.number + mid.group = p
      BY <2>3, <3>1
    <3> HIDE DEF mid
    <3>3. \A name \in {"callsWaiting", "holdTime"} :
            Hear(mid, File(name)) = [mid EXCEPT !.position = mid.number + mid.group, !.number = 0, !.group = 0]
      BY <3>2 DEF Hear, File
    <3>4. mid \in Ear
      BY <3>1 DEF Ear, Silent
    <3>5. mid.limit = "none" /\ mid.minutes = Silent /\ mid.seconds = Silent
      BY <3>1
    <3>6. [mid EXCEPT !.position = p, !.number = 0, !.group = 0] = told
      <4>1. [mid EXCEPT !.position = p, !.number = 0, !.group = 0]
              = Told(p, mid.limit, mid.minutes, mid.seconds)
        BY <3>4, NumberTaken, Zenon
      <4> QED BY <3>5, <4>1, Zenon DEF told
    <3>7. [mid EXCEPT !.position = mid.number + mid.group, !.number = 0, !.group = 0]
            = [mid EXCEPT !.position = p, !.number = 0, !.group = 0]
      BY <3>2, Zenon
    <3> QED BY <3>3, <3>6, <3>7, Zenon
  <2> HIDE DEF mid, told
  <2>5. Hears(Nothing, Text(s, "thereAre") \o Digits(s, p), mid)
    BY <2>2, <2>3, HearsBoth DEF mid
  <2>6. "callsWaiting" \in Texts /\ "holdTime" \in Texts
    BY DEF Texts
  <2>7. CASE "callsWaiting" \in s.texts
    <3>1. Hears(mid, Text(s, "callsWaiting"), told)
      BY <2>4, <2>6, <2>7, TextHeard
    <3> QED BY <1>2, <2>1, <2>5, <3>1, HearsBoth DEF told
  <2>8. CASE "callsWaiting" \notin s.texts
    <3>1. "holdTime" \in s.texts
      BY <2>8
    <3>2. Hears(mid, Text(s, "callsWaiting"), mid)
      BY <2>6, <2>8, TextHeard
    <3>3. Hears(mid, Text(s, "holdTime"), told)
      BY <2>4, <2>6, <3>1, TextHeard
    <3> QED BY <2>1, <2>5, <3>2, <3>3, HearsBoth DEF told
  <2> QED BY <2>7, <2>8
<1> QED BY <1>3, <1>4

\* Minutes or seconds, if any are said.
TimeFiles(s, n, one, many) ==
  IF n = Silent THEN <<>> ELSE Append(Digits(s, n), Unit(s, n, one, many))

\* buildHoldTimeFileSequence: minutes are heard as minutes.
LEMMA MinutesHeard ==
  ASSUME NEW s, NEW n, n = Silent \/ (n \in Nat /\ n \div 1000 < 1000),
         NEW position \in Nat, NEW limit \in Texts \cup {"none"}
  PROVE  Hears(Told(position, limit, Silent, Silent), TimeFiles(s, n, "minute", "minutes"),
               Told(position, limit, n, Silent))
<1> DEFINE h == Told(position, limit, Silent, Silent)
           unit == Unit(s, n, "minute", "minutes")
<1>1. CASE n = Silent
  BY <1>1, HearsNone DEF TimeFiles
<1>2. CASE n # Silent
  <2>1. h \in Ear /\ h.number = 0 /\ h.group = 0 /\ n \in Nat /\ n \div 1000 < 1000
    BY <1>2 DEF Told, Ear, Silent
  <2>2. PICK number, group \in Nat : number + group = n /\ Hears(h, Digits(s, n), With(h, number, group))
    <3> HIDE DEF h
    <3> QED BY <2>1, DigitsHeard
  <2>3. unit \in AFile /\ unit.name \in {"minute", "minutes"}
    BY DEF Unit, File, AFile
  <2>4. Hear(With(h, number, group), unit) = Told(position, limit, n, Silent)
    <3> DEFINE mid == With(h, number, group)
    <3>1. mid = [number |-> number, group |-> group, position |-> position, limit |-> limit,
                 minutes |-> Silent, seconds |-> Silent]
      BY DEF With, Told
    <3> HIDE DEF unit, mid
    <3>2. Hear(mid, unit) = [mid EXCEPT !.minutes = mid.number + mid.group, !.number = 0, !.group = 0]
      BY <2>3 DEF Hear
    <3>3. mid.number + mid.group = n
      BY <2>2, <3>1
    <3>4. mid \in Ear
      BY <3>1 DEF Ear, Silent
    <3>5. mid.position = position /\ mid.limit = limit /\ mid.seconds = Silent
      BY <3>1
    <3>6. [mid EXCEPT !.minutes = n, !.number = 0, !.group = 0] = Told(position, limit, n, Silent)
      BY <3>4, <3>5, NumberTaken
    <3> QED BY <3>2, <3>3, <3>6 DEF mid
  <2>5. Hears(h, Append(Digits(s, n), unit), Hear(With(h, number, group), unit))
    <3> HIDE DEF h, unit
    <3> QED BY <2>2, <2>3, HearsOneMore
  <2> QED BY <1>2, <2>4, <2>5 DEF TimeFiles
<1> QED BY <1>1, <1>2

\* And seconds as seconds.
LEMMA SecondsHeard ==
  ASSUME NEW s, NEW n, n = Silent \/ (n \in Nat /\ n \div 1000 < 1000),
         NEW position \in Nat, NEW limit \in Texts \cup {"none"}, NEW minutes \in Int
  PROVE  Hears(Told(position, limit, minutes, Silent), TimeFiles(s, n, "second", "seconds"),
               Told(position, limit, minutes, n))
<1> DEFINE h == Told(position, limit, minutes, Silent)
           unit == Unit(s, n, "second", "seconds")
<1>1. CASE n = Silent
  BY <1>1, HearsNone DEF TimeFiles
<1>2. CASE n # Silent
  <2>1. h \in Ear /\ h.number = 0 /\ h.group = 0 /\ n \in Nat /\ n \div 1000 < 1000
    BY <1>2 DEF Told, Ear, Silent
  <2>2. PICK number, group \in Nat : number + group = n /\ Hears(h, Digits(s, n), With(h, number, group))
    <3> HIDE DEF h
    <3> QED BY <2>1, DigitsHeard
  <2>3. unit \in AFile /\ unit.name \in {"second", "seconds"}
    BY DEF Unit, File, AFile
  <2>4. Hear(With(h, number, group), unit) = Told(position, limit, minutes, n)
    <3> DEFINE mid == With(h, number, group)
    <3>1. mid = [number |-> number, group |-> group, position |-> position, limit |-> limit,
                 minutes |-> minutes, seconds |-> Silent]
      BY DEF With, Told
    <3> HIDE DEF unit, mid
    <3>2. Hear(mid, unit) = [mid EXCEPT !.seconds = mid.number + mid.group, !.number = 0, !.group = 0]
      BY <2>3 DEF Hear
    <3>3. mid.number + mid.group = n
      BY <2>2, <3>1
    <3>4. mid \in Ear
      BY <3>1 DEF Ear, Silent
    <3>5. mid.position = position /\ mid.limit = limit /\ mid.minutes = minutes
      BY <3>1
    <3>6. [mid EXCEPT !.seconds = n, !.number = 0, !.group = 0] = Told(position, limit, minutes, n)
      BY <3>4, <3>5, NumberTaken
    <3> QED BY <3>2, <3>3, <3>6 DEF mid
  <2>5. Hears(h, Append(Digits(s, n), unit), Hear(With(h, number, group), unit))
    <3> HIDE DEF h, unit
    <3> QED BY <2>2, <2>3, HearsOneMore
  <2> QED BY <1>2, <2>4, <2>5 DEF TimeFiles
<1> QED BY <1>1, <1>2

\* The text of the limit, if the limit applies and the queue has the text.
LEMMA LimitHeard ==
  ASSUME NEW s \in Service, NEW limit \in {"lessThan", "moreThan", "none"}, NEW position \in Nat
  PROVE  Hears(Told(position, "none", Silent, Silent), Text(s, limit),
               Told(position, IF limit \in s.texts THEN limit ELSE "none", Silent, Silent))
<1> DEFINE h == Told(position, "none", Silent, Silent)
<1>1. CASE limit = "none"
  <2>1. "none" \notin s.texts
    BY DEF Service, Texts
  <2>2. Text(s, limit) = <<>>
    BY <1>1, <2>1 DEF Text
  <2> QED BY <1>1, <2>1, <2>2, HearsNone
<1>2. CASE limit # "none"
  <2>1. limit \in Texts /\ limit \in {"lessThan", "moreThan"}
    BY <1>2 DEF Texts
  <2>2. Hear(h, File(limit)) = Told(position, limit, Silent, Silent)
    BY <2>1 DEF Hear, File, Told
  <2>3. Hears(h, Text(s, limit), IF limit \in s.texts THEN Hear(h, File(limit)) ELSE h)
    BY <2>1, TextHeard
  <2> QED BY <2>2, <2>3
<1> QED BY <1>1, <1>2

-----------------------------------------------------------------------------
\* What is announced are numbers, or nothing.
LEMMA SayTimeType ==
  ASSUME NEW time \in Nat, NEW mode \in Modes
  PROVE  SayTime(time, mode).minutes \in Nat \cup {Silent} /\ SayTime(time, mode).seconds \in Nat \cup {Silent}
<1>1. \A base \in Bases : RoundSeconds(time, base) \in Nat
  BY RoundSecondsRounds DEF IsRounding
<1>2. CASE time < 60 \/ mode = "SecondsBy10Sec"
  <2>1. SayTime(time, mode) = Seconds(RoundSeconds(time, 10))
    BY <1>2 DEF SayTime
  <2> QED BY <1>1, <2>1 DEF Seconds, Bases
<1>3. CASE ~(time < 60 \/ mode = "SecondsBy10Sec") /\ mode = "SecondsBy30Sec"
  <2>1. SayTime(time, mode) = Seconds(RoundSeconds(time, 30))
    BY <1>3 DEF SayTime
  <2> QED BY <1>1, <2>1 DEF Seconds, Bases
<1>4. CASE ~(time < 60 \/ mode = "SecondsBy10Sec") /\ mode = "MinutesBy1Min"
  <2>1. SayTime(time, mode) = Minutes(SecondsToMinutes(time))
    BY <1>4 DEF SayTime
  <2>2. SecondsToMinutes(time) \in Nat
    BY DEF SecondsToMinutes, RoundSeconds
  <2> QED BY <2>1, <2>2 DEF Minutes
<1>5. CASE ~(time < 60 \/ mode \in {"SecondsBy10Sec", "SecondsBy30Sec", "MinutesBy1Min"})
  <2>1. SayTime(time, mode) = MixMinutesAndSeconds(time, mode)
    BY <1>5 DEF SayTime
  <2>2. time \div 60 \in Nat /\ RestOfMinute(time, mode) \in Nat
    BY DEF RestOfMinute, RoundSeconds
  <2> QED BY <2>1, <2>2 DEF MixMinutesAndSeconds, Minutes
<1> QED BY <1>2, <1>3, <1>4, <1>5

\* The numbers that are heard right are those with at most three digits before the thousands.
LEMMA BelowMillion == \A n \in Nat : n < 1000000 => n \div 1000 < 1000
BY SMT

\* The whole announcement, file after file: the position, then the text of the limit, then
\* minutes and seconds.
LEMMA AnnouncementHeard ==
  ASSUME NEW s \in Service, NEW a, a.position \in Nat, a.limit \in {"lessThan", "moreThan", "none"},
         a.time.minutes \in Nat \cup {Silent}, a.time.seconds \in Nat \cup {Silent},
         \A n \in {a.position, a.time.minutes, a.time.seconds} : n = Silent \/ n \div 1000 < 1000,
         {"callsWaiting", "holdTime"} \cap s.texts # {}
  PROVE  Heard(Files(s, a)) = Told(a.position, IF a.limit \in s.texts THEN a.limit ELSE "none",
                                   a.time.minutes, a.time.seconds)
<1> DEFINE limit == IF a.limit \in s.texts THEN a.limit ELSE "none"
           minutes == TimeFiles(s, a.time.minutes, "minute", "minutes")
           seconds == TimeFiles(s, a.time.seconds, "second", "seconds")
           told == Told(a.position, limit, a.time.minutes, a.time.seconds)
<1>1. PICK k : /\ Hears(Nothing, PositionFiles(s, a.position), k)
               /\ Hears(k, Text(s, "holdTime"), Told(a.position, "none", Silent, Silent))
  <2>1. a.position \div 1000 < 1000
    BY DEF Silent
  <2> QED BY <2>1, PositionHeard
<1>2. Hears(Told(a.position, "none", Silent, Silent), Text(s, a.limit), Told(a.position, limit, Silent, Silent))
  BY LimitHeard
<1>3. limit \in Texts \cup {"none"}
  BY DEF Texts
<1> HIDE DEF limit
<1>4. Hears(Told(a.position, limit, Silent, Silent), minutes, Told(a.position, limit, a.time.minutes, Silent))
  <2>1. a.time.minutes = Silent \/ (a.time.minutes \in Nat /\ a.time.minutes \div 1000 < 1000)
    OBVIOUS
  <2> QED BY <1>3, <2>1, MinutesHeard
<1>5. Hears(Told(a.position, limit, a.time.minutes, Silent), seconds, told)
  <2>1. a.time.seconds = Silent \/ (a.time.seconds \in Nat /\ a.time.seconds \div 1000 < 1000)
    OBVIOUS
  <2>2. a.time.minutes \in Int
    BY DEF Silent
  <2> DEFINE m == a.time.minutes
             n == a.time.seconds
  <2>3. m \in Int /\ (n = Silent \/ (n \in Nat /\ n \div 1000 < 1000)) /\ a.position \in Nat
    BY <2>1, <2>2
  <2> HIDE DEF m, n
  <2>4. Hears(Told(a.position, limit, m, Silent), TimeFiles(s, n, "second", "seconds"), Told(a.position, limit, m, n))
    BY <1>3, <2>3, SecondsHeard
  <2> QED BY <2>4 DEF m, n, seconds, told
<1> HIDE DEF minutes, seconds, told
<1>6. Hears(k, ((Text(s, "holdTime") \o Text(s, a.limit)) \o minutes) \o seconds, told)
  <2>1. Hears(k, Text(s, "holdTime") \o Text(s, a.limit), Told(a.position, limit, Silent, Silent))
    BY <1>1, <1>2, HearsBoth
  <2>2. Hears(k, (Text(s, "holdTime") \o Text(s, a.limit)) \o minutes, Told(a.position, limit, a.time.minutes, Silent))
    BY <1>4, <2>1, HearsBoth
  <2> QED BY <1>5, <2>2, HearsBoth
<1>7. HoldTimeFiles(s, a.limit, a.time) = ((Text(s, "holdTime") \o Text(s, a.limit)) \o minutes) \o seconds
  BY DEF HoldTimeFiles, TimeFiles, minutes, seconds
<1>8. Hears(Nothing, Files(s, a), told)
  BY <1>1, <1>6, <1>7, HearsBoth DEF Files
<1>9. <<>> \in Seq(AFile) /\ Files(s, a) \in Seq(AFile) /\ <<>> \o Files(s, a) = Files(s, a)
  <2>1. Files(s, a) \in Seq(AFile)
    BY <1>8 DEF Hears
  <2> QED BY <2>1, EmptySeq, ConcatEmptySeq
<1>10. Heard(<<>> \o Files(s, a)) = told
  BY <1>8, <1>9, HeardNothing DEF Hears
<1> QED BY <1>9, <1>10 DEF told, limit

\* buildPositionFileSequence, buildHoldTimeFileSequence and formatNumber: what a caller hears
\* is the position and the time that are meant, in both languages, whatever texts are missing,
\* for every number below a million.
THEOREM AnnouncementIsHeardAsMeant == Spec => []SaidAsMeant
<1>1. IInv => SaidAsMeant
  <2> DEFINE numbers == {said.position, said.time.minutes, said.time.seconds}
  <2>1. SUFFICES ASSUME IInv, \A n \in numbers : n < 1000000,
                        {"callsWaiting", "holdTime"} \cap service.texts # {}
                 PROVE  LET heard == Heard(Files(service, said)) IN
                        /\ heard.position = said.position
                        /\ heard.minutes = said.time.minutes /\ heard.seconds = said.time.seconds
                        /\ heard.limit = IF said.limit \in service.texts THEN said.limit ELSE "none"
    BY SMT DEF SaidAsMeant
  <2>2. service \in Service /\ asked \in Nat /\ said = Announcement(service, asked)
    BY <2>1 DEF IInv
  <2> DEFINE limited == LimitHoldTime(service, asked)
  <2>3. limited.time \in Nat /\ service.mode \in Modes /\ limited.text \in {"lessThan", "moreThan", "none"}
    BY <2>2, LimitedType DEF LimitHoldTime
  <2>4. said.position = asked /\ said.limit = limited.text /\ said.time = SayTime(limited.time, service.mode)
    BY <2>2 DEF Announcement
  <2>5. said.time.minutes \in Nat \cup {Silent} /\ said.time.seconds \in Nat \cup {Silent}
    BY <2>3, <2>4, SayTimeType
  <2>6. \A n \in numbers : n = Silent \/ n \div 1000 < 1000
    BY <2>1, <2>2, <2>4, <2>5, BelowMillion, SMT
  <2>7. Heard(Files(service, said)) = Told(said.position, IF said.limit \in service.texts THEN said.limit ELSE "none",
                                           said.time.minutes, said.time.seconds)
    <3>1. {"callsWaiting", "holdTime"} \cap service.texts # {}
      BY <2>1, SMT
    <3>2. said.position \in Nat /\ said.limit \in {"lessThan", "moreThan", "none"}
      BY <2>2, <2>3, <2>4
    <3> QED BY <2>2, <2>5, <2>6, <3>1, <3>2, AnnouncementHeard
  <2> QED BY <2>7 DEF Told
<1> QED BY <1>1, Invariance, PTL
==============================================================================

------------------------------- MODULE HoldTime -------------------------------
(***************************************************************************)
(* The position announcement: the caller's position and the estimated hold *)
(* time as a sequence of sound files (main.manager.announce.go:657-894).   *)
(* The functions are pure.  The state machine asks for the announcement of *)
(* one number after the other, so that neighbouring ones can be compared;  *)
(* the code passes 985 and 96 (main.manager.announce.go:299).              *)
(*                                                                         *)
(* A file is its name, numbers for the files of digits: 0..19, the tens,   *)
(* 100 for "hundred" and 1000 for "thousand".                              *)
(***************************************************************************)
EXTENDS Integers, Sequences

CONSTANTS
  Services,  \* the settings of queues: see Service
  Starts,    \* first numbers asked for
  Span       \* how many numbers are asked for after the first

\* "Other" is a number of the database that is none of the five modes.
Modes == {"SecondsBy10Sec", "SecondsBy30Sec", "MinutesBy1Min", "MinutesBy10Sec", "MinutesBy30Sec",
          "Other"}
Languages == {"EN", "TR"}
Texts == {"youAreNext", "thereAre", "callsWaiting", "holdTime", "lessThan", "moreThan"}

\* AnnouncementService: 0 is no limit, blank texts are left out.
Service == [mode: Modes, min: Nat, max: Nat, lang: Languages, texts: SUBSET Texts]

ASSUME HoldTimeAssumption ==
  /\ Services \subseteq Service
  /\ Starts \subseteq Nat
  /\ Span \in Nat

VARIABLES service, first, asked, said

vars == <<service, first, asked, said>>

-----------------------------------------------------------------------------
(* formatNumber *)

\* In Turkish one says thousand and hundred, never one thousand and one hundred.
FormatNumber(lang, value) ==
  LET format[n \in Nat] ==
        LET counted(m) == IF lang = "EN" \/ m > 1 THEN format[m] ELSE <<>>
            hundreds == (n % 1000) \div 100
            rest == n % 100
            unit == IF rest >= 20 THEN rest % 10 ELSE rest IN
        IF n = 0 THEN <<0>>
        ELSE (IF n >= 1000 THEN Append(counted(n \div 1000), 1000) ELSE <<>>)
          \o (IF hundreds > 0 THEN Append(counted(hundreds), 100) ELSE <<>>)
          \o (IF rest >= 20 THEN <<rest - (rest % 10)>> ELSE <<>>)
          \o (IF unit > 0 THEN <<unit>> ELSE <<>>)
  IN format[value]

-----------------------------------------------------------------------------
(* buildHoldTimeFileSequence: what is said about the hold time. *)

\* roundSeconds and secondsToMinutes: math.Round rounds halves up, values are not negative.

\* Mutant: rounds down.
RoundSeconds_Down(value, base) == base * (value \div base)

RoundSeconds(value, base) == base * ((2 * value + base) \div (2 * base))
SecondsToMinutes(value) == RoundSeconds(value, 60) \div 60

\* limitHoldTime: the time to be announced, and the text that goes before it.

\* Mutant: the text is said and the time is not limited.
LimitHoldTime_TimeKept(s, holdTime) ==
  [time |-> holdTime,
   text |-> IF s.min > 0 /\ holdTime < s.min THEN "lessThan"
            ELSE IF s.max > 0 /\ holdTime > s.max THEN "moreThan" ELSE "none"]

LimitHoldTime(s, holdTime) ==
  IF s.min > 0 /\ holdTime < s.min THEN [time |-> s.min, text |-> "lessThan"]
  ELSE IF s.max > 0 /\ holdTime > s.max THEN [time |-> s.max, text |-> "moreThan"]
  ELSE [time |-> holdTime, text |-> "none"]

\* SaySeconds, SayMinutes: a part that is not said is Silent.
Silent == -1
Seconds(n) == [minutes |-> Silent, seconds |-> n]
Minutes(n) == [minutes |-> n, seconds |-> Silent]

\* mixMinutesAndSeconds
RestOfMinute(time, mode) ==
  RoundSeconds(time % 60, CASE mode = "MinutesBy10Sec" -> 10 [] mode = "MinutesBy30Sec" -> 30 [] OTHER -> 1)

\* Mutant: sixty seconds are dropped.
MixMinutesAndSeconds_CarryLost(time, mode) ==
  LET minutes == time \div 60
      seconds == RestOfMinute(time, mode) IN
  IF seconds \in 1 .. 59 THEN [minutes |-> minutes, seconds |-> seconds] ELSE Minutes(minutes)

MixMinutesAndSeconds(time, mode) ==
  LET minutes == time \div 60
      seconds == RestOfMinute(time, mode) IN
  IF seconds = 60 THEN Minutes(minutes + 1)
  ELSE IF seconds > 0 THEN [minutes |-> minutes, seconds |-> seconds]
  ELSE Minutes(minutes)

SayTime(time, mode) ==
  IF time < 60 \/ mode = "SecondsBy10Sec" THEN Seconds(RoundSeconds(time, 10))
  ELSE IF mode = "SecondsBy30Sec" THEN Seconds(RoundSeconds(time, 30))
  ELSE IF mode = "MinutesBy1Min" THEN Minutes(SecondsToMinutes(time))
  ELSE MixMinutesAndSeconds(time, mode)

\* What runActionPositionAnnounce tells a caller at position n with a hold time of n.
Announcement(s, n) ==
  LET limited == LimitHoldTime(s, n) IN
  [position |-> n, limit |-> limited.text, time |-> SayTime(limited.time, s.mode)]

-----------------------------------------------------------------------------
(* The files in which it is said. *)

File(name) == [name |-> name, n |-> 0]
Text(s, name) == IF name \in s.texts THEN <<File(name)>> ELSE <<>>
Digits(s, n) == LET parts == FormatNumber(s.lang, n) IN
                [i \in DOMAIN parts |-> [name |-> "digits", n |-> parts[i]]]
Unit(s, n, one, many) == File(IF s.lang = "TR" \/ n = 1 THEN one ELSE many)

\* Mutant: the first in the queue is told so and is told the number too.
PositionFiles_NumberToo(s, position) ==
  (IF position = 1 THEN Text(s, "youAreNext") ELSE <<>>)
  \o Text(s, "thereAre") \o Digits(s, position) \o Text(s, "callsWaiting")

PositionFiles(s, position) ==
  IF position = 1 /\ "youAreNext" \in s.texts THEN <<File("youAreNext")>>
  ELSE Text(s, "thereAre") \o Digits(s, position) \o Text(s, "callsWaiting")

HoldTimeFiles(s, limit, time) ==
  LET said1(n, one, many) ==
        IF n = Silent THEN <<>> ELSE Append(Digits(s, n), Unit(s, n, one, many)) IN
  Text(s, "holdTime") \o Text(s, limit)
    \o said1(time.minutes, "minute", "minutes") \o said1(time.seconds, "second", "seconds")

Files(s, a) == PositionFiles(s, a.position) \o HoldTimeFiles(s, a.limit, a.time)

-----------------------------------------------------------------------------
Init ==
  /\ service \in Services /\ first \in Starts
  /\ asked = first
  /\ said = Announcement(service, asked)

AskNext ==
  /\ asked < first + Span
  /\ asked' = asked + 1
  /\ said' = Announcement(service, asked + 1)
  /\ UNCHANGED <<service, first>>

Next == AskNext

Spec == Init /\ [][Next]_vars

-----------------------------------------------------------------------------
(* Reference definitions: what a listener makes of the files. *)

\* A number is heard group by group: "thousand" and "hundred" count what was said
\* before them, or one.
OneIfNone(n) == IF n = 0 THEN 1 ELSE n
Hear(heard, file) ==
  CASE file.name = "digits" /\ file.n = 1000 ->
         [heard EXCEPT !.number = @ + 1000 * OneIfNone(heard.group), !.group = 0]
    [] file.name = "digits" /\ file.n = 100 -> [heard EXCEPT !.group = 100 * OneIfNone(@)]
    [] file.name = "digits" /\ file.n < 100 -> [heard EXCEPT !.group = @ + file.n]
    [] file.name = "youAreNext" -> [heard EXCEPT !.position = 1]
    [] file.name \in {"callsWaiting", "holdTime"} /\ heard.position = Silent ->
         [heard EXCEPT !.position = heard.number + heard.group, !.number = 0, !.group = 0]
    [] file.name \in {"lessThan", "moreThan"} -> [heard EXCEPT !.limit = file.name]
    [] file.name \in {"minute", "minutes"} ->
         [heard EXCEPT !.minutes = heard.number + heard.group, !.number = 0, !.group = 0]
    [] file.name \in {"second", "seconds"} ->
         [heard EXCEPT !.seconds = heard.number + heard.group, !.number = 0, !.group = 0]
    [] OTHER -> heard

Nothing == [number |-> 0, group |-> 0, position |-> Silent, limit |-> "none",
            minutes |-> Silent, seconds |-> Silent]

Heard(files) ==
  LET upTo[i \in 0 .. Len(files)] == IF i = 0 THEN Nothing ELSE Hear(upTo[i - 1], files[i])
  IN upTo[Len(files)]

\* The seconds an announced time stands for, and the unit it is rounded to.
InSeconds(time) ==
  (IF time.minutes = Silent THEN 0 ELSE 60 * time.minutes)
  + (IF time.seconds = Silent THEN 0 ELSE time.seconds)

Base(time, mode) ==
  IF time < 60 \/ mode \in {"SecondsBy10Sec", "MinutesBy10Sec"} THEN 10
  ELSE CASE mode = "MinutesBy1Min" -> 60 [] mode = "Other" -> 1 [] OTHER -> 30

-----------------------------------------------------------------------------
(* Properties *)

\* The listener hears the position and the time that are meant: every number is read
\* as itself, and position and hold time do not run into each other, if a text
\* separates them.  A million and more is not read right ("thousand thousand").
SaidAsMeant ==
  LET heard == Heard(Files(service, said)) IN
  /\ \A n \in {said.position, said.time.minutes, said.time.seconds} : n < 1000000
  /\ {"callsWaiting", "holdTime"} \cap service.texts # {}
  => /\ heard.position = said.position
     /\ heard.minutes = said.time.minutes /\ heard.seconds = said.time.seconds
     /\ heard.limit = IF said.limit \in service.texts THEN said.limit ELSE "none"

\* The announced time differs from the (limited) estimate by at most half of the unit
\* it is rounded to, and after minutes at most 59 seconds are said.
TimeRounded ==
  LET time == LimitHoldTime(service, asked).time
      error == InSeconds(said.time) - time IN
  /\ 2 * error <= Base(time, service.mode) /\ -2 * error <= Base(time, service.mode)
  /\ said.time.minutes # Silent => said.time.seconds < 60

\* "Less than" and "more than" are true if the limit is a whole number of the announced
\* units.  Any other limit is rounded after it was applied, and the estimate may be on the
\* wrong side of what is said (a limit of 34 seconds, an estimate of 32: "less than 30
\* seconds"), but by less than half of the unit.
LimitsTrue ==
  LET unit(limit) == Base(limit, service.mode)
      whole(limit) == limit % unit(limit) = 0
      over == asked - InSeconds(said.time) IN
  /\ said.limit = "lessThan" =>
       /\ whole(service.min) => over < 0
       /\ 2 * over < unit(service.min)
  /\ said.limit = "moreThan" =>
       /\ whole(service.max) => over > 0
       /\ -2 * over < unit(service.max)

\* Who waits longer is not told a shorter time: not at a minute, not where the unit
\* changes, and not at a limit, unless the limits exclude each other.
LimitsAgree == service.max = 0 \/ service.min <= service.max
LongerIsNotShorter == [][LimitsAgree => InSeconds(said'.time) >= InSeconds(said.time)]_vars
=============================================================================

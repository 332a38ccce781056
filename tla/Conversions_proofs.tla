------------------------- MODULE Conversions_proofs -------------------------
(***************************************************************************)
(* A setting comes back as it was set, whatever numbers an output shows,   *)
(* and the services are restarted around midnight, wherever the clocks are *)
(* changed.                                                                *)
(***************************************************************************)
EXTENDS SettingValues, RestartTime, TLAPS

-----------------------------------------------------------------------------
(* The settings *)

BatteryNames == {"none", "Ext_basic", "Ext_hybrid"}

(* Nothing that is wanted differs from what is known. *)
Agreed == known = {} \/ Wanted(kind, output) \in {{}, known}

(* The one thing that never agrees. *)
Nameless == kind = "battery" /\ Names(ExtBatterySetup, output) = {}

(* Picea says what was wanted of it. *)
Obeyed == \E v \in Wanted(kind, output) : said \in Said(kind, v)

TypeOK == kind \in Kinds /\ output \in Int

Fetched ==
    since \in {"poll", "settled"} =>
        /\ known = Understood(kind, said)
        /\ known = {} \/ \E v \in known : input = Written(kind, v)

AfterSet == since = "set" => Obeyed \/ (Agreed /\ known = Understood(kind, said))

AfterAll == since = "settled" => Agreed \/ (Nameless /\ Obeyed)

IInv == TypeOK /\ Fetched /\ AfterSet /\ AfterAll

-----------------------------------------------------------------------------
(* The conversions *)

LEMMA BatteryNamesAre ==
    /\ DOMAIN ExtBatterySetup = BatteryNames
    /\ ExtBatterySetup["none"] = 0 /\ ExtBatterySetup["Ext_basic"] = 1
    /\ ExtBatterySetup["Ext_hybrid"] = 2
BY DEF ExtBatterySetup, BatteryNames

LEMMA FilterNamesAre ==
    /\ {"filterchange_preparing", "filterchange_verifying"} \subseteq DOMAIN FilterExchangeState
    /\ FilterExchangeState["filterchange_preparing"] = 2
    /\ FilterExchangeState["filterchange_verifying"] = 4
BY DEF FilterExchangeState

(* A battery with a name. *)
LEMMA BatteryNamed ==
    ASSUME NEW n \in Int
    PROVE  Names(ExtBatterySetup, n) # {} <=> n \in {0, 1, 2}
BY BatteryNamesAre DEF Names, BatteryNames

(* What SendSettingsData says is understood as what it was given. *)
LEMMA BatteryUnderstood ==
    ASSUME NEW n \in Int, Names(ExtBatterySetup, n) # {}, NEW w \in Said("battery", n)
    PROVE  Understood("battery", w) = {n}
<1>1. w \in Names(ExtBatterySetup, n)
  BY DEF Said
<1>2. w \in DOMAIN ExtBatterySetup /\ ExtBatterySetup[w] = n
  BY <1>1 DEF Names
<1>3. QED
  BY <1>2 DEF Understood

LEMMA FilterUnderstood ==
    ASSUME NEW n \in {2, 4}, NEW w \in Said("filter", n)
    PROVE  Understood("filter", w) = {n}
<1>1. w \in Names(FilterExchangeState, n)
  BY DEF Said
<1>2. w \in DOMAIN FilterExchangeState /\ FilterExchangeState[w] = n
  BY <1>1 DEF Names
<1>3. QED
  BY <1>2 DEF Understood

(* Hours, minutes and seconds are read off with \div and %. *)
LEMMA Hours ==
    ASSUME NEW n \in Nat
    PROVE  /\ n \div 3600 \in Nat /\ n % 3600 \in Nat
           /\ n = 3600 * (n \div 3600) + (n % 3600)
<1>1. n \div 3600 \in Int /\ n % 3600 \in Int
  BY Z3
<1>2. n = 3600 * (n \div 3600) + (n % 3600)
  BY SMTT(30)
<1>3. n % 3600 >= 0 /\ n \div 3600 >= 0
  BY SMTT(30)
<1>4. QED
  BY <1>1, <1>2, <1>3

LEMMA Minutes ==
    ASSUME NEW r \in Nat
    PROVE  /\ r \div 60 \in Nat /\ r % 60 \in Nat
           /\ r = 60 * (r \div 60) + (r % 60)
BY SMTT(30)

SecondOf(n) == n % 60

LEMMA Seconds ==
    ASSUME NEW n \in Nat, NEW h \in Nat, NEW r \in Nat, n = 3600 * h + r
    PROVE  SecondOf(n) = SecondOf(r)
<1>1. SecondOf(3600 * h + r) = SecondOf(r)
  BY SMTT(30) DEF SecondOf
<1>2. QED
  BY <1>1

LEMMA Recomposed ==
    ASSUME NEW n \in Nat, NEW h \in Nat, NEW r \in Nat, NEW m \in Nat, NEW s \in Nat,
           n = 3600 * h + r, r = 60 * m + s
    PROVE  zeitInSekunden(<<h, m, s>>) = n
<1>1. h * 3600 + m * 60 + s = n
  BY SMT
<1>2. QED
  BY <1>1 DEF zeitInSekunden

LEMMA WithinADay ==
    ASSUME NEW n \in Nat, n < 86400
    PROVE  sekundenInZeitformat(n) = <<n \div 3600, (n % 3600) \div 60, SecondOf(n)>>
<1>1. n % 86400 = n /\ ~(n < 0)
  BY SMTT(30)
<1>2. QED
  BY <1>1 DEF sekundenInZeitformat, SecondOf

LEMMA OfADay ==
    ASSUME NEW n \in SecondsOfTheDay
    PROVE  n \in Nat /\ n < 86400
BY SMT DEF SecondsOfTheDay

(* A time of day, to the second. *)
LEMMA TimeOfDay ==
    ASSUME NEW n \in Nat, n < 86400
    PROVE  zeitInSekunden(sekundenInZeitformat(n)) = n
<1> DEFINE h == n \div 3600
           r == n % 3600
           m == r \div 60
           s == SecondOf(r)
<1>1. h \in Nat /\ r \in Nat /\ n = 3600 * h + r
  BY Hours
<1>2. sekundenInZeitformat(n) = <<h, m, SecondOf(n)>>
  BY WithinADay
<1>3. m \in Nat /\ s \in Nat /\ r = 60 * m + s
  <2> HIDE DEF r
  <2>1. QED
    BY <1>1, Minutes DEF SecondOf
<1> HIDE DEF h, r, m, s
<1>4. SecondOf(n) = s
  BY <1>1, Seconds DEF s
<1>5. zeitInSekunden(<<h, m, s>>) = n
  BY <1>1, <1>3, Recomposed
<1>6. QED
  BY <1>2, <1>4, <1>5

-----------------------------------------------------------------------------
(* The invariant *)

(* What was wanted is understood as such, but for a battery without a name. *)
LEMMA ObeyedIsAgreed ==
    ASSUME TypeOK, Obeyed
    PROVE  \/ Wanted(kind, output) = Understood(kind, said)
           \/ Nameless
<1> PICK v \in Wanted(kind, output) : said \in Said(kind, v)
  BY DEF Obeyed
<1>1. CASE kind = "bool"
  BY <1>1 DEF Wanted, Said, Understood
<1>2. CASE kind = "time"
  BY <1>2 DEF Wanted, Said, Understood
<1>3. CASE kind = "battery"
  <2>1. v = output /\ Wanted(kind, output) = {output} /\ output \in Int
    BY <1>3 DEF Wanted, TypeOK
  <2>2. CASE Names(ExtBatterySetup, output) # {}
    BY <1>3, <2>1, <2>2, BatteryUnderstood
  <2>3. QED
    BY <1>3, <2>2 DEF Nameless
<1>4. CASE kind = "filter"
  <2>1. v = output /\ v \in {2, 4} /\ Wanted(kind, output) = {v}
    BY <1>4 DEF Wanted
  <2>2. QED
    BY <1>4, <2>1, FilterUnderstood
<1>5. QED
  BY <1>1, <1>2, <1>3, <1>4 DEF TypeOK, Kinds

LEMMA SettingInitHolds == SettingInit => IInv
BY NumbersAssumption DEF SettingInit, IInv, TypeOK, Fetched, AfterSet, AfterAll

LEMMA ChangeHolds ==
    ASSUME IInv, Operate \/ PiceaChanges
    PROVE  IInv'
BY NumbersAssumption DEF Operate, PiceaChanges, IInv, TypeOK, Fetched, AfterSet, AfterAll

LEMMA SetHolds ==
    ASSUME IInv, Set
    PROVE  IInv'
<1>1. /\ UNCHANGED <<kind, output, input, known>>
      /\ since' = IF since = "poll" THEN "set" ELSE since
      /\ \/ Agreed /\ said' = said
         \/ ~Agreed /\ \E v \in Wanted(kind, output) : said' \in Said(kind, v)
  BY DEF Set, Agreed
<1>2. TypeOK' /\ (Agreed <=> Agreed')
  BY <1>1 DEF IInv, TypeOK, Agreed
<1>3. CASE Agreed /\ said' = said
  <2>1. (Obeyed <=> Obeyed') /\ (Nameless <=> Nameless')
    BY <1>1, <1>3 DEF Obeyed, Nameless
  <2>2. Fetched' /\ AfterAll'
    BY <1>1, <1>2, <1>3, <2>1 DEF IInv, Fetched, AfterAll
  <2>3. AfterSet'
    BY <1>1, <1>2, <1>3, <2>1 DEF IInv, Fetched, AfterSet
  <2>4. QED
    BY <1>2, <2>2, <2>3 DEF IInv
<1>4. CASE ~Agreed /\ \E v \in Wanted(kind, output) : said' \in Said(kind, v)
  <2>1. Obeyed' /\ (Nameless <=> Nameless')
    BY <1>1, <1>4 DEF Obeyed, Nameless
  <2>2. AfterSet'
    BY <2>1 DEF AfterSet
  <2>3. AfterAll'
    BY <1>1, <1>2, <1>4, <2>1 DEF IInv, AfterAll
  <2>4. Fetched'
    <3> SUFFICES ASSUME since' \in {"poll", "settled"}
                 PROVE  /\ known' = Understood(kind', said')
                        /\ known' = {} \/ \E v \in known' : input' = Written(kind', v)
      BY DEF Fetched
    <3>1. since = "settled" /\ Nameless /\ Obeyed
      BY <1>1, <1>4 DEF IInv, AfterAll
    <3>2. said = "none" /\ said' = "none"
      BY <1>4, <3>1 DEF Nameless, Obeyed, Wanted, Said
    <3>3. QED
      BY <1>1, <3>1, <3>2 DEF IInv, Fetched
  <2>5. QED
    BY <1>2, <2>2, <2>3, <2>4 DEF IInv
<1>5. QED
  BY <1>1, <1>3, <1>4

(* Nothing is understood as two values. *)
LEMMA UnderstoodOnce ==
    ASSUME NEW k \in Kinds, NEW w, NEW v \in Understood(k, w)
    PROVE  Understood(k, w) = {v}
BY DEF Understood, Kinds

LEMMA PollHolds ==
    ASSUME IInv, Poll
    PROVE  IInv'
<1>1. /\ UNCHANGED <<kind, output, said>> /\ known' = Understood(kind, said)
      /\ known' = {} \/ \E v \in known' : input' = Written(kind, v)
      /\ since' = CASE since = "change" -> "poll" [] since = "set" -> "settled"
                    [] OTHER -> since
  BY DEF Poll
<1>2. TypeOK' /\ (Obeyed <=> Obeyed') /\ (Nameless <=> Nameless')
  BY <1>1 DEF IInv, TypeOK, Obeyed, Nameless
<1>3. Fetched'
  BY <1>1 DEF Fetched
<1>4. AfterSet'
  BY <1>1 DEF AfterSet
<1>5. AfterAll'
  <2>1. known = Understood(kind, said) /\ Agreed => Agreed'
    BY <1>1 DEF Agreed
  <2>2. Obeyed => Agreed' \/ Nameless
    BY <1>1, ObeyedIsAgreed DEF IInv, Agreed
  <2>3. since' = "settled" => since \in {"set", "settled"}
    BY <1>1
  <2>4. CASE since = "set"
    BY <1>2, <2>1, <2>2, <2>4 DEF IInv, AfterSet, AfterAll
  <2>5. CASE since = "settled"
    BY <1>2, <2>1, <2>5 DEF IInv, Fetched, AfterAll
  <2>6. QED
    BY <2>3, <2>4, <2>5 DEF AfterAll
<1>6. QED
  BY <1>2, <1>3, <1>4, <1>5 DEF IInv

(* The invariant RoundTrip of the settings, for any numbers an output may     *)
(* show: what CheckLoxoneValues, SendSettingsData, FetchData and              *)
(* HandleFetchedData make of a setting is the setting again.                  *)
THEOREM ComesBack == SettingSpec => []RoundTrip
<1>1. IInv => RoundTrip
  <2> DEFINE wanted == Wanted(kind, output)
  <2> SUFFICES ASSUME IInv, since = "settled", known # {}
               PROVE  /\ \/ wanted \in {known, {}}
                         \/ kind = "battery" /\ output \notin Meaningful(kind) /\ said = "none"
                      /\ output \in Meaningful(kind) => input = output
    BY DEF RoundTrip
  <2>1. /\ kind \in Kinds /\ output \in Int /\ known = Understood(kind, said)
        /\ wanted \in {{}, known} \/ (Nameless /\ Obeyed)
    BY DEF IInv, TypeOK, Fetched, AfterAll, Agreed
  <2>2. PICK v \in known : input = Written(kind, v) /\ known = {v}
    BY <2>1, UnderstoodOnce DEF IInv, Fetched
  <2>3. Nameless => kind = "battery" /\ output \notin Meaningful(kind)
    BY <2>1, BatteryNamed DEF Nameless, Meaningful
  <2>4. Nameless /\ Obeyed => said = "none"
    BY DEF Nameless, Obeyed, Wanted, Said
  <2>5. ASSUME output \in Meaningful(kind)  PROVE input = output
    <3>1. wanted \in {{}, {v}}
      BY <2>1, <2>2, <2>3, <2>5
    <3>2. CASE kind = "bool"
      <4>1. wanted = {output = 1} /\ output \in {0, 1}
        BY <2>5, <3>2 DEF Wanted, Meaningful
      <4>2. v = (output = 1)
        BY <3>1, <4>1
      <4>3. QED
        BY <2>2, <3>2, <4>1, <4>2 DEF Written
    <3>3. CASE kind = "battery"
      BY <2>2, <3>1, <3>3 DEF Wanted, Written
    <3>4. CASE kind = "filter"
      <4>1. output \in {2, 4}
        BY <2>5, <3>4 DEF Meaningful
      <4>2. wanted = {output} \cap {2, 4}
        BY <3>4 DEF Wanted
      <4>3. output \in wanted
        BY <4>1, <4>2
      <4>4. v = output
        BY <3>1, <4>3
      <4>5. QED
        BY <2>2, <3>4, <4>4 DEF Written
    <3>5. CASE kind = "time"
      <4>1. Meaningful(kind) = SecondsOfTheDay
        BY <3>5 DEF Meaningful
      <4>2. output \in SecondsOfTheDay
        BY <2>5, <4>1
      <4>3. output \in Nat /\ output < 86400
        BY <4>2, OfADay
      <4>4. wanted = {sekundenInZeitformat(output)}
        BY <3>5 DEF Wanted
      <4>5. v = sekundenInZeitformat(output)
        <5> HIDE DEF wanted
        <5>1. QED
          BY <3>1, <4>4, Zenon
      <4>6. input = zeitInSekunden(v)
        BY <2>2, <3>5 DEF Written
      <4>7. QED
        BY <4>3, <4>5, <4>6, TimeOfDay
    <3>6. QED
      BY <2>1, <3>2, <3>3, <3>4, <3>5 DEF Kinds
  <2>6. QED
    BY <2>1, <2>3, <2>4, <2>5
<1>2. IInv /\ [SettingNext]_settingVars => IInv'
  <2> SUFFICES ASSUME IInv, [SettingNext]_settingVars  PROVE IInv'
    OBVIOUS
  <2>1. CASE UNCHANGED settingVars
    <3>1. UNCHANGED <<kind, output, input, said, known, since>>
      BY <2>1 DEF settingVars
    <3>2. TypeOK' /\ Fetched'
      BY <3>1 DEF IInv, TypeOK, Fetched
    <3>3. AfterSet' /\ AfterAll'
      BY <3>1 DEF IInv, AfterSet, AfterAll, Agreed, Obeyed, Nameless
    <3>4. QED
      BY <3>2, <3>3 DEF IInv
  <2>2. QED
    BY <2>1, ChangeHolds, SetHolds, PollHolds DEF SettingNext
<1>3. QED
  BY <1>1, <1>2, SettingInitHolds, PTL DEF SettingSpec

-----------------------------------------------------------------------------
(* The restart time *)

Isdst == {0, 1}

(* A whole number of days. *)
WholeDays(t) == \E k \in Int : t = 24 * k

(* Midnight lies `left' hours ahead for a clock that has the tm_isdst d of   *)
(* the time when the cycle began.                                            *)
Ahead(d) == WholeDays(now + StandardOffset + d + left)

RestartInv ==
    /\ now \in 0..(Year - 1) /\ left \in 0..24 /\ changed \in BOOLEAN
    /\ \E d \in Isdst : Ahead(d) /\ (~changed => Dst(now) = d)

LEMMA YearIs == Year \in Nat /\ Year > 0 /\ Year = 24 * Days /\ Days \in Int
BY DaysAssumption, SMT DEF Year

LEMMA HoursOfADay == 1..24 \subseteq 0..24
OBVIOUS

LEMMA DstType == \A t : Dst(t) \in Isdst
BY DEF Dst, Isdst

(* The hour of a time that is h hours after a midnight. *)
LEMMA HoursAfter ==
    ASSUME NEW k \in Int, NEW h \in Int, -24 < h, h < 24
    PROVE  (24 * k + h) % 24 = IF h < 0 THEN h + 24 ELSE h
BY SMTT(30)

LEMMA HourBounds == \A x \in Int : x % 24 \in 0..23 /\ WholeDays(x - (x % 24))
<1> TAKE x \in Int
<1>1. x % 24 \in 0..23
  BY SMTT(30)
<1>2. x = 24 * (x \div 24) + (x % 24) /\ x \div 24 \in Int
  BY SMTT(30)
<1>3. x - (x % 24) = 24 * (x \div 24)
  BY <1>1, <1>2
<1>4. QED
  BY <1>1, <1>2, <1>3 DEF WholeDays

LEMMA WholeDaysAdd ==
    ASSUME NEW s \in Int, NEW t \in Int, WholeDays(s), WholeDays(t)
    PROVE  WholeDays(s + t) /\ WholeDays(s - t)
<1>1. PICK k \in Int : s = 24 * k
  BY DEF WholeDays
<1>2. PICK l \in Int : t = 24 * l
  BY DEF WholeDays
<1>3. s + t = 24 * (k + l) /\ s - t = 24 * (k - l) /\ k + l \in Int /\ k - l \in Int
  BY <1>1, <1>2, SMT
<1>4. QED
  BY <1>3 DEF WholeDays

(* The next hour, in the year that comes again. *)
LEMMA NextHour ==
    ASSUME NEW t \in 0..(Year - 1)
    PROVE  /\ (t + 1) % Year \in 0..(Year - 1)
           /\ (t + 1) % Year \in {t + 1, t + 1 - Year}
           /\ Dst((t + 1) % Year) = Dst(t + 1)
<1>1. t \in Int /\ 0 <= t /\ t <= Year - 1 /\ Year \in Nat /\ Year > 0
  BY YearIs
<1>2. \A n, y \in Nat : n < y => n % y = n
  BY SMTT(30)
<1>3. \A y \in Nat : y > 0 => y % y = 0
  BY SMTT(30)
<1>4. CASE t + 1 < Year
  <2>1. (t + 1) % Year = t + 1
    BY <1>1, <1>2, <1>4
  <2>2. QED
    BY <1>1, <1>4, <2>1
<1>5. CASE t + 1 = Year
  <2>1. (t + 1) % Year = 0 /\ 0 % Year = 0
    BY <1>1, <1>2, <1>3, <1>5
  <2>2. Dst((t + 1) % Year) = Dst(t + 1)
    BY <2>1 DEF Dst
  <2>3. QED
    BY <1>1, <1>5, <2>1, <2>2
<1>6. QED
  BY <1>1, <1>4, <1>5

(* A cycle begins before a midnight, as its tm_isdst has it. *)
LEMMA Beginning ==
    ASSUME NEW t \in Int
    PROVE  LET left0 == GetNextLocalMidnight(t) - t IN
           left0 \in 1..24 /\ WholeDays(t + StandardOffset + Dst(t) + left0)
<1> DEFINE x == t + StandardOffset + Dst(t)
           h == x % 24
<1>1. Dst(t) \in Int /\ StandardOffset \in Int
  BY DstType, OffsetAssumption DEF Isdst
<1>2. x \in Int
  BY <1>1
<1>3. h \in 0..23 /\ WholeDays(x - h)
  BY <1>2, HourBounds
<1>4. GetNextLocalMidnight(t) = (x - h + 24) - StandardOffset - Dst(t)
  <2>1. localtime(t) = x /\ Hour(t) = h
    BY DEF localtime, Hour
  <2> HIDE DEF x, h
  <2>2. QED
    BY <2>1 DEF GetNextLocalMidnight, mktime
<1> HIDE DEF h
<1>5. GetNextLocalMidnight(t) - t = 24 - h
  BY <1>1, <1>2, <1>3, <1>4
<1>6. WholeDays(24)
  <2>1. 24 = 24 * 1
    OBVIOUS
  <2>2. QED
    BY <2>1 DEF WholeDays
<1>7. x - h \in Int /\ x + (24 - h) = (x - h) + 24 /\ 24 - h \in 1..24
  <2> HIDE DEF x
  <2>1. QED
    BY <1>2, <1>3
<1>8. WholeDays(x + (24 - h))
  <2> HIDE DEF x
  <2>1. QED
    BY <1>3, <1>6, <1>7, WholeDaysAdd
<1>9. QED
  BY <1>5, <1>7, <1>8

LEMMA Begins ==
    ASSUME RestartInv, Begin(now), UNCHANGED now
    PROVE  RestartInv'
<1>1. now \in Int
  BY YearIs DEF RestartInv
<1>2. left' = GetNextLocalMidnight(now) - now /\ changed' = FALSE /\ now' = now
  BY DEF Begin
<1>3. left' \in 1..24 /\ WholeDays(now + StandardOffset + Dst(now) + left')
  BY <1>1, <1>2, Beginning
<1>4. Dst(now') = Dst(now) /\ Dst(now) \in Isdst
  BY <1>2, DstType
<1>5. WholeDays(now' + StandardOffset + Dst(now) + left')
  BY <1>2, <1>3
<1>6. left' \in 0..24 /\ changed' \in BOOLEAN
  BY <1>2, <1>3, HoursOfADay
<1>7. now' \in 0..(Year - 1)
  BY <1>2 DEF RestartInv
<1>8. \E d \in Isdst : Ahead(d)' /\ (~changed' => Dst(now)' = d)
  BY <1>4, <1>5 DEF Ahead
<1>9. QED
  BY <1>6, <1>7, <1>8 DEF RestartInv, Year

LEMMA WaitHolds ==
    ASSUME RestartInv, Wait
    PROVE  RestartInv'
<1> PICK d \in Isdst : Ahead(d) /\ (~changed => Dst(now) = d)
  BY DEF RestartInv
<1>1. /\ now \in 0..(Year - 1) /\ now \in Int /\ Year \in Int
      /\ left \in 1..24 /\ left' = left - 1 /\ left' \in 0..24
      /\ d \in Int /\ StandardOffset \in Int
  BY YearIs, OffsetAssumption DEF RestartInv, Wait, Isdst
<1>2. /\ now' = (now + 1) % Year
      /\ now' \in 0..(Year - 1) /\ now' \in {now + 1, now + 1 - Year}
      /\ Dst(now') = Dst(now + 1)
  BY <1>1, NextHour DEF Wait
<1>3. changed' \in BOOLEAN /\ (~changed' => ~changed /\ Dst(now) = Dst(now + 1))
  BY DEF Wait, RestartInv
<1>4. Ahead(d)'
  <2> DEFINE s == now + StandardOffset + d + left
  <2>1. s \in Int /\ WholeDays(s)
    BY <1>1 DEF Ahead
  <2>2. WholeDays(Year)
    BY YearIs DEF WholeDays
  <2>3. WholeDays(s - Year)
    BY <1>1, <2>1, <2>2, WholeDaysAdd
  <2>4. now' + StandardOffset + d + left' \in {s, s - Year}
    BY <1>1, <1>2
  <2>5. WholeDays(now' + StandardOffset + d + left')
    BY <2>1, <2>3, <2>4
  <2>6. QED
    BY <2>5 DEF Ahead
<1>5. ~changed' => Dst(now)' = d
  BY <1>2, <1>3
<1>6. QED
  BY <1>1, <1>2, <1>3, <1>4, <1>5 DEF RestartInv, Year

(* A cycle ends at midnight, or an hour off after a change of the clocks,    *)
(* in every time zone and with the clocks changed at any hours.              *)
THEOREM AlwaysRestartsDaily == RestartSpec => []RestartsDaily
<1>1. RestartInit => RestartInv
  <2> SUFFICES ASSUME RestartInit  PROVE RestartInv
    OBVIOUS
  <2>1. now \in Int /\ now \in 0..(Year - 1)
    BY YearIs DEF RestartInit
  <2>2. left \in 1..24 /\ WholeDays(now + StandardOffset + Dst(now) + left)
    BY <2>1, Beginning DEF RestartInit
  <2>3. Dst(now) \in Isdst
    BY DstType
  <2>4. left \in 0..24 /\ changed \in BOOLEAN
    BY <2>2, HoursOfADay DEF RestartInit
  <2>5. QED
    BY <2>1, <2>2, <2>3, <2>4 DEF RestartInv, Ahead
<1>2. RestartInv /\ [RestartNext]_restartVars => RestartInv'
  <2> SUFFICES ASSUME RestartInv, [RestartNext]_restartVars  PROVE RestartInv'
    OBVIOUS
  <2>1. CASE Wait
    BY <2>1, WaitHolds
  <2>2. CASE Midnight \/ PollerEnded
    BY <2>2, Begins DEF Midnight, PollerEnded
  <2>3. CASE UNCHANGED restartVars
    BY <2>3 DEF restartVars, RestartInv, Ahead
  <2>4. QED
    BY <2>1, <2>2, <2>3 DEF RestartNext
<1>3. RestartInv => RestartsDaily
  <2> SUFFICES ASSUME RestartInv  PROVE RestartsDaily
    OBVIOUS
  <2>1. now \in Int /\ left \in 0..24 /\ StandardOffset \in Int /\ Dst(now) \in Isdst
    BY YearIs, OffsetAssumption, DstType DEF RestartInv
  <2>2. GetNextLocalMidnight(now) > now
    <3>1. GetNextLocalMidnight(now) - now \in 1..24
      BY <2>1, Beginning
    <3>2. GetNextLocalMidnight(now) \in Int
      BY <2>1, HourBounds DEF GetNextLocalMidnight, mktime, localtime, Hour, Isdst
    <3>3. QED
      BY <2>1, <3>1, <3>2
  <2>3. ASSUME left = 0  PROVE Hour(now) \in (IF changed THEN {23, 0, 1} ELSE {0})
    <3> PICK d \in Isdst : Ahead(d) /\ (~changed => Dst(now) = d)
      BY DEF RestartInv
    <3> PICK k \in Int : now + StandardOffset + d + left = 24 * k
      BY DEF Ahead, WholeDays
    <3> DEFINE e == Dst(now) - d
    <3>1. e \in {-1, 0, 1} /\ (~changed => e = 0)
      BY <2>1 DEF Isdst
    <3>2. localtime(now) = 24 * k + e
      BY <2>1, <2>3 DEF localtime, Isdst
    <3> HIDE DEF e
    <3>3. (24 * k + e) % 24 = IF e < 0 THEN e + 24 ELSE e
      BY <3>1, HoursAfter
    <3>4. Hour(now) = IF e < 0 THEN e + 24 ELSE e
      BY <3>2, <3>3 DEF Hour
    <3>5. QED
      BY <3>1, <3>4
  <2>4. QED
    BY <2>1, <2>2, <2>3 DEF RestartsDaily
<1>4. QED
  BY <1>1, <1>2, <1>3, PTL DEF RestartSpec

=============================================================================

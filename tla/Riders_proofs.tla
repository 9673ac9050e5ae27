--------------------------- MODULE Riders_proofs ----------------------------
(***************************************************************************)
(* What a rider is told, for every value of the constants: the rental      *)
(* networks, a kerb's rules, a route's hours, and what a plan says.        *)
(***************************************************************************)
EXTENDS GbfsNetwork, RiderQuestions, JourneyPlan, FiniteSetTheorems, SequenceTheorems, WellFoundedInduction, TLAPS

-----------------------------------------------------------------------------
(***************************************************************************)
(* The rental networks. Types that are fresh describe what was due when    *)
(* they were read.                                                         *)
(***************************************************************************)

GbfsTyped ==
    /\ at \in 0 .. 4 /\ spoiled \in BOOLEAN
    /\ published \in [types : SUBSET Types, stock : SUBSET Types]
    /\ memory \in [types : SUBSET Types, stock : (SUBSET Types) \cup {Unloaded}]

TypesDescribed == dueThen \subseteq due /\ due \subseteq published.types
\* Types that are fresh are no older than when they were last due; a refresh
\* past them has them fresh; so they were when the status was last read.
TypesBeside ==
    ~spoiled => /\ "vehicle_types" \in fresh => due \subseteq memory.types
                /\ at >= 3 => "vehicle_types" \in fresh
                /\ dueThen \subseteq memory.types
GbfsInv == GbfsTyped /\ TypesDescribed /\ TypesBeside

LEMMA FilesInOrder ==
    /\ Len(Files) = 4
    /\ Files[1] = "gbfs" /\ Files[2] = "vehicle_types"
    /\ Files[3] = "station_information" /\ Files[4] = "station_status"
  BY DEF Files

LEMMA StepAdvances == ASSUME GbfsTyped, at > 0, Step(at + 1)
                      PROVE  at' \in 0 .. 4 /\ (at' >= 3 => at' = at + 1 /\ at >= 2)
  BY FilesInOrder DEF Step, GbfsTyped

LEMMA FileOfStep == ASSUME GbfsTyped, at > 0
                    PROVE  /\ File = "vehicle_types" <=> at = 2
                           /\ File = "station_status" <=> at = 4
  <1>1. at \in {1, 2, 3, 4} BY DEF GbfsTyped
  <1> QED BY <1>1, FilesInOrder DEF File

LEMMA GbfsFirst == GbfsInit => GbfsInv
  <1> SUFFICES ASSUME GbfsInit PROVE GbfsInv OBVIOUS
  <1>1. published.types = {} /\ due = {} /\ dueThen = {} /\ fresh = {} /\ at = 0 BY DEF GbfsInit
  <1>2. TypesDescribed /\ TypesBeside BY <1>1 DEF TypesDescribed, TypesBeside
  <1>3. published \in [types : SUBSET Types, stock : SUBSET Types] BY DEF GbfsInit
  <1>4. memory \in [types : SUBSET Types, stock : (SUBSET Types) \cup {Unloaded}] BY DEF GbfsInit
  <1>5. at \in 0 .. 4 BY <1>1
  <1>6. spoiled \in BOOLEAN BY Zenon DEF GbfsInit
  <1> QED BY <1>2, <1>3, <1>4, <1>5, <1>6 DEF GbfsInv, GbfsTyped

LEMMA RefreshKeeps == ASSUME GbfsInv, Refresh PROVE GbfsInv'
  BY DEF GbfsInv, Refresh, GbfsTyped, TypesDescribed, TypesBeside

LEMMA SkipKeeps == ASSUME GbfsInv, Skip PROVE GbfsInv'
  <1> USE DEF GbfsInv
  <1>1. UNCHANGED <<published, memory, fresh, due, dueThen, spoiled>> /\ at > 0 /\ File \in fresh BY DEF Skip
  <1>2. at' \in 0 .. 4 /\ (at' >= 3 => at' = at + 1 /\ at >= 2) BY StepAdvances, <1>1 DEF Skip
  <1>3. File = "vehicle_types" <=> at = 2 BY <1>1, FileOfStep
  <1>4. GbfsTyped' /\ TypesDescribed' BY <1>1, <1>2 DEF GbfsTyped, TypesDescribed
  <1>5. TypesBeside' BY <1>1, <1>2, <1>3 DEF GbfsTyped, TypesBeside
  <1> QED BY <1>4, <1>5

LEMMA LoadKeeps == ASSUME GbfsInv, Load PROVE GbfsInv'
  <1> USE DEF GbfsInv
  <1>1. UNCHANGED <<published, due>> /\ at > 0 /\ fresh' = fresh \cup {File} BY DEF Load
  <1>2. at' \in 0 .. 4 /\ (at' >= 3 => at' = at + 1 /\ at >= 2) BY StepAdvances, <1>1 DEF Load
  <1>3. (File = "vehicle_types" <=> at = 2) /\ (File = "station_status" <=> at = 4) BY <1>1, FileOfStep
  <1>4. dueThen' = (IF File = "station_status" THEN due ELSE dueThen)
        /\ spoiled' = (spoiled /\ File # "vehicle_types")
    BY DEF Load
  <1>5. /\ memory' \in [types : SUBSET Types, stock : (SUBSET Types) \cup {Unloaded}]
        /\ memory'.types = IF File = "vehicle_types" THEN published.types ELSE memory.types
    BY DEF Load, Held, GbfsTyped
  <1>6. GbfsTyped' BY <1>1, <1>2, <1>4, <1>5 DEF GbfsTyped
  <1>7. TypesDescribed' BY <1>1, <1>4 DEF TypesDescribed
  <1>8. TypesBeside'
    <2>1. CASE File = "vehicle_types" BY <1>1, <1>2, <1>3, <1>4, <1>5, <2>1 DEF TypesBeside, TypesDescribed
    <2>2. CASE File # "vehicle_types"
      <3>1. spoiled' = spoiled /\ memory'.types = memory.types BY <1>4, <1>5, <2>2 DEF GbfsTyped
      <3>2. at' >= 3 => at >= 3 BY <1>2, <1>3, <2>2 DEF GbfsTyped
      <3> QED BY <1>1, <1>3, <1>4, <2>2, <3>1, <3>2 DEF TypesBeside, GbfsTyped
    <2> QED BY <2>1, <2>2
  <1> QED BY <1>6, <1>7, <1>8

LEMMA BrokenKeeps == ASSUME GbfsInv, NEW marked \in BOOLEAN, Broken(marked) PROVE GbfsInv'
  BY DEF GbfsInv, Broken, Fail, GbfsTyped, TypesDescribed, TypesBeside

LEMMA EmptyKeeps == ASSUME GbfsInv, Empty PROVE GbfsInv'
  <1> USE DEF GbfsInv
  <1>1. /\ UNCHANGED <<published, memory, due, dueThen>> /\ at > 0 /\ fresh' = fresh \cup {File}
        /\ spoiled' = (spoiled \/ File = "vehicle_types")
    BY DEF Empty
  <1>2. at' \in 0 .. 4 /\ (at' >= 3 => at' = at + 1 /\ at >= 2) BY StepAdvances, <1>1 DEF Empty
  <1>3. File = "vehicle_types" <=> at = 2 BY <1>1, FileOfStep
  <1>4. GbfsTyped' /\ TypesDescribed' BY <1>1, <1>2 DEF GbfsTyped, TypesDescribed
  <1>5. TypesBeside'
    <2>1. CASE File = "vehicle_types" BY <1>1, <2>1 DEF TypesBeside
    <2>2. CASE File # "vehicle_types"
      <3>1. at' >= 3 => at >= 3 BY <1>2, <1>3, <2>2 DEF GbfsTyped
      <3>2. spoiled' = spoiled BY <1>1, <2>2 DEF GbfsTyped
      <3> QED BY <1>1, <2>2, <3>1, <3>2 DEF TypesBeside
    <2> QED BY <2>1, <2>2
  <1> QED BY <1>4, <1>5

LEMMA AgesKeeps == ASSUME GbfsInv, NEW f, Ages(f) PROVE GbfsInv'
  BY DEF GbfsInv, Ages, GbfsTyped, TypesDescribed, TypesBeside

LEMMA PublishKeeps == ASSUME GbfsInv, NEW t \in SUBSET Types, NEW s \in SUBSET Types, Publish(t, s) PROVE GbfsInv'
  BY DEF GbfsInv, Publish, GbfsTyped, TypesDescribed, TypesBeside

LEMMA FeedBreaksKeeps == ASSUME GbfsInv, FeedBreaks PROVE GbfsInv'
  BY DEF GbfsInv, FeedBreaks, GbfsTyped, TypesDescribed, TypesBeside

\* Whatever a refresh finds fresh, missing or broken at each of its files, and
\* whatever is published meanwhile (gbfs.py:163), planners are told that there
\* is no bicycle only if the status shows none of a type that was described
\* when the types were last due.
THEOREM ModesAreHonest == GbfsSpec => []ModeHonest
  <1>1. ASSUME GbfsInv, [GbfsNext]_gbfs PROVE GbfsInv'
    <2>1. CASE UNCHANGED gbfs
      BY <1>1, <2>1 DEF gbfs, GbfsInv, GbfsTyped, TypesDescribed, TypesBeside
    <2>2. CASE GbfsNext
      BY <1>1, <2>2, RefreshKeeps, SkipKeeps, LoadKeeps, BrokenKeeps, EmptyKeeps, AgesKeeps, PublishKeeps,
         FeedBreaksKeeps DEF GbfsNext
    <2> QED BY <1>1, <2>1, <2>2
  <1>2. GbfsInv => ModeHonest BY DEF GbfsInv, TypesBeside, ModeHonest, ModeAvailable
  <1> QED BY GbfsFirst, <1>1, <1>2, PTL DEF GbfsSpec


-----------------------------------------------------------------------------
(***************************************************************************)
(* The riders' questions: the least of a set of numbers, and division.     *)
(***************************************************************************)
Below == OpToRel(<, Nat)
LEMMA BelowIs == \A m, n \in Nat : m < n <=> <<m, n>> \in Below
  BY Zenon DEF Below, OpToRel

LEMMA MinOfNats ==
    ASSUME NEW S \in SUBSET Nat, S # {}
    PROVE  Min(S) \in S /\ \A n \in S : Min(S) <= n
  <1>1. IsWellFoundedOn(Below, Nat) BY NatLessThanWellFounded, Zenon DEF Below
  <1>2. \E m \in S : \A n \in S : ~(<<n, m>> \in Below)
    BY <1>1, WFMin
  <1>3. PICK m \in S : \A n \in S : ~(<<n, m>> \in Below) BY <1>2
  <1>4. ASSUME NEW n \in S PROVE m <= n
    <2>1. m \in Nat /\ n \in Nat OBVIOUS
    <2>2. ~(n < m) BY <1>3, <2>1, BelowIs
    <2> QED BY <2>1, <2>2
  <1> QED BY <1>4 DEF Min

LEMMA Induction ==
    ASSUME NEW S, 0 \in S, \A n \in Nat : n \in S => n + 1 \in S
    PROVE  Nat \subseteq S
  <1> SUFFICES ASSUME Nat \ S # {} PROVE FALSE OBVIOUS
  <1>1. Min(Nat \ S) \in Nat \ S /\ \A n \in Nat \ S : Min(Nat \ S) <= n BY MinOfNats
  <1>2. PICK m \in Nat \ S : \A n \in Nat \ S : m <= n BY <1>1
  <1>3. m - 1 \in Nat /\ m - 1 \in S BY <1>2
  <1> QED BY <1>2, <1>3

LEMMA Parts ==
    ASSUME NEW n \in Int, NEW d \in Nat \ {0}
    PROVE  /\ n \div d \in Int /\ n % d \in Int /\ 0 <= n % d /\ n % d < d
           /\ n = d * (n \div d) + (n % d)
  OBVIOUS

LEMMA PartsUnique ==
    ASSUME NEW d \in Nat \ {0}, NEW a \in Int, NEW b \in Int, NEW k \in 0 .. d - 1, NEW m \in 0 .. d - 1,
           d * a + k = d * b + m
    PROVE  a = b /\ k = m
  <1>1. ASSUME NEW x \in Int, NEW y \in Int, x < y PROVE d * x + d <= d * y
    <2>1. PICK z \in Nat : y = x + 1 + z BY <1>1, y - x - 1 \in Nat
    <2>2. d * y = d * x + d + d * z BY <2>1
    <2>3. d * z >= 0 OBVIOUS
    <2> QED BY <2>2, <2>3
  <1>2. ~(a < b) 
    <2>1. SUFFICES ASSUME a < b PROVE FALSE OBVIOUS
    <2>2. d * a + d <= d * b BY <2>1, <1>1
    <2>3. d * a \in Int /\ d * b \in Int OBVIOUS
    <2> QED BY <2>2, <2>3
  <1>3. ~(b < a) 
    <2>1. SUFFICES ASSUME b < a PROVE FALSE OBVIOUS
    <2>2. d * b + d <= d * a BY <2>1, <1>1
    <2>3. d * a \in Int /\ d * b \in Int OBVIOUS
    <2> QED BY <2>2, <2>3
  <1>4. a = b BY <1>2, <1>3
  <1> QED BY <1>4

LEMMA DivisionOf ==
    ASSUME NEW d \in Nat \ {0}, NEW a \in Int, NEW k \in 0 .. d - 1
    PROVE  (d * a + k) \div d = a /\ (d * a + k) % d = k
  <1> DEFINE n == d * a + k
  <1>1. n \in Int OBVIOUS
  <1>2. n \div d \in Int /\ n % d \in 0 .. d - 1 /\ d * a + k = d * (n \div d) + (n % d) BY <1>1, Parts
  <1> HIDE DEF n
  <1>3. a = n \div d /\ k = n % d BY <1>2, PartsUnique
  <1> QED BY <1>3 DEF n

-----------------------------------------------------------------------------
(***************************************************************************)
(* Kerbs. Between two instants at which a span may flip nothing does, so   *)
(* the first of them at which something has is the first at all.           *)
(***************************************************************************)
LEMMA ClockParts ==
    ASSUME NEW t \in Nat
    PROVE  /\ Day(t) \in Nat /\ TimeOf(t) \in 0 .. DayTicks - 1
           /\ DayTicks * Day(t) \in Nat /\ t = DayTicks * Day(t) + TimeOf(t)
  <1>1. DayTicks \in Nat \ {0} BY CurbAssumption
  <1>2. /\ t \div DayTicks \in Int /\ t % DayTicks \in 0 .. DayTicks - 1
        /\ t = DayTicks * (t \div DayTicks) + (t % DayTicks)
    BY <1>1, Parts
  <1>3. t \div DayTicks \in Nat
    <2> SUFFICES ASSUME t \div DayTicks < 0 PROVE FALSE BY <1>2
    <2>1. PICK n \in Nat : t \div DayTicks = -1 - n BY <1>2, -1 - (t \div DayTicks) \in Nat
    <2>2. DayTicks * (-1 - n) = -DayTicks - DayTicks * n /\ DayTicks * n \in Nat BY <1>1
    <2> QED BY <1>1, <1>2, <2>1, <2>2
  <1>4. DayTicks * (t \div DayTicks) \in Nat BY <1>1, <1>3
  <1> QED BY <1>2, <1>3, <1>4 DEF Day, TimeOf

LEMMA DaysGrow ==
    ASSUME NEW t \in Nat, NEW u \in Nat, NEW w \in Nat
    PROVE  /\ t <= u => Day(t) <= Day(u)
           /\ u <= (Day(t) + w + 1) * DayTicks - 1 => Day(u) <= Day(t) + w
  <1>1. DayTicks \in Nat \ {0} BY CurbAssumption
  <1> DEFINE a == Day(t)
             b == Day(u)
  <1>2. /\ a \in Nat /\ b \in Nat /\ DayTicks * a \in Nat /\ DayTicks * b \in Nat
        /\ t >= DayTicks * a /\ t <= DayTicks * a + DayTicks - 1
        /\ u >= DayTicks * b /\ u <= DayTicks * b + DayTicks - 1
    <2>1. ASSUME NEW n \in Nat
          PROVE  /\ Day(n) \in Nat /\ DayTicks * Day(n) \in Nat
                 /\ n >= DayTicks * Day(n) /\ n <= DayTicks * Day(n) + DayTicks - 1
      <3>1. /\ Day(n) \in Nat /\ TimeOf(n) \in 0 .. DayTicks - 1 /\ DayTicks * Day(n) \in Nat
            /\ n = DayTicks * Day(n) + TimeOf(n)
        BY ClockParts
      <3>2. PICK m \in 0 .. DayTicks - 1, k \in Nat : k = DayTicks * Day(n) /\ n = k + m BY <3>1
      <3> QED BY <1>1, <3>1, <3>2
    <2> QED BY <2>1
  <1> HIDE DEF a, b
  <1>3. ASSUME NEW x \in Nat, NEW y \in Nat, x < y PROVE DayTicks * x + DayTicks <= DayTicks * y
    <2>1. PICK z \in Nat : y = x + 1 + z BY <1>3, y - x - 1 \in Nat
    <2>2. DayTicks * y = DayTicks * x + DayTicks + DayTicks * z BY <1>1, <2>1
    <2>3. DayTicks * z >= 0 /\ DayTicks * x \in Nat /\ DayTicks * z \in Nat BY <1>1
    <2> QED BY <1>1, <2>2, <2>3
  <1>4. t <= u => a <= b
    <2> SUFFICES ASSUME t <= u, b < a PROVE FALSE BY <1>2
    <2>1. DayTicks * b + DayTicks <= DayTicks * a BY <1>2, <1>3
    <2> QED BY <1>1, <1>2, <2>1
  <1>5. u <= (a + w + 1) * DayTicks - 1 => b <= a + w
    <2> SUFFICES ASSUME u <= (a + w + 1) * DayTicks - 1, a + w < b PROVE FALSE BY <1>2
    <2>1. a + w + 1 \in Nat /\ (a + w + 1) * DayTicks = DayTicks * (a + w) + DayTicks BY <1>1, <1>2
    <2>2. DayTicks * (a + w) + DayTicks <= DayTicks * b /\ DayTicks * (a + w) \in Nat BY <1>1, <1>2, <1>3
    <2> QED BY <1>1, <1>2, <2>1, <2>2
  <1> QED BY <1>4, <1>5 DEF a, b

\* Within a day and between edges.
LEMMA OneTickBack ==
    ASSUME NEW u \in Nat, TimeOf(u) # 0
    PROVE  u - 1 \in Nat /\ Day(u - 1) = Day(u) /\ TimeOf(u - 1) = TimeOf(u) - 1
  <1>1. DayTicks \in Nat \ {0} BY CurbAssumption
  <1>2. /\ Day(u) \in Nat /\ TimeOf(u) - 1 \in 0 .. DayTicks - 1
        /\ DayTicks * Day(u) \in Nat /\ u - 1 = DayTicks * Day(u) + (TimeOf(u) - 1)
    <2>1. /\ Day(u) \in Nat /\ TimeOf(u) \in 0 .. DayTicks - 1 /\ DayTicks * Day(u) \in Nat
          /\ u = DayTicks * Day(u) + TimeOf(u)
      BY ClockParts
    <2>2. PICK m \in 0 .. DayTicks - 1, k \in Nat : m = TimeOf(u) /\ k = DayTicks * Day(u) BY <2>1
    <2>3. m - 1 \in 0 .. DayTicks - 1 /\ u - 1 = k + (m - 1) BY <1>1, <2>1, <2>2
    <2> QED BY <2>1, <2>2, <2>3
  <1>3. u - 1 \in Nat BY <1>1, <1>2
  <1>4. (u - 1) \div DayTicks = Day(u) /\ (u - 1) % DayTicks = TimeOf(u) - 1
    <2>1. PICK m \in 0 .. DayTicks - 1, k \in Int : m = TimeOf(u) - 1 /\ k = Day(u) BY <1>2
    <2>2. (DayTicks * k + m) \div DayTicks = k /\ (DayTicks * k + m) % DayTicks = m BY <1>1, DivisionOf
    <2> QED BY <1>2, <2>1, <2>2
  <1> QED BY <1>3, <1>4 DEF Day, TimeOf

LEMMA SteadySpan ==
    ASSUME NEW spans, SoundHours(spans), ByMidnights(spans), NEW s \in spans,
           NEW u \in Nat, TimeOf(u) \notin Edges(spans)
    PROVE  TimeSpanActive(s, u) = TimeSpanActive(s, u - 1)
  <1>1. DayTicks \in Nat \ {0} BY CurbAssumption
  <1>2. TimeOf(u) \in 0 .. DayTicks - 1 BY ClockParts
  <1>3. TimeOf(u) # 0 /\ TimeOf(u) # s.from /\ TimeOf(u) # s.to
    BY <1>1, <1>2 DEF Edges, NoTime
  <1>4. Day(u - 1) = Day(u) /\ TimeOf(u - 1) = TimeOf(u) - 1 /\ u - 1 \in Nat BY <1>3, OneTickBack
  <1>5. (s.starts # NoTime => u >= s.starts) = (s.starts # NoTime => u - 1 >= s.starts)
    <2> SUFFICES ASSUME s.starts # NoTime, u >= s.starts, ~(u - 1 >= s.starts) PROVE FALSE
      BY <1>4 DEF SoundHours, NoTime
    <2>1. s.starts \in Nat BY DEF SoundHours
    <2>2. u = s.starts BY <2>1, <1>4
    <2>3. s.starts % DayTicks = 0 BY DEF ByMidnights
    <2> QED BY <1>3, <2>2, <2>3 DEF TimeOf
  <1>6. (s.ends # NoTime => u < s.ends) = (s.ends # NoTime => u - 1 < s.ends)
    <2> SUFFICES ASSUME s.ends # NoTime, ~(u < s.ends), u - 1 < s.ends PROVE FALSE
      BY <1>4 DEF SoundHours, NoTime
    <2>1. s.ends \in Nat BY DEF SoundHours
    <2>2. u = s.ends BY <2>1, <1>4
    <2>3. s.ends % DayTicks = 0 BY DEF ByMidnights
    <2> QED BY <1>3, <2>2, <2>3 DEF TimeOf
  <1>7. DuringDay(s, TimeOf(u)) = DuringDay(s, TimeOf(u - 1))
    <2>1. s.from \in {NoTime} \cup 0 .. DayTicks /\ s.to \in {NoTime} \cup 0 .. DayTicks
      BY DEF SoundHours
    <2>2. PICK m \in 0 .. DayTicks - 1 : m = TimeOf(u) BY <1>2
    <2>3. TimeOf(u - 1) = m - 1 /\ m # 0 /\ m # s.from /\ m # s.to BY <1>3, <1>4, <2>2
    <2>4. DuringDay(s, m) = DuringDay(s, m - 1)
      BY <1>1, <2>1, <2>3 DEF DuringDay, NoTime
    <2> QED BY <2>2, <2>3, <2>4
  <1> QED BY <1>4, <1>5, <1>6, <1>7 DEF TimeSpanActive

LEMMA FlipsAtEdges ==
    ASSUME NEW spans, SoundHours(spans), ByMidnights(spans), NEW t \in Nat, NEW u \in Nat,
           t < u, u <= LastMidnight(t) - 1, SpansActive(spans, u) # SpansActive(spans, u - 1)
    PROVE  u \in Boundaries(spans, t)
  <1>1. TimeOf(u) \in Edges(spans)
    <2> SUFFICES ASSUME TimeOf(u) \notin Edges(spans) PROVE FALSE OBVIOUS
    <2>1. \A s \in spans : TimeSpanActive(s, u) = TimeSpanActive(s, u - 1) BY SteadySpan
    <2> QED BY <2>1 DEF SpansActive
  <1>2. Week \in Nat /\ DayTicks \in Nat BY CurbAssumption
  <1>3. Day(u) \in Nat /\ Day(t) \in Nat /\ Day(t) <= Day(u) /\ Day(u) <= Day(t) + Week
    BY <1>2, ClockParts, DaysGrow DEF LastMidnight
  <1>4. u = Day(u) * DayTicks + TimeOf(u)
    <2>1. u = DayTicks * Day(u) + TimeOf(u) BY ClockParts
    <2>2. DayTicks * Day(u) = Day(u) * DayTicks BY <1>2, <1>3
    <2> QED BY <2>1, <2>2
  <1>5. Day(u) \in Horizon(t) BY <1>2, <1>3 DEF Horizon
  <1> QED BY <1>1, <1>4, <1>5 DEF Boundaries

LEMMA BoundariesAhead ==
    ASSUME NEW spans, SoundHours(spans), NEW t \in Nat, NEW u \in Boundaries(spans, t)
    PROVE  u \in t + 1 .. LastMidnight(t)
  <1>1. Week \in Nat /\ DayTicks \in Nat \ {0} /\ Day(t) \in Nat BY CurbAssumption, ClockParts
  <1>2. PICK d \in Horizon(t), e \in Edges(spans) : u = d * DayTicks + e BY DEF Boundaries
  <1>3. e \in 0 .. DayTicks BY <1>1 DEF Edges, SoundHours, NoTime
  <1>4. d \in Nat /\ d <= Day(t) + Week BY <1>1 DEF Horizon
  <1>5. PICK z \in Nat : Day(t) + Week = d + z BY <1>1, <1>4, Day(t) + Week - d \in Nat
  <1>6. LastMidnight(t) = d * DayTicks + z * DayTicks + DayTicks
    <2>1. Day(t) + Week + 1 = d + z + 1 BY <1>1, <1>4, <1>5
    <2>2. (d + z + 1) * DayTicks = d * DayTicks + z * DayTicks + DayTicks BY <1>1, <1>4
    <2> QED BY <2>1, <2>2 DEF LastMidnight
  <1>7. z * DayTicks \in Nat /\ d * DayTicks \in Nat BY <1>1, <1>4
  <1>8. u > t BY DEF Boundaries
  <1> QED BY <1>1, <1>2, <1>3, <1>6, <1>7, <1>8

\* "The exact moment" (openmobility.py:187): a span whose dates begin and end at midnight
\* flips for the first time within the week at its next change; any other has
\* flipped by then.
THEOREM NextChangeIsExact ==
    ASSUME NEW spans, SoundHours(spans), NEW t \in Nat
    PROVE  ChangeExact(spans, t)
  <1> DEFINE ahead == t + 1 .. LastMidnight(t) - 1
             flips == {u \in ahead : SpansActive(spans, u) # SpansActive(spans, t)}
             seen  == {u \in Boundaries(spans, t) : SpansActive(spans, u) # SpansActive(spans, t)}
  <1>0. LastMidnight(t) \in Nat
    <2>1. Week \in Nat /\ DayTicks \in Nat /\ Day(t) \in Nat BY CurbAssumption, ClockParts
    <2> QED BY <2>1 DEF LastMidnight
  <1>1. ahead \subseteq Nat BY <1>0
  <1>2. seen \subseteq flips \cup {LastMidnight(t)}
    <2> SUFFICES ASSUME NEW u \in seen, u # LastMidnight(t) PROVE u \in flips OBVIOUS
    <2>1. u \in t + 1 .. LastMidnight(t) BY BoundariesAhead
    <2>2. u \in ahead BY <1>0, <2>1
    <2> QED BY <2>2
  <1>3. NextChange(spans, t) = IF seen = {} THEN NoTime ELSE Min(seen) BY DEF NextChange
  <1>4. FirstFlip(spans, t) = IF flips = {} THEN NoTime ELSE Min(flips) BY DEF FirstFlip
  <1>5. flips \in SUBSET Nat /\ seen \in SUBSET Nat BY <1>0, <1>1, <1>2
  <1>6. ASSUME flips # {}, ByMidnights(spans) PROVE Min(flips) \in seen
    <2>1. PICK u \in flips : u = Min(flips) /\ \A v \in flips : u <= v BY <1>5, <1>6, MinOfNats
    <2>2. u \in Nat /\ t + 1 <= u /\ u <= LastMidnight(t) - 1 BY <1>1
    <2>3. SpansActive(spans, u - 1) = SpansActive(spans, t)
      <3>1. CASE u - 1 = t BY <3>1
      <3>2. CASE u - 1 # t
        <4>1. u - 1 \in ahead BY <1>0, <2>2, <3>2
        <4>2. u - 1 \notin flips BY <2>1, <2>2
        <4> QED BY <4>1, <4>2
      <3> QED BY <3>1, <3>2
    <2>4. SpansActive(spans, u) # SpansActive(spans, u - 1) BY <2>3
    <2>5. u \in Boundaries(spans, t) BY <1>6, <2>2, <2>4, FlipsAtEdges
    <2> QED BY <2>1, <2>5
  <1>7. \A u \in flips : u < LastMidnight(t) BY <1>0
  <1> HIDE DEF ahead, flips, seen
  <1>8. ASSUME ByMidnights(spans), flips # {} PROVE NextChange(spans, t) = FirstFlip(spans, t)
    <2>1. PICK u \in flips : u = Min(flips) /\ u \in seen BY <1>5, <1>6, <1>8, MinOfNats
    <2>2. PICK v \in seen : v = Min(seen) /\ v <= u BY <1>5, <2>1, MinOfNats
    <2>3. v \in flips BY <1>0, <1>2, <1>5, <1>7, <2>1, <2>2
    <2>4. u <= v BY <1>5, <2>1, <2>3, MinOfNats
    <2>5. u = v BY <1>5, <2>1, <2>2, <2>4
    <2> QED BY <1>3, <1>4, <1>8, <2>1, <2>2, <2>5
  <1>9. ASSUME flips = {}
        PROVE  FirstFlip(spans, t) = NoTime /\ NextChange(spans, t) \in {NoTime, LastMidnight(t)}
    <2>1. seen \subseteq {LastMidnight(t)} BY <1>2, <1>9
    <2>2. seen # {} => Min(seen) \in seen BY <1>5, MinOfNats
    <2> QED BY <1>3, <1>4, <1>9, <2>1, <2>2
  <1>10. ASSUME NextChange(spans, t) # NoTime
        PROVE  /\ SpansActive(spans, NextChange(spans, t)) # SpansActive(spans, t)
               /\ FirstFlip(spans, t) <= NextChange(spans, t)
    <2>1. seen # {} /\ NextChange(spans, t) = Min(seen) BY <1>3, <1>10
    <2>2. NextChange(spans, t) \in seen BY <1>5, <2>1, MinOfNats
    <2>3. FirstFlip(spans, t) <= NextChange(spans, t)
      <3>1. CASE flips = {}
        <4>1. NextChange(spans, t) \in Nat BY <1>5, <2>2
        <4> QED BY <1>4, <3>1, <4>1 DEF NoTime
      <3>2. CASE flips # {}
        <4>1. PICK u \in flips : u = Min(flips) /\ \A v \in flips : u <= v BY <1>5, <3>2, MinOfNats
        <4>2. PICK v \in seen : v = NextChange(spans, t) BY <2>2
        <4>3. u <= v BY <1>0, <1>2, <1>5, <1>7, <4>1, <4>2
        <4> QED BY <1>4, <3>2, <4>1, <4>2, <4>3
      <3> QED BY <3>1, <3>2
    <2> QED BY <2>2, <2>3 DEF seen
  <1> QED BY <1>8, <1>9, <1>10 DEF ChangeExact

\* Until the kerb's own next change (openmobility.py:403) each policy that decides, and
\* where none is active each of the zone's, is as it was: the rider is told of no
\* instant that is too late.
THEOREM KerbStaysUntilItsChange ==
    ASSUME NEW active, NEW zone, NEW t \in Nat,
           \A p \in active \cup zone : SoundHours(p.spans) /\ ByMidnights(p.spans),
           NEW p \in IF active = {} THEN zone ELSE active,
           NEW u \in Meanwhile(t, SoonestChange(active, zone, t))
    PROVE  SpansActive(p.spans, u) = SpansActive(p.spans, t)
  <1> DEFINE deciding == IF active = {} THEN zone ELSE active
             changes == {NextChange(r.spans, t) : r \in deciding} \ {NoTime}
             last == LastMidnight(t)
             flips == {v \in t + 1 .. last - 1 : SpansActive(p.spans, v) # SpansActive(p.spans, t)}
             soonest == SoonestChange(active, zone, t)
  <1>1. \A r \in deciding : SoundHours(r.spans) /\ ByMidnights(r.spans) OBVIOUS
  <1>2. soonest = IF changes = {} THEN NoTime ELSE Min(changes) BY DEF SoonestChange
  <1>3. \A r \in deciding : NextChange(r.spans, t) # NoTime => NextChange(r.spans, t) \in t + 1 .. last
    <2> SUFFICES ASSUME NEW r \in deciding, NextChange(r.spans, t) # NoTime
                 PROVE  NextChange(r.spans, t) \in t + 1 .. last
      OBVIOUS
    <2> DEFINE seen == {v \in Boundaries(r.spans, t) : SpansActive(r.spans, v) # SpansActive(r.spans, t)}
    <2>1. seen # {} /\ NextChange(r.spans, t) = Min(seen) BY DEF NextChange
    <2>2. \A v \in seen : v \in t + 1 .. last BY <1>1, BoundariesAhead
    <2>3. seen \in SUBSET Nat BY <2>2
    <2> HIDE DEF seen
    <2> QED BY <2>1, <2>2, <2>3, MinOfNats
  <1>4. /\ Week \in Nat /\ DayTicks \in Nat \ {0} /\ Day(t) \in Nat
        /\ (Day(t) + Week) * DayTicks \in Nat /\ last = (Day(t) + Week) * DayTicks + DayTicks
    <2>1. Week \in Nat /\ DayTicks \in Nat \ {0} /\ Day(t) \in Nat BY CurbAssumption, ClockParts
    <2>2. PICK d \in Nat : d = Day(t) + Week BY <2>1
    <2>3. (d + 1) * DayTicks = d * DayTicks + DayTicks /\ d * DayTicks \in Nat BY <2>1
    <2> QED BY <2>1, <2>2, <2>3 DEF LastMidnight
  <1>5. flips # {} => NextChange(p.spans, t) = Min(flips)
    <2> SUFFICES ASSUME flips # {} PROVE NextChange(p.spans, t) = Min(flips) OBVIOUS
    <2>1. flips \in SUBSET Nat BY <1>4
    <2>2. FirstFlip(p.spans, t) = Min(flips) BY DEF FirstFlip
    <2>3. Min(flips) \in Nat BY <2>1, MinOfNats
    <2>4. FirstFlip(p.spans, t) # NoTime BY <2>2, <2>3 DEF NoTime
    <2> QED BY <1>1, <2>2, <2>4, NextChangeIsExact DEF ChangeExact
  <1>6. changes \in SUBSET Nat BY <1>3
  <1>7. changes # {} => Min(changes) \in changes /\ \A n \in changes : Min(changes) <= n
    <2> HIDE DEF changes
    <2> QED BY <1>6, MinOfNats
  <1>8. u \in Nat /\ t <= u /\ u <= last - 1 /\ (soonest # NoTime => u < soonest)
    <2>1. CASE soonest = NoTime BY <1>4, <2>1 DEF Meanwhile
    <2>2. CASE soonest # NoTime
      <3>1. soonest \in changes
        <4> HIDE DEF changes, soonest
        <4> QED BY <1>2, <1>7, <2>2
      <3>2. soonest \in t + 1 .. last BY <1>3, <3>1
      <3>3. PICK m \in t + 1 .. last : m = soonest BY <3>2
      <3> QED BY <1>4, <2>2, <3>3 DEF Meanwhile
    <2> QED BY <2>1, <2>2
  <1>9. u \notin flips
    <2> SUFFICES ASSUME u \in flips PROVE FALSE OBVIOUS
    <2>1. flips \in SUBSET Nat BY <1>4
    <2>2. NextChange(p.spans, t) = Min(flips) /\ Min(flips) \in flips /\ Min(flips) <= u BY <1>5, <2>1, MinOfNats
    <2>3. NextChange(p.spans, t) \in changes
      <3>1. NextChange(p.spans, t) \in Nat BY <2>1, <2>2
      <3>2. NextChange(p.spans, t) # NoTime BY <3>1 DEF NoTime
      <3> QED BY <3>2
    <2>4. soonest # NoTime /\ soonest <= NextChange(p.spans, t)
      <3>1. soonest = Min(changes) /\ soonest \in changes /\ soonest <= NextChange(p.spans, t)
        <4> HIDE DEF changes, soonest
        <4> QED BY <1>2, <1>7, <2>3
      <3>2. soonest \in Nat BY <1>6, <3>1
      <3> QED BY <3>1, <3>2 DEF NoTime
    <2>5. soonest \in Nat /\ NextChange(p.spans, t) \in Nat 
      <3> HIDE DEF changes, soonest
      <3> QED BY <1>2, <1>6, <1>7, <2>3
    <2> QED BY <1>8, <2>2, <2>4, <2>5
  <1>10. u = t \/ u \in t + 1 .. last - 1 BY <1>4, <1>8
  <1> QED BY <1>9, <1>10

-----------------------------------------------------------------------------
(***************************************************************************)
(* Service windows: a window is of a trip, which ends no earlier than it   *)
(* begins, and one asks at a time of the day.                              *)
(***************************************************************************)
\* What runs at an instant: a run of yesterday's, of today's or of tomorrow's.
LEMMA RunsAtIs ==
    ASSUME NEW q, TimetableSound(q), NEW t \in Nat
    PROVE  RunsAt(q, t) <=>
              \/ \E w \in WindowsOn(q.index, q.day - 1) : w.first <= t + DayLength /\ t + DayLength <= w.last /\ w.last # DayLength
              \/ \E w \in WindowsOn(q.index, q.day) : w.first <= t /\ t <= w.last
              \/ \E w \in WindowsOn(q.index, q.day + 1) : DayLength + w.first <= t /\ t <= DayLength + w.last
  <1>1. DayLength \in Nat \ {0} BY BoardsAssumption
  <1>2. q.day \in Int BY DEF TimetableSound
  <1>3. \A d : \A w \in WindowsOn(q.index, d) : w.first \in Nat /\ w.last \in Nat
    BY DEF WindowsOn, TimetableSound
  <1> DEFINE InWindow(d, w) == LET from == (d - q.day) * DayLength + w.first
                               till == (d - q.day) * DayLength + w.last
                           IN  from <= t /\ t <= till /\ (till = 0 => d = q.day)
  <1>4. RunsAt(q, t) <=> \/ \E w \in WindowsOn(q.index, q.day - 1) : InWindow(q.day - 1, w)
                         \/ \E w \in WindowsOn(q.index, q.day) : InWindow(q.day, w)
                         \/ \E w \in WindowsOn(q.index, q.day + 1) : InWindow(q.day + 1, w)
    BY DEF RunsAt
  <1>5. ASSUME NEW w \in WindowsOn(q.index, q.day - 1)
        PROVE  InWindow(q.day - 1, w) <=> w.first <= t + DayLength /\ t + DayLength <= w.last /\ w.last # DayLength
    <2>1. (q.day - 1) - q.day = -1 /\ (-1) * DayLength = -DayLength BY <1>1, <1>2
    <2>2. w.first \in Nat /\ w.last \in Nat BY <1>3
    <2> QED BY <1>1, <1>2, <2>1, <2>2
  <1>6. ASSUME NEW w \in WindowsOn(q.index, q.day)
        PROVE  InWindow(q.day, w) <=> w.first <= t /\ t <= w.last
    <2>1. q.day - q.day = 0 /\ 0 * DayLength = 0 BY <1>1, <1>2
    <2>2. w.first \in Nat /\ w.last \in Nat BY <1>3
    <2> QED BY <2>1, <2>2
  <1>7. ASSUME NEW w \in WindowsOn(q.index, q.day + 1)
        PROVE  InWindow(q.day + 1, w) <=> DayLength + w.first <= t /\ t <= DayLength + w.last
    <2>1. (q.day + 1) - q.day = 1 /\ 1 * DayLength = DayLength BY <1>1, <1>2
    <2>2. w.first \in Nat /\ w.last \in Nat BY <1>3
    <2> QED BY <1>1, <1>2, <2>1, <2>2
  <1> HIDE DEF InWindow
  <1> QED BY <1>4, <1>5, <1>6, <1>7

\* The next run: the first of today's later ones, or else of tomorrow's.
LEMMA NextRun ==
    ASSUME NEW q, TimetableSound(q), ~WindowAnswer(q).active
    PROVE  LET next == WindowAnswer(q).nextStart
               later == {w \in WindowsOn(q.index, q.day) : w.first > q.time}
           IN  \/ \E w \in later : next = w.first /\ \A v \in later : next <= v.first
               \/ /\ later = {} /\ next = None /\ WindowsOn(q.index, q.day + 1) = {}
               \/ /\ later = {}
                  /\ \E w \in WindowsOn(q.index, q.day + 1) : next = w.first + DayLength
                  /\ \A v \in WindowsOn(q.index, q.day + 1) : next <= v.first + DayLength
  <1> DEFINE next == WindowAnswer(q).nextStart
             later == {w \in WindowsOn(q.index, q.day) : w.first > q.time}
             laters == {w.first : w \in later}
             nexts == {w.first + DayLength : w \in WindowsOn(q.index, q.day + 1)}
  <1>1. next = IF laters # {} THEN Min(laters) ELSE IF nexts = {} THEN None ELSE Min(nexts)
    BY DEF WindowAnswer, WindowFor, Least
  <1>2. laters \in SUBSET Nat /\ nexts \in SUBSET Nat
    <2>1. DayLength \in Nat BY BoardsAssumption
    <2> QED BY <2>1 DEF WindowsOn, TimetableSound
  <1>3. CASE later # {}
    <2>1. laters # {} BY <1>3
    <2>2. next \in laters /\ \A n \in laters : next <= n
      <3> HIDE DEF laters, next
      <3> QED BY <1>1, <1>2, <2>1, MinOfNats
    <2> QED BY <2>2
  <1>4. CASE later = {} /\ WindowsOn(q.index, q.day + 1) = {} BY <1>1, <1>4
  <1>5. CASE later = {} /\ WindowsOn(q.index, q.day + 1) # {}
    <2>1. laters = {} /\ nexts # {} BY <1>5
    <2>2. next \in nexts /\ \A n \in nexts : next <= n
      <3> HIDE DEF laters, nexts, next
      <3> QED BY <1>1, <1>2, <2>1, MinOfNats
    <2> QED BY <1>5, <2>2
  <1> QED BY <1>3, <1>4, <1>5

LEMMA WindowAnswerHonest ==
    ASSUME NEW q, TimetableSound(q)
    PROVE  LET a == WindowAnswer(q)
           IN  /\ ~a.active =>
                     /\ ~RunsAt(q, q.time)
                     /\ a.nextStart # None => RunsAt(q, a.nextStart)
                     /\ \/ StartsPastMidnight(q, a.nextStart)
                        \/ \A t \in q.time .. (IF a.nextStart = None THEN 2 * DayLength ELSE a.nextStart) - 1 : ~RunsAt(q, t)
               /\ a.active => RunsAt(q, q.time) \/ YetToBegin(q)
  <1> DEFINE a == WindowAnswer(q)
             next == a.nextStart
             later == {w \in WindowsOn(q.index, q.day) : w.first > q.time}
  <1>1. DayLength \in Nat \ {0} /\ q.time \in Nat /\ q.time < DayLength /\ q.day \in Int
    BY BoardsAssumption DEF TimetableSound
  <1>2. \A d : \A w \in WindowsOn(q.index, d) : w.first \in Nat /\ w.last \in Nat /\ w.first <= w.last
    BY DEF WindowsOn, TimetableSound
  <1>3. a.active = Active(q.index, q.day, q.time) BY DEF WindowAnswer, WindowFor
  <1>4. ASSUME a.active PROVE RunsAt(q, q.time) \/ YetToBegin(q)
    <2>1. CASE \E w \in WindowsOn(q.index, q.day) : w.first <= q.time /\ q.time <= w.last
      BY <1>1, <2>1, RunsAtIs
    <2>2. CASE \E w \in WindowsOn(q.index, q.day - 1) : w.last > DayLength /\ q.time + DayLength <= w.last
      <3>1. PICK w \in WindowsOn(q.index, q.day - 1) : w.last > DayLength /\ q.time + DayLength <= w.last BY <2>2
      <3>2. w.first \in Nat /\ w.last \in Nat BY <1>2
      <3>3. CASE w.first > q.time + DayLength BY <3>3 DEF YetToBegin
      <3>4. CASE w.first <= q.time + DayLength
        <4>1. w.last # DayLength BY <1>1, <3>1, <3>2
        <4> QED BY <1>1, <3>1, <3>4, <4>1, RunsAtIs
      <3> QED BY <1>1, <3>2, <3>3, <3>4
    <2> QED BY <1>3, <1>4, <2>1, <2>2 DEF Active
  <1>5. ASSUME ~a.active, NEW t \in Nat, q.time <= t, RunsAt(q, t)
        PROVE  \/ \E w \in later : w.first <= t
               \/ \E w \in WindowsOn(q.index, q.day + 1) : w.first + DayLength <= t
    <2>1. CASE \E w \in WindowsOn(q.index, q.day - 1) : w.first <= t + DayLength /\ t + DayLength <= w.last /\ w.last # DayLength
      <3>1. PICK w \in WindowsOn(q.index, q.day - 1) : w.first <= t + DayLength /\ t + DayLength <= w.last /\ w.last # DayLength
        BY <2>1
      <3>2. w.last \in Nat BY <1>2
      <3>3. w.last > DayLength /\ q.time + DayLength <= w.last BY <1>1, <1>5, <3>1, <3>2
      <3> QED BY <1>3, <1>5, <3>3 DEF Active
    <2>2. CASE \E w \in WindowsOn(q.index, q.day) : w.first <= t /\ t <= w.last
      <3>1. PICK w \in WindowsOn(q.index, q.day) : w.first <= t /\ t <= w.last BY <2>2
      <3>2. w.first \in Nat /\ w.last \in Nat BY <1>2
      <3>3. ~(w.first <= q.time)
        <4> SUFFICES ASSUME w.first <= q.time PROVE FALSE OBVIOUS
        <4>1. q.time <= w.last BY <1>1, <1>5, <3>1, <3>2
        <4> QED BY <1>3, <1>5, <4>1 DEF Active
      <3>4. w \in later BY <1>1, <3>2, <3>3
      <3> QED BY <3>1, <3>4
    <2>3. CASE \E w \in WindowsOn(q.index, q.day + 1) : DayLength + w.first <= t /\ t <= DayLength + w.last
      <3>1. PICK w \in WindowsOn(q.index, q.day + 1) : DayLength + w.first <= t BY <2>3
      <3>2. w.first + DayLength <= t BY <1>1, <1>2, <3>1
      <3> QED BY <3>2
    <2> QED BY <1>5, <2>1, <2>2, <2>3, RunsAtIs
  <1>6. ASSUME ~a.active PROVE ~RunsAt(q, q.time)
    <2> SUFFICES ASSUME RunsAt(q, q.time) PROVE FALSE OBVIOUS
    <2>1. ~\E w \in later : w.first <= q.time BY <1>1, <1>2
    <2>2. ~\E w \in WindowsOn(q.index, q.day + 1) : w.first + DayLength <= q.time BY <1>1, <1>2
    <2> QED BY <1>1, <1>5, <1>6, <2>1, <2>2
  <1>7. ASSUME ~a.active, next # None PROVE RunsAt(q, next)
    <2>1. CASE \E w \in later : next = w.first
      <3>1. PICK w \in WindowsOn(q.index, q.day) : next = w.first BY <2>1
      <3>2. w.first \in Nat /\ w.first <= w.last BY <1>2
      <3>3. \E v \in WindowsOn(q.index, q.day) : v.first <= next /\ next <= v.last BY <3>1, <3>2
      <3> HIDE DEF next, a
      <3>4. next \in Nat BY <3>1, <3>2
      <3> QED BY <3>3, <3>4, RunsAtIs
    <2>2. CASE \E w \in WindowsOn(q.index, q.day + 1) : next = w.first + DayLength
      <3>1. PICK w \in WindowsOn(q.index, q.day + 1) : next = w.first + DayLength BY <2>2
      <3>2. w.first \in Nat /\ w.last \in Nat /\ w.first <= w.last BY <1>2
      <3>3. DayLength + w.first <= next /\ next <= DayLength + w.last /\ next \in Nat BY <1>1, <3>1, <3>2
      <3> HIDE DEF next, a
      <3> QED BY <3>3, RunsAtIs
    <2> QED BY <1>7, <2>1, <2>2, NextRun
  <1>8. ASSUME ~a.active
        PROVE  \/ StartsPastMidnight(q, next)
               \/ \A t \in q.time .. (IF next = None THEN 2 * DayLength ELSE next) - 1 : ~RunsAt(q, t)
    <2> SUFFICES ASSUME ~StartsPastMidnight(q, next),
                        NEW t \in q.time .. (IF next = None THEN 2 * DayLength ELSE next) - 1, RunsAt(q, t)
                 PROVE  FALSE
      OBVIOUS
    <2>1. CASE \E w \in later : next = w.first /\ \A v \in later : next <= v.first
      <3>1. PICK w \in WindowsOn(q.index, q.day) : next = w.first /\ \A v \in later : next <= v.first BY <2>1
      <3>2. PICK n \in Nat : n = next BY <1>2, <3>1
      <3>3. n < DayLength
        <4>1. ~(n >= DayLength) BY <3>1, <3>2 DEF StartsPastMidnight
        <4> QED BY <1>1, <4>1
      <3>4. t \in Nat /\ q.time <= t /\ t < n BY <1>1, <3>2 DEF None
      <3>5. \A v \in later : v.first \in Nat /\ n <= v.first BY <1>2, <3>1, <3>2
      <3>6. ~\E v \in later : v.first <= t BY <3>4, <3>5
      <3>7. \A v \in WindowsOn(q.index, q.day + 1) : v.first \in Nat BY <1>2
      <3>8. ~\E v \in WindowsOn(q.index, q.day + 1) : v.first + DayLength <= t BY <1>1, <3>3, <3>4, <3>7
      <3> QED BY <1>5, <1>8, <3>4, <3>6, <3>8
    <2>2. CASE later = {} /\ next = None /\ WindowsOn(q.index, q.day + 1) = {}
      <3>1. t \in Nat /\ q.time <= t BY <1>1, <2>2
      <3> QED BY <1>5, <1>8, <2>2, <3>1
    <2>3. CASE /\ later = {}
               /\ \E w \in WindowsOn(q.index, q.day + 1) : next = w.first + DayLength
               /\ \A v \in WindowsOn(q.index, q.day + 1) : next <= v.first + DayLength
      <3>1. PICK n \in Nat : n = next BY <1>1, <1>2, <2>3
      <3>2. t \in Nat /\ q.time <= t /\ t < n BY <1>1, <3>1 DEF None
      <3>3. \A v \in WindowsOn(q.index, q.day + 1) : v.first \in Nat /\ n <= v.first + DayLength BY <1>2, <2>3, <3>1
      <3>4. ~\E v \in WindowsOn(q.index, q.day + 1) : v.first + DayLength <= t BY <1>1, <3>2, <3>3
      <3> QED BY <1>5, <1>8, <2>3, <3>2, <3>4
    <2> QED BY <1>8, <2>1, <2>2, <2>3, NextRun
  <1> QED BY <1>4, <1>6, <1>7, <1>8

-----------------------------------------------------------------------------
(***************************************************************************)
(* A question is answered as its kind is.                                  *)
(***************************************************************************)
AnsweredInv ==
    /\ Is("window") => question \in WindowQuestions /\ response = WindowAnswer(question)
    /\ Is("kerb") => question \in KerbQuestions /\ response = KerbAnswer(question)

\* The other handlers answer questions of their own kinds, and cache nothing.
LEMMA OtherQuestions ==
    ASSUME QuestionsNext, ~AskFare, ~AskKerb, ~AskWindow, ~AskForecast
    PROVE  question'.kind \notin {"window", "kerb", "forecast", "fare"} /\ UNCHANGED forecasts
  <1> DEFINE others == BoardQuestions \cup BusQuestions \cup WatchQuestions \cup SegmentQuestions
                         \cup ListQuestions \cup ShapeQuestions \cup TimetableQuestions
  <1>1. AskBoard => question' \in others /\ UNCHANGED forecasts BY DEF AskBoard, Answering
  <1>2. AskBus => question' \in others /\ UNCHANGED forecasts BY DEF AskBus, Answering
  <1>3. AskWatch => question' \in others /\ UNCHANGED forecasts BY DEF AskWatch, Answering
  <1>4. AskSegment => question' \in others /\ UNCHANGED forecasts BY DEF AskSegment, Answering
  <1>5. AskList \/ AskShapes => question' \in others /\ UNCHANGED forecasts BY DEF AskList, AskShapes, Answering
  <1>6. AskTimetable => question' \in others /\ UNCHANGED forecasts BY DEF AskTimetable, Answering
  <1>7. question' \in others => question'.kind \notin {"window", "kerb", "forecast", "fare"}
    BY QuestionsAssumption DEF KindsApart
  <1> HIDE DEF others
  <1> QED BY <1>1, <1>2, <1>3, <1>4, <1>5, <1>6, <1>7 DEF QuestionsNext

\* The kinds of the questions the invariants are about.
LEMMA AskedKinds ==
    /\ AskFare => question' \in FareQuestions /\ question'.kind = "fare" /\ UNCHANGED forecasts
    /\ AskWindow => question' \in WindowQuestions /\ question'.kind = "window" /\ UNCHANGED forecasts
    /\ AskKerb => question' \in KerbQuestions /\ question'.kind = "kerb" /\ UNCHANGED forecasts
    /\ AskForecast => question' \in ForecastQuestions /\ question'.kind = "forecast"
  <1>1. AskFare => question' \in FareQuestions /\ UNCHANGED forecasts BY DEF AskFare, Answering
  <1>2. AskWindow => question' \in WindowQuestions /\ UNCHANGED forecasts BY DEF AskWindow, Answering
  <1>3. AskKerb => question' \in KerbQuestions /\ UNCHANGED forecasts BY DEF AskKerb, Answering
  <1>4. AskForecast => question' \in ForecastQuestions BY DEF AskForecast
  <1> QED BY <1>1, <1>2, <1>3, <1>4, QuestionsAssumption DEF KindsApart, FareSound

LEMMA AnswersFirst == QuestionsInit => AnsweredInv
  BY DEF QuestionsInit, Silence, AnsweredInv, Is

LEMMA AnswersNext == ASSUME AnsweredInv, [QuestionsNext]_questions PROVE AnsweredInv'
  <1>1. CASE UNCHANGED questions BY <1>1 DEF questions, AnsweredInv, Is
  <1>2. CASE AskWindow BY <1>2, AskedKinds DEF AskWindow, Answering, AnsweredInv, Is
  <1>3. CASE AskKerb BY <1>3, AskedKinds DEF AskKerb, Answering, AnsweredInv, Is
  <1>4. ASSUME question'.kind \notin {"window", "kerb"} PROVE AnsweredInv' BY <1>4 DEF AnsweredInv, Is
  <1> QED BY <1>1, <1>2, <1>3, <1>4, AskedKinds, OtherQuestions

\* features.py:215: whatever the timetable and the instant, what is said of a route's
\* window is what its runs say.
THEOREM WindowsAreHonest == QuestionsSpec => []WindowHonest
  <1>1. AnsweredInv => WindowHonest
    <2> SUFFICES ASSUME AnsweredInv, Is("window") PROVE WindowHonest BY DEF WindowHonest
    <2>1. TimetableSound(question) /\ response = WindowAnswer(question) BY QuestionsAssumption DEF AnsweredInv
    <2> QED BY <2>1, WindowAnswerHonest DEF WindowHonest
  <1> QED BY AnswersFirst, AnswersNext, <1>1, PTL DEF QuestionsSpec

\* openmobility.py:187, 403: whatever the policies of a kerb, whoever asks and when, the
\* next change is exact where dates begin and end at midnight, nothing that decides
\* changes before it, and the price is of the policy that decides.
THEOREM KerbsAreHonest == QuestionsSpec => []KerbHonest
  <1>1. ASSUME AnsweredInv, Is("kerb") PROVE KerbHonest
    <2> DEFINE q == question
               active == ActivePolicies(q.zone, q.class, q.now)
               soonest == SoonestChange(active, q.zone, q.now)
    <2>1. /\ q.now \in Nat /\ \A p \in q.zone : SoundHours(p.spans)
          /\ response = KerbAnswer(q)
      BY <1>1, QuestionsAssumption DEF AnsweredInv
    <2>2. /\ response.curb.ev.nextChange = soonest
          /\ response.curb.ev.allowed = PickUpAllowed(active, q.class)
          /\ response.curb.ev.winner = IF active = {} THEN {} ELSE {Winner(active).id}
          /\ response.curb.price = WinningPrice(q.zone, q.class, q.now)
          /\ response.zones = ZonesPublic(q.mds, q.geographies, q.now)
      BY <2>1 DEF KerbAnswer, CurbPublic, EvaluateZone
    <2> HIDE DEF q
    <2>3. \A p \in q.zone : ChangeExact(p.spans, q.now)
      BY <2>1, NextChangeIsExact
    <2>4. ASSUME \A p \in q.zone : ByMidnights(p.spans), NEW u \in Meanwhile(q.now, soonest)
          PROVE  /\ PickUpAllowed(active, q.class) = "unknown" => ActivePolicies(q.zone, q.class, u) = {}
                 /\ active \subseteq ActivePolicies(q.zone, q.class, u)
      <3>1. active \subseteq q.zone BY DEF ActivePolicies
      <3>2. \A p \in IF active = {} THEN q.zone ELSE active : SpansActive(p.spans, u) = SpansActive(p.spans, q.now)
        <4> HIDE DEF active
        <4> QED BY <2>1, <2>4, <3>1, KerbStaysUntilItsChange
      <3>3. PickUpAllowed(active, q.class) = "unknown" => active = {} BY DEF PickUpAllowed
      <3> QED BY <3>2, <3>3 DEF ActivePolicies
    <2>5. ASSUME q.class # Anyone PROVE response.curb.price = response.curb.ev.winner
      <3>1. active = {p \in q.zone : SpansActive(p.spans, q.now) /\ RulesFor(p, q.class) # {}}
        BY <2>5 DEF ActivePolicies
      <3> QED BY <2>2, <3>1 DEF WinningPrice
    <2>6. \A z \in response.zones : z.shapes # {} /\ z.shapes \subseteq {g.id : g \in q.geographies}
      <3> SUFFICES ASSUME NEW z \in response.zones
                   PROVE  z.shapes # {} /\ z.shapes \subseteq {g.id : g \in q.geographies}
        OBVIOUS
      <3>1. z \in ZonesPublic(q.mds, q.geographies, q.now) BY <2>2
      <3>2. PICK p \in q.mds : \E r \in p.rules : Shapes(r, q.geographies) # {} /\ z = Zone(p, r, q.geographies, q.now)
        BY <3>1 DEF ZonesPublic
      <3>3. PICK r \in p.rules : Shapes(r, q.geographies) # {} /\ z = Zone(p, r, q.geographies, q.now)
        BY <3>2
      <3>4. z.shapes = Shapes(r, q.geographies) BY <3>3 DEF Zone
      <3>5. Shapes(r, q.geographies) \subseteq {g.id : g \in q.geographies} BY DEF Shapes
      <3> QED BY <3>3, <3>4, <3>5
    <2> QED BY <2>2, <2>3, <2>4, <2>5, <2>6 DEF KerbHonest, q
  <1>2. AnsweredInv => KerbHonest BY <1>1 DEF KerbHonest
  <1> QED BY AnswersFirst, AnswersNext, <1>2, PTL DEF QuestionsSpec

-----------------------------------------------------------------------------
(***************************************************************************)
(* The lists of the handlers.  A loop that carries a value of T from one   *)
(* element to the next is a function; what it returns, for each of them.   *)
(***************************************************************************)
LEMMA IsList ==
    ASSUME NEW T, NEW n \in Nat, NEW f \in [1 .. n -> T]
    PROVE  f \in Seq(T) /\ Len(f) = n
  BY SeqDef

IsLoop(f, base, g, n) == f = [i \in 0 .. n |-> IF i = 0 THEN base ELSE g[i][f[i - 1]]]
LEMMA LoopExists ==
    ASSUME NEW T, NEW base \in T, NEW n \in Nat, NEW g \in [1 .. n -> [T -> T]]
    PROVE  \E f \in [0 .. n -> T] : IsLoop(f, base, g, n)
  <1> DEFINE S == {m \in Nat : m <= n =>
                      \E f \in [0 .. m -> T] : \A i \in 0 .. m : f[i] = IF i = 0 THEN base ELSE g[i][f[i - 1]]}
  <1>1. 0 \in S
    <2> DEFINE f == [i \in 0 .. 0 |-> base]
    <2>1. f \in [0 .. 0 -> T] /\ \A i \in 0 .. 0 : i = 0 /\ f[i] = base OBVIOUS
    <2> HIDE DEF f
    <2>2. \A i \in 0 .. 0 : f[i] = IF i = 0 THEN base ELSE g[i][f[i - 1]] BY <2>1
    <2> QED BY <2>1, <2>2
  <1>2. ASSUME NEW m \in Nat, m \in S PROVE m + 1 \in S
    <2> SUFFICES ASSUME m + 1 <= n
                 PROVE  \E f \in [0 .. m + 1 -> T] :
                          \A i \in 0 .. m + 1 : f[i] = IF i = 0 THEN base ELSE g[i][f[i - 1]]
      OBVIOUS
    <2>1. PICK f \in [0 .. m -> T] : \A i \in 0 .. m : f[i] = IF i = 0 THEN base ELSE g[i][f[i - 1]]
      BY <1>2
    <2>2. m \in 0 .. m /\ m + 1 \in 1 .. n OBVIOUS
    <2>3. f[m] \in T /\ g[m + 1] \in [T -> T] BY <2>2
    <2>4. g[m + 1][f[m]] \in T BY <2>3
    <2> DEFINE h == [i \in 0 .. m + 1 |-> IF i = m + 1 THEN g[m + 1][f[m]] ELSE f[i]]
    <2>5. h \in [0 .. m + 1 -> T] BY <2>4
    <2>6. ASSUME NEW i \in 0 .. m + 1 PROVE h[i] = IF i = 0 THEN base ELSE g[i][h[i - 1]]
      <3>1. CASE i = 0 BY <2>1, <3>1
      <3>2. CASE i = m + 1
        <4>1. h[i] = g[m + 1][f[m]] /\ h[i - 1] = f[m] /\ i # 0 BY <3>2
        <4> HIDE DEF h
        <4> QED BY <3>2, <4>1
      <3>3. CASE i # 0 /\ i # m + 1
        <4>1. i \in 0 .. m /\ i - 1 \in 0 .. m /\ i - 1 # m + 1 BY <3>3
        <4>2. h[i] = f[i] /\ h[i - 1] = f[i - 1] BY <3>3, <4>1
        <4> HIDE DEF h
        <4> QED BY <2>1, <3>3, <4>1, <4>2
      <3> QED BY <3>1, <3>2, <3>3
    <2> QED BY <2>5, <2>6
  <1> HIDE DEF S
  <1>3. n \in S BY <1>1, <1>2, Induction
  <1>4. PICK f \in [0 .. n -> T] : \A i \in 0 .. n : f[i] = IF i = 0 THEN base ELSE g[i][f[i - 1]] BY <1>3 DEF S
  <1>5. f = [i \in 0 .. n |-> IF i = 0 THEN base ELSE g[i][f[i - 1]]] BY <1>4
  <1> QED BY <1>5 DEF IsLoop

\* h says from where in s each element of r comes, those of `at` up to the m-th.
Traces(h, r, s, on, m) ==
    /\ h \in [1 .. Len(r) -> Nat]
    /\ \A n \in 1 .. Len(r) : h[n] \in 1 .. m /\ h[n] \in on /\ r[n] = s[h[n]]
    /\ \A n, k \in 1 .. Len(r) : n < k => h[n] < h[k]
    /\ \A i \in 1 .. m : i \in on => \E n \in 1 .. Len(r) : h[n] = i

LEMMA PickedOne ==
    ASSUME NEW S, NEW s \in Seq(S), NEW on, NEW m \in Nat, m + 1 <= Len(s), NEW r \in Seq(S), NEW h, Traces(h, r, s, on, m)
    PROVE  LET more == IF m + 1 \in on THEN Append(r, s[m + 1]) ELSE r
           IN  more \in Seq(S) /\ \E k : Traces(k, more, s, on, m + 1)
  <1>1. CASE m + 1 \notin on
    <2>1. \A i \in 1 .. m + 1 : i \in on => i \in 1 .. m BY <1>1
    <2>2. \A i \in 1 .. m : i \in 1 .. m + 1 OBVIOUS
    <2>3. Traces(h, r, s, on, m + 1) BY <2>1, <2>2, Zenon DEF Traces
    <2> QED BY <1>1, <2>3
  <1>2. CASE m + 1 \in on
    <2> DEFINE more == Append(r, s[m + 1])
               k == [n \in 1 .. Len(r) + 1 |-> IF n = Len(r) + 1 THEN m + 1 ELSE h[n]]
    <2>1. s[m + 1] \in S /\ Len(r) \in Nat OBVIOUS
    <2>2. /\ more \in Seq(S) /\ Len(more) = Len(r) + 1
          /\ \A n \in 1 .. Len(r) : more[n] = r[n]
          /\ more[Len(r) + 1] = s[m + 1]
      BY <2>1, AppendProperties
    <2> HIDE DEF more
    <2>3. /\ h \in [1 .. Len(r) -> Nat]
          /\ \A n \in 1 .. Len(r) : h[n] \in 1 .. m /\ h[n] \in on /\ r[n] = s[h[n]]
          /\ \A a, b \in 1 .. Len(r) : a < b => h[a] < h[b]
          /\ \A i \in 1 .. m : i \in on => \E n \in 1 .. Len(r) : h[n] = i
      BY DEF Traces
    <2>4. /\ k \in [1 .. Len(more) -> Nat] /\ k[Len(r) + 1] = m + 1
          /\ \A n \in 1 .. Len(r) : k[n] = h[n]
      BY <2>1, <2>2, <2>3
    <2> HIDE DEF k
    <2>5. ASSUME NEW n \in 1 .. Len(more) PROVE k[n] \in 1 .. m + 1 /\ k[n] \in on /\ more[n] = s[k[n]]
      <3>1. CASE n = Len(r) + 1 BY <1>2, <2>2, <2>4, <3>1
      <3>2. CASE n # Len(r) + 1
        <4>1. n \in 1 .. Len(r) BY <2>1, <2>2, <3>2
        <4> QED BY <2>2, <2>3, <2>4, <4>1
      <3> QED BY <3>1, <3>2
    <2>6. ASSUME NEW a \in 1 .. Len(more), NEW b \in 1 .. Len(more), a < b PROVE k[a] < k[b]
      <3>0. a \in 1 .. Len(r) BY <2>1, <2>2, <2>6
      <3>1. CASE b = Len(r) + 1
        <4>1. h[a] \in 1 .. m BY <2>3, <3>0
        <4> QED BY <2>4, <3>0, <3>1, <4>1
      <3>2. CASE b # Len(r) + 1
        <4>1. b \in 1 .. Len(r) BY <2>1, <2>2, <3>2
        <4> QED BY <2>3, <2>4, <2>6, <3>0, <4>1
      <3> QED BY <3>1, <3>2
    <2>7. ASSUME NEW i \in 1 .. m + 1, i \in on PROVE \E n \in 1 .. Len(more) : k[n] = i
      <3>1. CASE i = m + 1
        <4>1. Len(r) + 1 \in 1 .. Len(more) BY <2>1, <2>2
        <4> QED BY <2>4, <3>1, <4>1
      <3>2. CASE i # m + 1
        <4>1. i \in 1 .. m BY <3>2
        <4>2. PICK n \in 1 .. Len(r) : h[n] = i BY <2>3, <2>7, <4>1
        <4>3. n \in 1 .. Len(more) BY <2>1, <2>2
        <4> QED BY <2>4, <4>2, <4>3
      <3> QED BY <3>1, <3>2
    <2>8. Traces(k, more, s, on, m + 1) BY <2>4, <2>5, <2>6, <2>7 DEF Traces
    <2> QED BY <1>2, <2>2, <2>8 DEF more
  <1> QED BY <1>1, <1>2

\* A comprehension: which elements it keeps, in which order.
LEMMA PickedIs ==
    ASSUME NEW S, NEW s \in Seq(S), NEW on
    PROVE  Picked(s, on) \in Seq(S) /\ \E h : Traces(h, Picked(s, on), s, on, Len(s))
  <1> DEFINE n == Len(s)
             Turn(i, r) == IF i \in on THEN Append(r, s[i]) ELSE r
             Ok(f) == f = [i \in 0 .. n |-> IF i = 0 THEN <<>> ELSE Turn(i, f[i - 1])]
             g == [i \in 1 .. n |-> [r \in Seq(S) |-> Turn(i, r)]]
  <1>1. n \in Nat /\ <<>> \in Seq(S) OBVIOUS
  <1>2. g \in [1 .. n -> [Seq(S) -> Seq(S)]]
    <2> SUFFICES ASSUME NEW i \in 1 .. n, NEW r \in Seq(S) PROVE Turn(i, r) \in Seq(S) OBVIOUS
    <2>1. s[i] \in S OBVIOUS
    <2> QED BY <2>1
  <1>3. \E f : Ok(f)
    <2>1. PICK f \in [0 .. n -> Seq(S)] : IsLoop(f, <<>>, g, n)
      <3> HIDE DEF g, n
      <3> QED BY <1>1, <1>2, LoopExists
    <2>2. ASSUME NEW i \in 0 .. n, i # 0 PROVE g[i][f[i - 1]] = Turn(i, f[i - 1])
      <3>1. i \in 1 .. n /\ f[i - 1] \in Seq(S) BY <1>1, <2>2
      <3> QED BY <3>1
    <2>3. Ok(f)
      <3> HIDE DEF g, Turn
      <3>1. [i \in 0 .. n |-> IF i = 0 THEN <<>> ELSE g[i][f[i - 1]]] = [i \in 0 .. n |-> IF i = 0 THEN <<>> ELSE Turn(i, f[i - 1])]
        BY <2>2
      <3> QED BY <2>1, <3>1 DEF IsLoop
    <2> QED BY <2>3
  <1> DEFINE f == CHOOSE x : Ok(x)
  <1>4. Picked(s, on) = f[n] BY DEF Picked
  <1>5. Ok(f) BY <1>3, Zenon
  <1> HIDE DEF f
  <1>6. f[0] = <<>> /\ \A i \in 1 .. n : f[i] = Turn(i, f[i - 1]) 
    <2> HIDE DEF Turn
    <2>1. f = [i \in 0 .. n |-> IF i = 0 THEN <<>> ELSE Turn(i, f[i - 1])] BY <1>5
    <2> HIDE DEF n
    <2>2. 0 \in 0 .. n /\ \A i \in 1 .. n : i \in 0 .. n /\ i # 0 BY <1>1
    <2> QED BY <2>1, <2>2
  <1> DEFINE Q == {m \in Nat : m <= n => f[m] \in Seq(S) /\ \E h : Traces(h, f[m], s, on, m)}
  <1>7. 0 \in Q
    <2>1. Len(<<>>) = 0 /\ [i \in 1 .. 0 |-> 0] \in [1 .. 0 -> Nat] OBVIOUS
    <2>2. Traces([i \in 1 .. 0 |-> 0], <<>>, s, on, 0) BY <2>1 DEF Traces
    <2>3. f[0] \in Seq(S) /\ \E h : Traces(h, f[0], s, on, 0) BY <1>6, <2>2
    <2> QED BY <2>3
  <1>8. ASSUME NEW m \in Nat, m \in Q PROVE m + 1 \in Q
    <2> SUFFICES ASSUME m + 1 <= n PROVE f[m + 1] \in Seq(S) /\ \E h : Traces(h, f[m + 1], s, on, m + 1) OBVIOUS
    <2>1. f[m] \in Seq(S) /\ \E h : Traces(h, f[m], s, on, m) BY <1>1, <1>8
    <2>2. PICK h : Traces(h, f[m], s, on, m) BY <2>1
    <2>3. f[m + 1] = Turn(m + 1, f[m])
      <3>1. m + 1 \in 1 .. n /\ (m + 1) - 1 = m BY <1>1
      <3> HIDE DEF Turn
      <3> QED BY <1>6, <3>1
    <2> QED BY <2>1, <2>2, <2>3, PickedOne
  <1> HIDE DEF Q
  <1>9. n \in Q BY <1>1, <1>7, <1>8, Induction
  <1> QED BY <1>4, <1>9 DEF Q

LEMMA LoopStays ==
    ASSUME NEW T, NEW base \in T, NEW n \in Nat, NEW g \in [1 .. n -> [T -> T]], NEW f, f[0] = base,
           \A i \in 1 .. n : f[i - 1] \in T => f[i] = g[i][f[i - 1]]
    PROVE  \A i \in 0 .. n : f[i] \in T
  <1> DEFINE S == {m \in Nat : m <= n => f[m] \in T}
  <1>1. 0 \in S OBVIOUS
  <1>2. ASSUME NEW m \in Nat, m \in S PROVE m + 1 \in S
    <2> SUFFICES ASSUME m + 1 <= n PROVE f[m + 1] \in T OBVIOUS
    <2>1. m + 1 \in 1 .. n /\ (m + 1) - 1 = m /\ f[m] \in T BY <1>2
    <2>2. f[m + 1] = g[m + 1][f[m]] BY <2>1
    <2> QED BY <2>1, <2>2
  <1> HIDE DEF S
  <1>3. Nat \subseteq S BY <1>1, <1>2, Induction
  <1> QED BY <1>3 DEF S

\* A sort by a key: every element once, in the order of the keys, equal ones as they were.
Orders(p, r, s, key) ==
    /\ p \in [1 .. Len(s) -> 1 .. Len(s)]
    /\ \A n \in 1 .. Len(s) : r[n] = s[p[n]]
    /\ \A i \in 1 .. Len(s) : \E n \in 1 .. Len(s) : p[n] = i
    /\ \A m, n \in 1 .. Len(s) : m < n => Precedes(key, p[m], p[n])
HasKeys(key, n) == \A i \in 1 .. n : key[i][1] \in Int /\ key[i][2] \in Int

LEMMA PrecedesOrders ==
    ASSUME NEW n \in Nat, NEW key, HasKeys(key, n), NEW i \in 1 .. n, NEW j \in 1 .. n, NEW k \in 1 .. n
    PROVE  /\ ~Precedes(key, i, i)
           /\ Precedes(key, i, j) /\ Precedes(key, j, k) => Precedes(key, i, k)
           /\ i = j \/ Precedes(key, i, j) \/ Precedes(key, j, i)
  <1>1. PICK a \in Int, b \in Int, c \in Int : a = key[i][1] /\ b = key[j][1] /\ c = key[k][1] BY DEF HasKeys
  <1>2. PICK x \in Int, y \in Int, z \in Int : x = key[i][2] /\ y = key[j][2] /\ z = key[k][2] BY DEF HasKeys
  <1> QED BY <1>1, <1>2 DEF Precedes

LEMMA SortedIs ==
    ASSUME NEW S, NEW s \in Seq(S), NEW key, HasKeys(key, Len(s))
    PROVE  /\ SortedBy(s, key) \in Seq(S) /\ Len(SortedBy(s, key)) = Len(s)
           /\ \E p : Orders(p, SortedBy(s, key), s, key)
  <1> DEFINE N == Len(s)
             D == 1 .. N
             B(i) == {j \in D : Precedes(key, j, i)}
             place == [i \in D |-> 1 + Cardinality(B(i))]
             p == [n \in D |-> CHOOSE i \in D : place[i] = n]
  <1>1. N \in Nat /\ DOMAIN s = D OBVIOUS
  <1>2. IsFiniteSet(D) /\ Cardinality(D) = N
    <2>1. 1 \in Int /\ N \in Int BY <1>1
    <2>2. Cardinality(D) = IF 1 > N THEN 0 ELSE N - 1 + 1 BY <2>1, FS_Interval
    <2> QED BY <1>1, <2>1, <2>2, FS_Interval
  <1>3. ASSUME NEW i \in D PROVE IsFiniteSet(B(i)) /\ Cardinality(B(i)) \in Nat /\ i \notin B(i) /\ Cardinality(B(i)) <= N - 1
    <2>1. i \notin B(i) BY <1>1, PrecedesOrders
    <2>2. B(i) \in SUBSET (D \ {i}) BY <2>1
    <2>3. IsFiniteSet(D \ {i}) /\ Cardinality(D \ {i}) = N - 1 BY <1>2, FS_RemoveElement
    <2> HIDE DEF B, D, N
    <2>4. IsFiniteSet(B(i)) /\ Cardinality(B(i)) <= N - 1 BY <2>2, <2>3, FS_Subset
    <2> QED BY <2>1, <2>4, FS_CardinalityType
  <1>4. ASSUME NEW i \in D, NEW j \in D, Precedes(key, i, j) PROVE Cardinality(B(i)) < Cardinality(B(j))
    <2>1. B(i) \subseteq B(j)
      <3> SUFFICES ASSUME NEW k \in D, Precedes(key, k, i) PROVE Precedes(key, k, j) OBVIOUS
      <3> QED BY <1>1, <1>4, PrecedesOrders
    <2>2. i \in B(j) BY <1>4
    <2>3. i \notin B(i) /\ IsFiniteSet(B(j)) /\ Cardinality(B(i)) \in Nat /\ Cardinality(B(j)) \in Nat BY <1>3
    <2> HIDE DEF B, D, N
    <2>4. Cardinality(B(i)) <= Cardinality(B(j)) /\ (Cardinality(B(j)) = Cardinality(B(i)) => B(j) = B(i))
      <3>1. B(i) \in SUBSET B(j) BY <2>1
      <3> QED BY <2>3, <3>1, FS_Subset
    <2> QED BY <2>2, <2>3, <2>4
  <1>5. \A i \in D : place[i] = 1 + Cardinality(B(i)) OBVIOUS
  <1>6. place \in [D -> D]
    <2>1. \A i \in D : 1 + Cardinality(B(i)) \in D
      <3> HIDE DEF B
      <3> QED BY <1>1, <1>3
    <2> HIDE DEF B, D
    <2> QED BY <2>1
  <1> HIDE DEF place
  <1>7. \A i, j \in D : Precedes(key, i, j) => place[i] < place[j]
    <2> HIDE DEF B
    <2> QED BY <1>3, <1>4, <1>5
  <1>8. \A i, j \in D : place[i] = place[j] => i = j
    <2> SUFFICES ASSUME NEW i \in D, NEW j \in D, place[i] = place[j] PROVE i = j OBVIOUS
    <2>1. i = j \/ Precedes(key, i, j) \/ Precedes(key, j, i) BY <1>1, PrecedesOrders
    <2>2. place[i] \in Int /\ place[j] \in Int BY <1>6
    <2> HIDE DEF D
    <2> QED BY <1>7, <2>1, <2>2
  <1>9. \A n \in D : \E i \in D : place[i] = n
    <2>1. place \in Injection(D, D)
      <3> HIDE DEF D
      <3> QED BY <1>6, <1>8 DEF Injection, IsInjective
    <2>2. place \in Surjection(D, D)
      <3> HIDE DEF D
      <3> QED BY <1>2, <2>1, FS_Injection
    <2> HIDE DEF D
    <2> QED BY <2>2 DEF Surjection
  <1>10. \A n \in D : p[n] \in D /\ place[p[n]] = n BY <1>9
  <1>11. SortedBy(s, key) = [n \in D |-> s[p[n]]] BY <1>1 DEF SortedBy, place
  <1> HIDE DEF p
  <1> DEFINE r == SortedBy(s, key)
  <1>12. r \in Seq(S) /\ Len(r) = N /\ \A n \in D : r[n] = s[p[n]]
    <2>1. \A n \in D : s[p[n]] \in S BY <1>10
    <2>2. r \in [1 .. N -> S] BY <1>11, <2>1
    <2> HIDE DEF r
    <2> QED BY <1>1, <1>11, <2>2 DEF r
  <1> HIDE DEF r
  <1>13. Orders(p, r, s, key)
    <2>1. p \in [D -> D] BY <1>10 DEF p
    <2>2. ASSUME NEW i \in D PROVE \E n \in D : p[n] = i
      <3>1. place[i] \in D BY <1>6
      <3>2. p[place[i]] = i BY <1>8, <1>10, <3>1
      <3> QED BY <3>1, <3>2
    <2>3. ASSUME NEW m \in D, NEW n \in D, m < n PROVE Precedes(key, p[m], p[n])
      <3>1. p[m] \in D /\ p[n] \in D /\ place[p[m]] = m /\ place[p[n]] = n BY <1>10
      <3>2. p[m] = p[n] \/ Precedes(key, p[m], p[n]) \/ Precedes(key, p[n], p[m]) BY <1>1, <3>1, PrecedesOrders
      <3>3. ~Precedes(key, p[n], p[m])
        <4> SUFFICES ASSUME Precedes(key, p[n], p[m]) PROVE FALSE OBVIOUS
        <4>1. place[p[n]] < place[p[m]] BY <1>7, <3>1
        <4> QED BY <2>3, <3>1, <4>1
      <3> QED BY <2>3, <3>1, <3>2, <3>3
    <2> QED BY <1>12, <2>1, <2>2, <2>3 DEF Orders
  <1> QED BY <1>12, <1>13 DEF r

\* One list after the other.
LEMMA FlattenedIs ==
    ASSUME NEW S, NEW ss \in Seq(Seq(S))
    PROVE  FlattenSeq(ss) \in Seq(S)
  <1> DEFINE n == Len(ss)
             Ok(f) == f = [i \in 1 .. n |-> IF i = 1 THEN ss[i] ELSE f[i - 1] \o ss[i]]
             g == [i \in 1 .. n |-> [r \in Seq(S) |-> r \o ss[i]]]
  <1>1. n \in Nat /\ \A i \in 1 .. n : ss[i] \in Seq(S) OBVIOUS
  <1>2. CASE n = 0
    <2>1. FlattenSeq(ss) = ss BY <1>2 DEF FlattenSeq
    <2>2. ss = <<>> BY <1>2
    <2> QED BY <2>1, <2>2
  <1>3. CASE n # 0
    <2>1. g \in [1 .. n -> [Seq(S) -> Seq(S)]]
      <3>1. \A i \in 1 .. n, r \in Seq(S) : r \o ss[i] \in Seq(S) BY <1>1, ConcatProperties
      <3> HIDE DEF n
      <3> QED BY <3>1
    <2>2. PICK f \in [0 .. n -> Seq(S)] : IsLoop(f, <<>>, g, n)
      <3>1. <<>> \in Seq(S) OBVIOUS
      <3> HIDE DEF g, n
      <3> QED BY <1>1, <2>1, <3>1, LoopExists
    <2>3. f[0] = <<>> /\ \A i \in 1 .. n : f[i] = f[i - 1] \o ss[i]
      <3>1. f = [i \in 0 .. n |-> IF i = 0 THEN <<>> ELSE g[i][f[i - 1]]] BY <2>2 DEF IsLoop
      <3>2. ASSUME NEW i \in 1 .. n PROVE f[i] = f[i - 1] \o ss[i]
        <4>1. i \in 0 .. n /\ i # 0 /\ i - 1 \in 0 .. n BY <1>1
        <4>2. f[i] = g[i][f[i - 1]] BY <3>1, <4>1
        <4>3. f[i - 1] \in Seq(S) BY <4>1
        <4> QED BY <4>2, <4>3
      <3>3. 0 \in 0 .. n BY <1>1
      <3>4. f[0] = <<>>
        <4> HIDE DEF g, n
        <4> QED BY <3>1, <3>3
      <3> QED BY <3>2, <3>4
    <2> DEFINE h == [i \in 1 .. n |-> f[i]]
    <2>4. Ok(h)
      <3> SUFFICES ASSUME NEW i \in 1 .. n PROVE h[i] = IF i = 1 THEN ss[i] ELSE h[i - 1] \o ss[i] OBVIOUS
      <3>1. CASE i = 1
        <4>0. 1 \in 1 .. n /\ 1 - 1 = 0 BY <3>1
        <4>1. f[1] = <<>> \o ss[1] /\ ss[1] \in Seq(S)
          <5> HIDE DEF n
          <5> QED BY <1>1, <2>3, <4>0
        <4>2. <<>> \o ss[1] = ss[1] BY <4>1, ConcatEmptySeq
        <4> QED BY <3>1, <4>1, <4>2
      <3>2. CASE i # 1
        <4>1. i - 1 \in 1 .. n BY <3>2
        <4> QED BY <2>3, <3>2, <4>1
      <3> QED BY <3>1, <3>2
    <2>5. \E x : Ok(x) BY <2>4
    <2> DEFINE x == CHOOSE y : Ok(y)
    <2>6. FlattenSeq(ss) = x[n] BY <1>3 DEF FlattenSeq
    <2>7. Ok(x) BY <2>5, Zenon
    <2> HIDE DEF x
    <2>8. \A i \in 1 .. n : x[i] = IF i = 1 THEN ss[i] ELSE x[i - 1] \o ss[i]
      <3> HIDE DEF n
      <3> QED BY <2>7
    <2> DEFINE Q == {m \in Nat : m + 1 <= n => x[m + 1] \in Seq(S)}
    <2>9. 0 \in Q BY <1>1, <2>8
    <2>10. ASSUME NEW m \in Nat, m \in Q PROVE m + 1 \in Q
      <3> SUFFICES ASSUME m + 1 + 1 <= n PROVE x[m + 1 + 1] \in Seq(S) OBVIOUS
      <3>1. m + 1 + 1 \in 1 .. n /\ m + 1 + 1 # 1 /\ (m + 1 + 1) - 1 = m + 1 BY <1>1
      <3>2. x[m + 1] \in Seq(S) BY <1>1, <2>10
      <3>3. x[m + 1 + 1] = x[m + 1] \o ss[m + 1 + 1] BY <2>8, <3>1
      <3> QED BY <1>1, <3>1, <3>2, <3>3, ConcatProperties
    <2> HIDE DEF Q
    <2>11. n - 1 \in Q
      <3>1. n - 1 \in Nat BY <1>1, <1>3
      <3> HIDE DEF n
      <3> QED BY <2>9, <2>10, <3>1, Induction
    <2>12. x[n] \in Seq(S)
      <3>1. n - 1 \in Nat /\ (n - 1) + 1 = n /\ n <= n BY <1>1, <1>3
      <3> HIDE DEF n
      <3>2. x[(n - 1) + 1] \in Seq(S) BY <2>11, <3>1 DEF Q
      <3> QED BY <3>1, <3>2
    <2> QED BY <2>6, <2>12
  <1> QED BY <1>2, <1>3

LEMMA FirstOnes ==
    ASSUME NEW S, NEW s \in Seq(S), NEW n \in Nat
    PROVE  /\ FirstOf(s, n) \in Seq(S)
           /\ Len(FirstOf(s, n)) = IF Len(s) < n THEN Len(s) ELSE n
           /\ \A i \in 1 .. Len(FirstOf(s, n)) : FirstOf(s, n)[i] = s[i]
  <1>1. PICK m \in Nat : m = (IF Len(s) < n THEN Len(s) ELSE n) /\ m <= Len(s) OBVIOUS
  <1>2. FirstOf(s, n) = SubSeq(s, 1, m) BY <1>1 DEF FirstOf
  <1>3. \A i \in 1 .. m : s[i] \in S BY <1>1
  <1>4. 1 \in Int /\ m \in Int OBVIOUS
  <1>5. /\ SubSeq(s, 1, m) \in Seq(S) /\ Len(SubSeq(s, 1, m)) = (IF 1 <= m THEN m - 1 + 1 ELSE 0)
        /\ \A i \in 1 .. m - 1 + 1 : SubSeq(s, 1, m)[i] = s[1 + i - 1]
    BY <1>3, <1>4, SubSeqProperties
  <1>6. Len(SubSeq(s, 1, m)) = m BY <1>5
  <1>7. \A i \in 1 .. m : SubSeq(s, 1, m)[i] = s[i] BY <1>5
  <1> QED BY <1>1, <1>2, <1>5, <1>6, <1>7

-----------------------------------------------------------------------------
(***************************************************************************)
(* The merges of a plan, over lists of itineraries of S.                   *)
(***************************************************************************)
Timed(S) == \A it \in S : it.end \in Int /\ it.duration \in Int

LEMMA KeptIn ==
    ASSUME NEW S, NEW s \in Seq(S), NEW on, NEW T, \A i \in 1 .. Len(s) : i \in on => s[i] \in T
    PROVE  Picked(s, on) \in Seq(T)
  <1>1. PICK r \in Seq(S) : r = Picked(s, on) BY PickedIs
  <1>2. PICK h : Traces(h, r, s, on, Len(s)) BY <1>1, PickedIs
  <1>3. \A n \in 1 .. Len(r) : r[n] \in T BY <1>2 DEF Traces
  <1>4. r \in Seq(T)
    <2>1. Len(r) \in Nat /\ r = [n \in 1 .. Len(r) |-> r[n]] OBVIOUS
    <2>2. r \in [1 .. Len(r) -> T] BY <1>3, <2>1
    <2> QED BY <2>1, <2>2, SeqDef
  <1> QED BY <1>1, <1>4

LEMMA RankedIn ==
    ASSUME NEW S, Timed(S), NEW s \in Seq(S)
    PROVE  Ranked(s) \in Seq(S) /\ Len(Ranked(s)) = Len(s) /\ Shortest(s) \in Seq(S) /\ Len(Shortest(s)) = Len(s)
  <1> DEFINE a == [i \in DOMAIN s |-> <<s[i].end, s[i].duration>>]
             b == [i \in DOMAIN s |-> <<s[i].duration, 0>>]
  <1>1. DOMAIN s = 1 .. Len(s) /\ \A i \in 1 .. Len(s) : s[i].end \in Int /\ s[i].duration \in Int BY DEF Timed
  <1>2. HasKeys(a, Len(s)) /\ HasKeys(b, Len(s)) BY <1>1 DEF HasKeys
  <1>3. Ranked(s) = SortedBy(s, a) /\ Shortest(s) = SortedBy(s, b) BY DEF Ranked, Shortest
  <1> HIDE DEF a, b
  <1> QED BY <1>2, <1>3, SortedIs

LEMMA OnceIn ==
    ASSUME NEW S, NEW s \in Seq(S), NEW key
    PROVE  OnceBy(s, key) \in Seq(S)
  <1> DEFINE on == {i \in DOMAIN s : \A j \in 1 .. (i - 1) : key[j] # key[i]}
  <1>1. OnceBy(s, key) = Picked(s, on) BY DEF OnceBy
  <1> HIDE DEF on
  <1> QED BY <1>1, PickedIs

LEMMA UnseenIn ==
    ASSUME NEW S, NEW s \in Seq(S), NEW seen
    PROVE  Unseen(s, seen) \in Seq(S)
  <1> DEFINE on == {i \in DOMAIN s : Signature(s[i]) \notin seen}
             unmet == Picked(s, on)
  <1>1. Unseen(s, seen) = OnceBy(unmet, [i \in DOMAIN unmet |-> Signature(unmet[i])]) BY DEF Unseen, Where
  <1>2. unmet \in Seq(S)
    <2> HIDE DEF on
    <2> QED BY PickedIs
  <1> HIDE DEF unmet
  <1> QED BY <1>1, <1>2, OnceIn

LEMMA FromIn ==
    ASSUME NEW S, NEW s \in Seq(S), NEW source, NEW T, \A it \in S : [it EXCEPT !.source = source] \in T
    PROVE  From(source, s) \in Seq(T)
  <1>1. DOMAIN s = 1 .. Len(s) /\ Len(s) \in Nat /\ \A i \in 1 .. Len(s) : s[i] \in S OBVIOUS
  <1>2. From(source, s) = [i \in 1 .. Len(s) |-> [s[i] EXCEPT !.source = source]] BY <1>1 DEF From
  <1>3. From(source, s) \in [1 .. Len(s) -> T] BY <1>1, <1>2
  <1> QED BY <1>1, <1>3, SeqDef

LEMMA RoomIn ==
    ASSUME NEW S, NEW s \in Seq(S), NEW cap, NEW droppable
    PROVE  MakeRoom(s, cap, droppable) \in Seq(S)
  <1> DEFINE on == {i \in DOMAIN s : i \in droppable => Cardinality({j \in droppable : j >= i}) > Len(s) - cap + 1}
  <1>1. MakeRoom(s, cap, droppable) = Picked(s, on) BY DEF MakeRoom
  <1> HIDE DEF on
  <1> QED BY <1>1, PickedIs

LEMMA FitIn ==
    ASSUME NEW S, NEW s \in Seq(S), NEW pick \in S, NEW cap, NEW droppable
    PROVE  Fit(s, pick, cap, droppable) \in Seq(S)
  <1>1. MakeRoom(s, cap, droppable) \in Seq(S) BY RoomIn
  <1> QED BY <1>1 DEF Fit

LEMMA AddRentalIn ==
    ASSUME NEW S, NEW s \in Seq(S), NEW pick \in S, NEW cap
    PROVE  AddRental(s, pick, cap) \in Seq(S)
  <1> DEFINE d == {i \in DOMAIN s : PlainRow(s[i])}
  <1>1. Fit(s, pick, cap, d) \in Seq(S)
    <2> HIDE DEF d
    <2> QED BY FitIn
  <1> QED BY <1>1 DEF AddRental

AddsRentals(f, first, picks, cap) ==
    f = [i \in 0 .. Len(picks) |-> IF i = 0 THEN first ELSE AddRental(f[i - 1], picks[i], cap)]
AddedRentals(first, picks, cap) == CHOOSE f : AddsRentals(f, first, picks, cap)
LEMMA RentalsAdded ==
    ASSUME NEW S, NEW first \in Seq(S), NEW picks \in Seq(S), NEW cap
    PROVE  /\ AddedRentals(first, picks, cap)[0] = first
           /\ \A i \in 1 .. Len(picks) : AddedRentals(first, picks, cap)[i] = AddRental(AddedRentals(first, picks, cap)[i - 1], picks[i], cap)
           /\ \A i \in 0 .. Len(picks) : AddedRentals(first, picks, cap)[i] \in Seq(S)
  <1> DEFINE n == Len(picks)
             g == [i \in 1 .. n |-> [x \in Seq(S) |-> AddRental(x, picks[i], cap)]]
             f == AddedRentals(first, picks, cap)
  <1>1. n \in Nat /\ \A i \in 1 .. n : picks[i] \in S OBVIOUS
  <1>2. g \in [1 .. n -> [Seq(S) -> Seq(S)]]
    <2>1. \A i \in 1 .. n, x \in Seq(S) : AddRental(x, picks[i], cap) \in Seq(S) BY <1>1, AddRentalIn
    <2> HIDE DEF n
    <2> QED BY <2>1
  <1>3. AddsRentals(f, first, picks, cap)
    <2>1. PICK x \in [0 .. n -> Seq(S)] : IsLoop(x, first, g, n)
      <3> HIDE DEF g, n
      <3> QED BY <1>1, <1>2, LoopExists
    <2>2. \A i \in 0 .. n : i # 0 => g[i][x[i - 1]] = AddRental(x[i - 1], picks[i], cap)
      <3> SUFFICES ASSUME NEW i \in 0 .. n, i # 0 PROVE g[i][x[i - 1]] = AddRental(x[i - 1], picks[i], cap) OBVIOUS
      <3>1. i \in 1 .. n /\ x[i - 1] \in Seq(S) BY <1>1
      <3> QED BY <3>1
    <2> HIDE DEF g
    <2>3. [i \in 0 .. n |-> IF i = 0 THEN first ELSE g[i][x[i - 1]]]
             = [i \in 0 .. n |-> IF i = 0 THEN first ELSE AddRental(x[i - 1], picks[i], cap)]
      BY <2>2
    <2>4. AddsRentals(x, first, picks, cap) BY <2>1, <2>3 DEF IsLoop, AddsRentals
    <2> QED BY <2>4, Zenon DEF AddedRentals
  <1> HIDE DEF f
  <1>4. f[0] = first /\ \A i \in 1 .. n : f[i] = AddRental(f[i - 1], picks[i], cap)
    <2>1. f = [i \in 0 .. n |-> IF i = 0 THEN first ELSE AddRental(f[i - 1], picks[i], cap)] BY <1>3 DEF AddsRentals
    <2> HIDE DEF n
    <2>2. 0 \in 0 .. n /\ \A i \in 1 .. n : i \in 0 .. n /\ i # 0 BY <1>1
    <2> QED BY <2>1, <2>2
  <1>5. \A i \in 1 .. n : f[i - 1] \in Seq(S) => f[i] = g[i][f[i - 1]]
    <2> HIDE DEF n
    <2> QED BY <1>4
  <1>6. \A i \in 0 .. n : f[i] \in Seq(S)
    <2> HIDE DEF n, g
    <2> QED BY <1>1, <1>2, <1>4, <1>5, LoopStays
  <1> QED BY <1>4, <1>6 DEF f

LEMMA MergePlansIs ==
    ASSUME NEW plans, NEW num
    PROVE  MergePlans(plans, num) =
             LET first == Unseen(FirstOf(plans[1], num), {})
                 picks == Shortest(RentalPicks(plans, first))
             IN  IF Len(plans) = 1 THEN plans[1] ELSE Ranked(AddedRentals(first, picks, num + 2)[Len(picks)])
  BY DEF MergePlans, AddedRentals, AddsRentals

\* The rides and the parked cars.
AddsPicks(f, its, picks, cap, keep) ==
    f = [i \in 0 .. Len(picks) |-> IF i = 0 THEN its ELSE Fit(f[i - 1], picks[i], cap, Droppable(f[i - 1], keep))]
AddedPicks(its, picks, cap, keep) == CHOOSE f : AddsPicks(f, its, picks, cap, keep)
LEMMA PicksAdded ==
    ASSUME NEW S, NEW its \in Seq(S), NEW picks \in Seq(S), NEW cap, NEW keep
    PROVE  /\ AddedPicks(its, picks, cap, keep)[0] = its
           /\ \A i \in 1 .. Len(picks) :
                 AddedPicks(its, picks, cap, keep)[i]
                   = Fit(AddedPicks(its, picks, cap, keep)[i - 1], picks[i], cap, Droppable(AddedPicks(its, picks, cap, keep)[i - 1], keep))
           /\ \A i \in 0 .. Len(picks) : AddedPicks(its, picks, cap, keep)[i] \in Seq(S)
  <1> DEFINE n == Len(picks)
             Turn(x, i) == Fit(x, picks[i], cap, Droppable(x, keep))
             g == [i \in 1 .. n |-> [x \in Seq(S) |-> Turn(x, i)]]
             f == AddedPicks(its, picks, cap, keep)
  <1>1. n \in Nat /\ \A i \in 1 .. n : picks[i] \in S OBVIOUS
  <1>2. g \in [1 .. n -> [Seq(S) -> Seq(S)]]
    <2>1. ASSUME NEW i \in 1 .. n, NEW x \in Seq(S) PROVE Turn(x, i) \in Seq(S)
      <3> DEFINE d == Droppable(x, keep)
      <3> HIDE DEF d
      <3>1. Fit(x, picks[i], cap, d) \in Seq(S) BY <1>1, FitIn
      <3> QED BY <3>1 DEF d
    <2> HIDE DEF n, Turn
    <2> QED BY <2>1
  <1>3. AddsPicks(f, its, picks, cap, keep)
    <2>1. PICK x \in [0 .. n -> Seq(S)] : IsLoop(x, its, g, n)
      <3> HIDE DEF g, n
      <3> QED BY <1>1, <1>2, LoopExists
    <2>2. \A i \in 0 .. n : i # 0 => g[i][x[i - 1]] = Turn(x[i - 1], i)
      <3> SUFFICES ASSUME NEW i \in 0 .. n, i # 0 PROVE g[i][x[i - 1]] = Turn(x[i - 1], i) OBVIOUS
      <3>1. i \in 1 .. n /\ x[i - 1] \in Seq(S) BY <1>1
      <3> HIDE DEF Turn
      <3> QED BY <3>1
    <2> HIDE DEF g, Turn
    <2>3. [i \in 0 .. n |-> IF i = 0 THEN its ELSE g[i][x[i - 1]]] = [i \in 0 .. n |-> IF i = 0 THEN its ELSE Turn(x[i - 1], i)]
      BY <2>2
    <2>4. AddsPicks(x, its, picks, cap, keep) BY <2>1, <2>3 DEF IsLoop, AddsPicks, Turn
    <2> QED BY <2>4, Zenon DEF AddedPicks
  <1> HIDE DEF f
  <1>4. f[0] = its /\ \A i \in 1 .. n : f[i] = Turn(f[i - 1], i)
    <2>1. f = [i \in 0 .. n |-> IF i = 0 THEN its ELSE Turn(f[i - 1], i)] BY <1>3 DEF AddsPicks
    <2> HIDE DEF n, Turn
    <2>2. 0 \in 0 .. n /\ \A i \in 1 .. n : i \in 0 .. n /\ i # 0 BY <1>1
    <2> QED BY <2>1, <2>2
  <1>5. \A i \in 1 .. n : f[i - 1] \in Seq(S) => f[i] = g[i][f[i - 1]]
    <2> HIDE DEF n, Turn
    <2> QED BY <1>4
  <1>6. \A i \in 0 .. n : f[i] \in Seq(S)
    <2> HIDE DEF n, g
    <2> QED BY <1>1, <1>2, <1>4, <1>5, LoopStays
  <1> QED BY <1>4, <1>6 DEF f
LEMMA MergePicksIs ==
    ASSUME NEW its, NEW picks, NEW num
    PROVE  MergePicks(its, picks, num) =
             Ranked(AddedPicks(its, picks, num + 3, Range(BestPlainTransit(its)))[Len(picks)])
  BY DEF MergePicks, AddedPicks, AddsPicks

LEMMA AddDirectIn ==
    ASSUME NEW S, NEW s \in Seq(S), NEW pick \in S, NEW cap, NEW keep
    PROVE  AddDirect(s, pick, cap, keep) \in Seq(S)
  <1> DEFINE d == {i \in 2 .. Len(s) : s[i].source = "primary" /\ s[i] \notin keep}
  <1>1. MakeRoom(s, cap, d) \in Seq(S)
    <2> HIDE DEF d
    <2> QED BY RoomIn
  <1> QED BY <1>1 DEF AddDirect

\* One's own vehicles.
AddsDirect(f, its, picks, cap, keep) ==
    f = [i \in 0 .. Len(picks) |-> IF i = 0 THEN its ELSE AddDirect(f[i - 1], picks[i], cap, keep)]
AddedDirect(its, picks, cap, keep) == CHOOSE f : AddsDirect(f, its, picks, cap, keep)
LEMMA DirectAdded ==
    ASSUME NEW S, NEW its \in Seq(S), NEW picks \in Seq(S), NEW cap, NEW keep
    PROVE  /\ AddedDirect(its, picks, cap, keep)[0] = its
           /\ \A i \in 1 .. Len(picks) :
                 AddedDirect(its, picks, cap, keep)[i]
                   = AddDirect(AddedDirect(its, picks, cap, keep)[i - 1], picks[i], cap, keep)
           /\ \A i \in 0 .. Len(picks) : AddedDirect(its, picks, cap, keep)[i] \in Seq(S)
  <1> DEFINE n == Len(picks)
             Turn(x, i) == AddDirect(x, picks[i], cap, keep)
             g == [i \in 1 .. n |-> [x \in Seq(S) |-> Turn(x, i)]]
             f == AddedDirect(its, picks, cap, keep)
  <1>1. n \in Nat /\ \A i \in 1 .. n : picks[i] \in S OBVIOUS
  <1>2. g \in [1 .. n -> [Seq(S) -> Seq(S)]]
    <2>1. ASSUME NEW i \in 1 .. n, NEW x \in Seq(S) PROVE Turn(x, i) \in Seq(S)
      <3> QED BY <1>1, AddDirectIn
    <2> HIDE DEF n, Turn
    <2> QED BY <2>1
  <1>3. AddsDirect(f, its, picks, cap, keep)
    <2>1. PICK x \in [0 .. n -> Seq(S)] : IsLoop(x, its, g, n)
      <3> HIDE DEF g, n
      <3> QED BY <1>1, <1>2, LoopExists
    <2>2. \A i \in 0 .. n : i # 0 => g[i][x[i - 1]] = Turn(x[i - 1], i)
      <3> SUFFICES ASSUME NEW i \in 0 .. n, i # 0 PROVE g[i][x[i - 1]] = Turn(x[i - 1], i) OBVIOUS
      <3>1. i \in 1 .. n /\ x[i - 1] \in Seq(S) BY <1>1
      <3> HIDE DEF Turn
      <3> QED BY <3>1
    <2> HIDE DEF g, Turn
    <2>3. [i \in 0 .. n |-> IF i = 0 THEN its ELSE g[i][x[i - 1]]] = [i \in 0 .. n |-> IF i = 0 THEN its ELSE Turn(x[i - 1], i)]
      BY <2>2
    <2>4. AddsDirect(x, its, picks, cap, keep) BY <2>1, <2>3 DEF IsLoop, AddsDirect, Turn
    <2> QED BY <2>4, Zenon DEF AddedDirect
  <1> HIDE DEF f
  <1>4. f[0] = its /\ \A i \in 1 .. n : f[i] = Turn(f[i - 1], i)
    <2>1. f = [i \in 0 .. n |-> IF i = 0 THEN its ELSE Turn(f[i - 1], i)] BY <1>3 DEF AddsDirect
    <2> HIDE DEF n, Turn
    <2>2. 0 \in 0 .. n /\ \A i \in 1 .. n : i \in 0 .. n /\ i # 0 BY <1>1
    <2> QED BY <2>1, <2>2
  <1>5. \A i \in 1 .. n : f[i - 1] \in Seq(S) => f[i] = g[i][f[i - 1]]
    <2> HIDE DEF n, Turn
    <2> QED BY <1>4
  <1>6. \A i \in 0 .. n : f[i] \in Seq(S)
    <2> HIDE DEF n, g
    <2> QED BY <1>1, <1>2, <1>4, <1>5, LoopStays
  <1> QED BY <1>4, <1>6 DEF f
LEMMA MergeDirectIs ==
    ASSUME NEW its, NEW plans, NEW num
    PROVE  MergeDirect(its, plans, num) =
             LET keep  == Range(BestPlainTransit(its))
                 picks == DirectPicks(its, plans)
             IN  IF plans = <<>> THEN its ELSE Ranked(AddedDirect(its, picks, num + Len(plans), keep)[Len(picks)])
  BY DEF MergeDirect, AddedDirect, AddsDirect

\* Rows whose source may be rewritten.
Rows(S) == /\ Timed(S)
           /\ \A it \in S, source \in {"rental", "ondemand"} :
                 /\ [it EXCEPT !.source = source] \in S
                 /\ [it EXCEPT !.source = source].source = source /\ [it EXCEPT !.source = source].legs = it.legs
Sourced(S, source) == {it \in S : it.source = source}

LEMMA RentalPicksIn ==
    ASSUME NEW S, Rows(S), NEW plans \in Seq(Seq(S)), plans # <<>>, NEW first
    PROVE  RentalPicks(plans, first) \in Seq({it \in S : it.source = "rental" /\ Rented(it)})
  <1> DEFINE all == FlattenSeq(Tail(plans))
             R == {it \in S : Rented(it)}
             on == {i \in DOMAIN all : Rented(all[i])}
             seen == {Signature(it) : it \in Range(first)}
             u == Unseen(Picked(all, on), seen)
  <1>1. RentalPicks(plans, first) = From("rental", u) BY DEF RentalPicks, Where
  <1>2. all \in Seq(S)
    <2>1. Tail(plans) \in Seq(Seq(S)) BY HeadTailProperties
    <2> QED BY <2>1, FlattenedIs
  <1> HIDE DEF all
  <1>3. Picked(all, on) \in Seq(R)
    <2>1. \A i \in 1 .. Len(all) : i \in on => all[i] \in R BY <1>2
    <2> HIDE DEF on, R
    <2> QED BY <1>2, <2>1, KeptIn
  <1>4. u \in Seq(R)
    <2> HIDE DEF on, R, seen
    <2> QED BY <1>3, UnseenIn
  <1> DEFINE T == {it \in S : it.source = "rental" /\ Rented(it)}
  <1>5. \A it \in R : [it EXCEPT !.source = "rental"] \in T
    BY DEF Rows, Rented
  <1> HIDE DEF u, R, T
  <1>6. From("rental", u) \in Seq(T) BY <1>4, <1>5, FromIn
  <1> QED BY <1>1, <1>6 DEF T

LEMMA NewRidesIn ==
    ASSUME NEW S, Rows(S), NEW its, NEW plans \in Seq(Seq(S))
    PROVE  NewRides(its, plans) \in Seq(Sourced(S, "ondemand"))
  <1> DEFINE sorts == [i \in DOMAIN plans |-> Shortest(plans[i])]
             sorted == FlattenSeq(sorts)
             known == {Signature(it) : it \in Range(its)}
             on == {i \in DOMAIN sorted : /\ \E j \in DOMAIN sorted[i].legs : IsOnDemand(sorted[i].legs[j])
                                          /\ Signature(sorted[i]) \notin known}
             rides == Picked(sorted, on)
             u == OnceBy(rides, [i \in DOMAIN rides |-> Shape(rides[i])])
  <1>1. NewRides(its, plans) = From("ondemand", u) BY DEF NewRides, Where
  <1>2. sorts \in Seq(Seq(S))
    <2>1. DOMAIN plans = 1 .. Len(plans) /\ Len(plans) \in Nat /\ \A i \in 1 .. Len(plans) : plans[i] \in Seq(S) OBVIOUS
    <2>2. \A i \in 1 .. Len(plans) : Shortest(plans[i]) \in Seq(S) BY <2>1, RankedIn DEF Rows
    <2>3. sorts \in [1 .. Len(plans) -> Seq(S)] BY <2>1, <2>2
    <2> HIDE DEF sorts
    <2> QED BY <2>1, <2>3, IsList
  <1> HIDE DEF sorts
  <1>3. sorted \in Seq(S) BY <1>2, FlattenedIs
  <1> HIDE DEF sorted, on
  <1>4. rides \in Seq(S) BY <1>3, PickedIs
  <1> HIDE DEF rides
  <1>5. u \in Seq(S) BY <1>4, OnceIn
  <1> DEFINE T == Sourced(S, "ondemand")
  <1>6. \A it \in S : [it EXCEPT !.source = "ondemand"] \in T BY DEF Rows, Sourced
  <1> HIDE DEF u, T
  <1>7. From("ondemand", u) \in Seq(T) BY <1>5, <1>6, FromIn
  <1> QED BY <1>1, <1>7 DEF T

LEMMA RidePicksIn ==
    ASSUME NEW S, Rows(S), NEW its, NEW plans \in Seq(Seq(S)), NEW whenSlower
    PROVE  RidePicks(its, plans, whenSlower) \in Seq(Sourced(S, "ondemand"))
  <1> DEFINE T == Sourced(S, "ondemand")
             unmet == NewRides(its, plans)
             transit == Where(its, Rides)
             worth == {i \in DOMAIN unmet : whenSlower \/ transit = <<>> \/ unmet[i].duration <= transit[1].duration}
             new == Shortest(Picked(unmet, worth))
             direct == {i \in DOMAIN new : ~Rides(new[i])}
             combos == {i \in DOMAIN new : Rides(new[i]) /\ ShortFeeders(new[i])}
  <1>1. RidePicks(its, plans, whenSlower) = FirstOf(Picked(new, direct), 1) \o FirstOf(Picked(new, combos), 2)
    BY DEF RidePicks, Where
  <1>2. unmet \in Seq(T) BY NewRidesIn
  <1>3. Timed(T) BY DEF Rows, Timed, Sourced
  <1> HIDE DEF T, unmet, worth
  <1>4. new \in Seq(T)
    <2>1. Picked(unmet, worth) \in Seq(T) BY <1>2, PickedIs
    <2> QED BY <1>3, <2>1, RankedIn
  <1> HIDE DEF new, direct, combos
  <1>5. Picked(new, direct) \in Seq(T) /\ Picked(new, combos) \in Seq(T) BY <1>4, PickedIs
  <1>6. FirstOf(Picked(new, direct), 1) \in Seq(T) /\ FirstOf(Picked(new, combos), 2) \in Seq(T) BY <1>5, FirstOnes
  <1>7. FirstOf(Picked(new, direct), 1) \o FirstOf(Picked(new, combos), 2) \in Seq(T) BY <1>6, ConcatProperties
  <1> QED BY <1>1, <1>7 DEF T

LEMMA MergePlansIn ==
    ASSUME NEW S, Rows(S), NEW plans \in Seq(Seq(S)), plans # <<>>, NEW num \in Nat
    PROVE  MergePlans(plans, num) \in Seq(S)
  <1> DEFINE first == Unseen(FirstOf(plans[1], num), {})
             picks == Shortest(RentalPicks(plans, first))
             them == AddedRentals(first, picks, num + 2)[Len(picks)]
  <1>1. MergePlans(plans, num) = IF Len(plans) = 1 THEN plans[1] ELSE Ranked(them) BY MergePlansIs
  <1>2. plans[1] \in Seq(S) OBVIOUS
  <1>3. first \in Seq(S)
    <2>1. FirstOf(plans[1], num) \in Seq(S) BY <1>2, FirstOnes
    <2> QED BY <2>1, UnseenIn
  <1> HIDE DEF first
  <1>4. picks \in Seq(S)
    <2>1. PICK t \in Seq({it \in S : it.source = "rental" /\ Rented(it)}) : t = RentalPicks(plans, first) BY RentalPicksIn
    <2>2. {it \in S : it.source = "rental" /\ Rented(it)} \subseteq S OBVIOUS
    <2>3. t \in Seq(S) BY <2>2, SeqMonotonic
    <2> QED BY <2>1, <2>3, RankedIn DEF Rows
  <1> HIDE DEF picks
  <1>5. them \in Seq(S)
    <2>1. Len(picks) \in 0 .. Len(picks) BY <1>4
    <2> QED BY <1>3, <1>4, <2>1, RentalsAdded
  <1> HIDE DEF them
  <1> QED BY <1>1, <1>2, <1>5, RankedIn DEF Rows

LEMMA MergePicksIn ==
    ASSUME NEW S, Timed(S), NEW its \in Seq(S), NEW picks \in Seq(S), NEW num
    PROVE  MergePicks(its, picks, num) \in Seq(S)
  <1> DEFINE keep == Range(BestPlainTransit(its))
             them == AddedPicks(its, picks, num + 3, keep)[Len(picks)]
  <1>1. MergePicks(its, picks, num) = Ranked(them) BY MergePicksIs
  <1> HIDE DEF keep
  <1>2. them \in Seq(S)
    <2>1. Len(picks) \in 0 .. Len(picks) OBVIOUS
    <2> QED BY <2>1, PicksAdded
  <1> HIDE DEF them
  <1> QED BY <1>1, <1>2, RankedIn

LEMMA MergeOnDemandIn ==
    ASSUME NEW S, Rows(S), NEW its \in Seq(S), NEW plans \in Seq(Seq(S)), NEW q
    PROVE  MergeOnDemand(its, plans, q) \in Seq(S)
  <1>1. PICK picks \in Seq(Sourced(S, "ondemand")) : picks = RidePicks(its, plans, q.showSlower) BY RidePicksIn
  <1>2. picks \in Seq(S)
    <2>1. Sourced(S, "ondemand") \subseteq S BY DEF Sourced
    <2> QED BY <2>1, SeqMonotonic
  <1>3. MergePicks(its, picks, q.num) \in Seq(S) BY <1>2, MergePicksIn DEF Rows
  <1> QED BY <1>1, <1>3 DEF MergeOnDemand

LEMMA MergeParkRideIn ==
    ASSUME NEW S, Timed(S), NEW its \in Seq(S), NEW park \in Seq(S), NEW num
    PROVE  MergeParkRide(its, park, num) \in Seq(S)
  <1>1. Shortest(park) \in Seq(S) BY RankedIn
  <1>2. FirstOf(Shortest(park), 2) \in Seq(S) BY <1>1, FirstOnes
  <1> QED BY <1>2, MergePicksIn DEF MergeParkRide

LEMMA NewDirectIn ==
    ASSUME NEW S, Timed(S), NEW plan \in Seq(S), NEW its
    PROVE  NewDirect(plan, its) \in Seq(S)
  <1> DEFINE s == Shortest(plan)
             on == {i \in DOMAIN s : Signature(s[i]) \notin {Signature(x) : x \in Range(its)}}
  <1>1. NewDirect(plan, its) = FirstOf(Picked(s, on), 1) BY DEF NewDirect, Where
  <1>2. s \in Seq(S) BY RankedIn
  <1> HIDE DEF s, on
  <1>3. Picked(s, on) \in Seq(S) BY <1>2, PickedIs
  <1> QED BY <1>1, <1>3, FirstOnes

-----------------------------------------------------------------------------
(***************************************************************************)
(* The queries of one request.                                             *)
(***************************************************************************)
Streets == {<<m>> : m \in Street} \cup {<<m, r>> : m \in Street, r \in Rentals}
QueriesOf(kinds) == [kind : kinds, transit : BOOLEAN, street : Streets, first : Nat]

LEMMA ModesAre ==
    ASSUME NEW q, q.modes \in Seq(Range(q.modes))
    PROVE  /\ Shared(q) \in Seq(Rentals)
           /\ Plain(q) \in Seq(Street) /\ Plain(q) # <<>>
           /\ Base(q) \in Street /\ Extra(q) \in Seq(Street)
  <1> DEFINE M == Street \cup Rentals
             any == AnyTokens(q)
             T == {RentalOf(t) : t \in Range(q.modes)}
             named == [i \in DOMAIN any |-> RentalOf(any[i])]
             on == {i \in DOMAIN named : named[i] \in M}
             known == Picked(named, on)
             once == OnceBy(known, known)
             modes == StreetModes(q)
             served == {i \in DOMAIN modes : ~Unserved(q, modes[i])}
             all == Served(q)
             shared == {i \in DOMAIN all : all[i] \in Rentals}
             plain == {i \in DOMAIN all : all[i] \notin Rentals}
  <1>0. <<"WALK">> \in Seq(Street) /\ <<"WALK">> # <<>> /\ "WALK" \in Street /\ <<"WALK">> \in Seq(M)
    <2>1. "WALK" \in Street BY DEF Street
    <2> QED BY <2>1
  <1>1. any \in Seq(Range(q.modes))
    <2> DEFINE w == {i \in DOMAIN q.modes : q.modes[i] # "ONDEMAND"}
    <2>1. any = Picked(q.modes, w) BY DEF AnyTokens, Where
    <2> HIDE DEF w
    <2> QED BY <2>1, PickedIs
  <1> HIDE DEF any
  <1>2. named \in Seq(T)
    <2>1. Len(any) \in Nat /\ DOMAIN any = 1 .. Len(any) /\ \A i \in 1 .. Len(any) : RentalOf(any[i]) \in T BY <1>1
    <2>2. named \in [1 .. Len(any) -> T] BY <2>1
    <2> HIDE DEF named, T
    <2> QED BY <2>1, <2>2, IsList
  <1>3. StreetModes(q) = Or(once, <<"WALK">>) BY DEF StreetModes, Where, any
  <1> HIDE DEF named, T
  <1>4. known \in Seq(M)
    <2>1. \A i \in 1 .. Len(named) : i \in on => named[i] \in M OBVIOUS
    <2> HIDE DEF on, M
    <2> QED BY <1>2, <2>1, KeptIn
  <1> HIDE DEF known
  <1>5. once \in Seq(M)
    <2> HIDE DEF M
    <2> QED BY <1>4, OnceIn
  <1> HIDE DEF once, M
  <1>6. modes \in Seq(M) BY <1>0, <1>3, <1>5 DEF Or
  <1>7. Served(q) = Or(Picked(modes, served), <<"WALK">>) BY DEF Served, Where
  <1> HIDE DEF modes, served
  <1>8. all \in Seq(M)
    <2>1. Picked(modes, served) \in Seq(M) BY <1>6, PickedIs
    <2> QED BY <1>0, <1>7, <2>1 DEF Or
  <1>9. Shared(q) = Picked(all, shared) /\ Plain(q) = Or(Picked(all, plain), <<"WALK">>) BY DEF Shared, Plain, Where
  <1> HIDE DEF all
  <1>10. \A i \in 1 .. Len(all) : (i \in shared => all[i] \in Rentals) /\ (i \in plain => all[i] \in Street) BY <1>8 DEF M
  <1> HIDE DEF shared, plain
  <1>11. Shared(q) \in Seq(Rentals) /\ Picked(all, plain) \in Seq(Street) BY <1>8, <1>9, <1>10, KeptIn
  <1>12. Plain(q) \in Seq(Street) /\ Plain(q) # <<>> BY <1>0, <1>9, <1>11 DEF Or
  <1>13. Base(q) \in Street
    <2>1. Plain(q)[1] \in Street BY <1>12
    <2> QED BY <1>0, <2>1 DEF Base
  <1>14. Extra(q) \in Seq(Street)
    <2> DEFINE p == Plain(q)
               w == {i \in DOMAIN p : p[i] # Base(q)}
    <2>1. Extra(q) = Picked(p, w) BY DEF Extra, Where
    <2> HIDE DEF w
    <2> QED BY <1>12, <2>1, PickedIs
  <1> QED BY <1>11, <1>12, <1>13, <1>14

LEMMA LargerOf == ASSUME NEW m \in Nat, NEW n \in Nat PROVE Max({m, n}) \in Nat
  <1>1. CASE m >= n
    <2>1. m \in {m, n} /\ \A y \in {m, n} : m >= y BY <1>1
    <2> QED BY <2>1 DEF Max
  <1>2. CASE n >= m
    <2>1. n \in {m, n} /\ \A y \in {m, n} : n >= y BY <1>2
    <2> QED BY <2>1 DEF Max
  <1> QED BY <1>1, <1>2

LEMMA QueryIs ==
    ASSUME NEW kinds, NEW kind \in kinds, NEW transit \in BOOLEAN, NEW street \in Streets, NEW first \in Nat
    PROVE  Query(kind, transit, street, first) \in QueriesOf(kinds)
  BY DEF Query, QueriesOf

LEMMA QueriesPer ==
    ASSUME NEW kinds, NEW kind \in kinds, NEW transit \in BOOLEAN, NEW T, NEW modes \in Seq(T), NEW with, NEW first \in Nat,
           \A m \in T : with \o <<m>> \in Streets
    PROVE  /\ QueryPer(kind, transit, modes, with, first) \in Seq(QueriesOf(kinds))
           /\ Len(QueryPer(kind, transit, modes, with, first)) = Len(modes)
  <1> DEFINE r == QueryPer(kind, transit, modes, with, first)
  <1>1. Len(modes) \in Nat /\ DOMAIN modes = 1 .. Len(modes) /\ \A i \in 1 .. Len(modes) : modes[i] \in T OBVIOUS
  <1>2. r = [i \in 1 .. Len(modes) |-> Query(kind, transit, with \o <<modes[i]>>, first)] BY <1>1 DEF QueryPer
  <1>3. \A i \in 1 .. Len(modes) : Query(kind, transit, with \o <<modes[i]>>, first) \in QueriesOf(kinds) BY <1>1, QueryIs
  <1>4. r \in [1 .. Len(modes) -> QueriesOf(kinds)] BY <1>2, <1>3
  <1> HIDE DEF r
  <1>5. r \in Seq(QueriesOf(kinds)) /\ Len(r) = Len(modes) BY <1>1, <1>4, IsList
  <1> QED BY <1>5 DEF r

LEMMA StreetsWith ==
    /\ \A m \in Street : <<>> \o <<m>> \in Streets /\ <<m>> \in Streets
    /\ \A r \in Rentals : <<"WALK">> \o <<r>> \in Streets
    /\ \A m \in Street, r \in Rentals : <<m>> \o <<r>> \in Streets
  <1>1. "WALK" \in Street BY DEF Street
  <1>2. ASSUME NEW m, NEW r PROVE <<m>> \o <<r>> = <<m, r>>
    <2> DEFINE T == {m, r}
               a == <<m>>
               b == <<r>>
               c == a \o b
               d == <<m, r>>
    <2>1. a \in Seq(T) /\ b \in Seq(T) /\ d \in Seq(T) /\ Len(a) = 1 /\ Len(b) = 1 /\ Len(d) = 2
          /\ a[1] = m /\ b[1] = r /\ d[1] = m /\ d[2] = r
      OBVIOUS
    <2> HIDE DEF T, a, b, d
    <2>2. c \in Seq(T) /\ Len(c) = 2 /\ \A i \in 1 .. 2 : c[i] = IF i <= 1 THEN a[i] ELSE b[i - 1]
      BY <2>1, ConcatProperties
    <2> HIDE DEF c
    <2>3. \A i \in 1 .. 2 : c[i] = d[i] BY <2>1, <2>2
    <2>4. c = d BY <2>1, <2>2, <2>3, SeqEqual
    <2> QED BY <2>4 DEF a, b, c, d
  <1>3. \A m : <<>> \o <<m>> = <<m>> OBVIOUS
  <1> QED BY <1>1, <1>2, <1>3 DEF Streets

\* The queries of a request, part by part.
LEMMA BaseSearchesAre ==
    ASSUME NEW q, q.modes \in Seq(Range(q.modes)), q.num \in Nat
    PROVE  BaseSearches(q) \in Seq(QueriesOf({"primary", "companion"})) /\ BaseSearches(q) # <<>>
  <1> DEFINE transit == TransitModes(q) # <<>>
             K == {"primary", "companion"}
             shared == Shared(q)
             more == Max({6, q.num + 4})
             base == Base(q)
             num == q.num
             later == IF transit THEN shared ELSE SubSeq(shared, 2, Len(shared))
             biased == IF transit THEN shared ELSE <<>>
             street == <<base>> \o (IF transit THEN <<>> ELSE FirstOf(shared, 1))
             a == <<Query("primary", transit, street, num)>>
             b == QueryPer("companion", transit, later, <<"WALK">>, num)
             c == QueryPer("companion", transit, biased, <<"WALK">>, more)
  <1>1. BaseSearches(q) = a \o b \o c BY DEF BaseSearches
  <1>2. transit \in BOOLEAN /\ num \in Nat /\ "primary" \in K /\ "companion" \in K BY Zenon
  <1>3. more \in Nat /\ shared \in Seq(Rentals) /\ base \in Street
    <2>1. 6 \in Nat /\ q.num + 4 \in Nat OBVIOUS
    <2> QED BY <2>1, ModesAre, LargerOf
  <1> HIDE DEF transit, shared, more, base, num, K
  <1>4. later \in Seq(Rentals) /\ biased \in Seq(Rentals)
    <2>1. SubSeq(shared, 2, Len(shared)) \in Seq(Rentals)
      <3>1. 2 \in Int /\ Len(shared) \in Int /\ \A i \in 2 .. Len(shared) : shared[i] \in Rentals BY <1>3
      <3>2. PICK v \in Int : v = Len(shared) BY <3>1
      <3> QED BY <3>1, <3>2, SubSeqProperties
    <2>2. <<>> \in Seq(Rentals) OBVIOUS
    <2> QED BY <1>3, <2>1, <2>2
  <1>5. street \in Streets
    <2> DEFINE s == FirstOf(shared, 1)
    <2>1. s \in Seq(Rentals) /\ Len(s) = (IF Len(shared) < 1 THEN Len(shared) ELSE 1)
      <3>1. 1 \in Nat OBVIOUS
      <3> QED BY <1>3, <3>1, FirstOnes
    <2> HIDE DEF s
    <2>2. CASE transit \/ s = <<>>
      <3>1. street = <<base>>
        <4>1. street = <<base>> \o <<>> BY <2>2 DEF s
        <4>2. <<base>> \o <<>> = <<base>> OBVIOUS
        <4> QED BY <4>1, <4>2
      <3> QED BY <1>3, <3>1, StreetsWith
    <2>3. CASE ~transit /\ s # <<>>
      <3>1. Len(s) = 1 BY <1>3, <2>1, <2>3
      <3>2. s[1] \in Rentals /\ s = <<s[1]>>
        <4>1. s[1] \in Rentals BY <2>1, <3>1
        <4> DEFINE d == <<s[1]>>
        <4>2. d \in Seq(Rentals) /\ Len(d) = 1 /\ d[1] = s[1] BY <4>1
        <4> HIDE DEF d
        <4>3. Len(s) = Len(d) /\ \A i \in 1 .. Len(s) : s[i] = d[i] BY <3>1, <4>2
        <4>4. s = d BY <2>1, <4>2, <4>3, SeqEqual
        <4> QED BY <4>1, <4>4 DEF d
      <3>3. street = <<base>> \o <<s[1]>> BY <2>3, <3>2 DEF s
      <3> QED BY <1>3, <3>2, <3>3, StreetsWith
    <2> QED BY <2>2, <2>3
  <1> HIDE DEF street, later, biased
  <1>6. a \in Seq(QueriesOf(K)) /\ Len(a) = 1
    <2>1. Query("primary", transit, street, num) \in QueriesOf(K) BY <1>2, <1>5, QueryIs
    <2> QED BY <2>1
  <1>7. b \in Seq(QueriesOf(K)) /\ c \in Seq(QueriesOf(K))
    <2>1. \A r \in Rentals : <<"WALK">> \o <<r>> \in Streets BY StreetsWith
    <2> DEFINE walk == <<"WALK">>
    <2>2. \A r \in Rentals : walk \o <<r>> \in Streets BY <2>1
    <2> HIDE DEF walk
    <2>3. /\ QueryPer("companion", transit, later, walk, num) \in Seq(QueriesOf(K))
          /\ QueryPer("companion", transit, biased, walk, more) \in Seq(QueriesOf(K))
      BY <1>2, <1>3, <1>4, <2>2, QueriesPer
    <2> QED BY <2>3 DEF walk
  <1> HIDE DEF a, b, c
  <1>8. a \o b \in Seq(QueriesOf(K)) /\ Len(a \o b) = Len(a) + Len(b) BY <1>6, <1>7, ConcatProperties
  <1>9. a \o b \o c \in Seq(QueriesOf(K)) /\ Len(a \o b \o c) = Len(a \o b) + Len(c) BY <1>7, <1>8, ConcatProperties
  <1>10. a \o b \o c # <<>>
    <2>1. Len(b) \in Nat /\ Len(c) \in Nat BY <1>7
    <2>2. Len(a \o b \o c) # 0 BY <1>6, <1>8, <1>9, <2>1
    <2> QED BY <1>9, <2>2
  <1> QED BY <1>1, <1>9, <1>10 DEF K

RideKinds == {"ride", "dropoff", "pickup"}
LEMMA DropOffIs ==
    ASSUME NEW q, q.modes \in Seq(Range(q.modes)), q.num \in Nat
    PROVE  /\ DropOff(q) \in QueriesOf(RideKinds) /\ DropOff(q).kind = "dropoff"
           /\ [DropOff(q) EXCEPT !.kind = "pickup"] \in QueriesOf(RideKinds)
  <1>1. Max({4, q.num}) \in Nat
    <2>1. 4 \in Nat OBVIOUS
    <2> QED BY <2>1, LargerOf
  <1>2. PICK first \in Nat, street \in Streets : DropOff(q) = Query("dropoff", TRUE, street, first)
    <2>1. <<Base(q)>> \in Streets BY ModesAre, StreetsWith
    <2> QED BY <1>1, <2>1 DEF DropOff
  <1>3. \A query \in QueriesOf(RideKinds) : [query EXCEPT !.kind = "pickup"] \in QueriesOf(RideKinds)
    BY DEF QueriesOf, RideKinds
  <1>4. Query("dropoff", TRUE, street, first) \in QueriesOf(RideKinds) BY DEF Query, QueriesOf, RideKinds
  <1>5. Query("dropoff", TRUE, street, first).kind = "dropoff" BY DEF Query
  <1> QED BY <1>2, <1>3, <1>4, <1>5

LEMMA RideSearchesAre ==
    ASSUME NEW q, q.modes \in Seq(Range(q.modes)), q.num \in Nat
    PROVE  /\ RideSearches(q) \in Seq(QueriesOf(RideKinds))
           /\ OnDemand(q) /\ Feeds(q) =>
                LET i == IF q.near THEN 2 ELSE 1
                IN  i <= Len(RideSearches(q)) /\ RideSearches(q)[i].kind = "dropoff"
           /\ ParkSearches(q) \in Seq(QueriesOf(RideKinds))
           /\ OwnDropOff(q) => Len(ParkSearches(q)) = 1 /\ ParkSearches(q)[1].kind = "dropoff"
           /\ ~OwnDropOff(q) => Len(ParkSearches(q)) = 0
           /\ DirectSearches(q) \in Seq(QueriesOf({"direct"}))
  <1> DEFINE Q == QueriesOf(RideKinds)
             near == IF q.near THEN <<Query("ride", FALSE, <<"CAR">>, 1)>> ELSE <<>>
             drop == DropOff(q)
             pick == [drop EXCEPT !.kind = "pickup"]
             feeds == IF Feeds(q) THEN <<drop, pick>> ELSE <<>>
             rides == near \o feeds
             i == IF q.near THEN 2 ELSE 1
  <1>1. RideSearches(q) = IF ~OnDemand(q) THEN <<>> ELSE rides BY DEF RideSearches
  <1>2. <<>> \in Seq(Q) OBVIOUS
  <1>3. drop \in Q /\ pick \in Q /\ drop.kind = "dropoff" BY DropOffIs
  <1>4. near \in Seq(Q) /\ Len(near) = (IF q.near THEN 1 ELSE 0)
    <2>1. PICK query \in Q : query = Query("ride", FALSE, <<"CAR">>, 1)
      <3>1. <<"CAR">> \in Streets
        <4>1. "CAR" \in Street BY DEF Street
        <4> QED BY <4>1, StreetsWith
      <3>2. 1 \in Nat /\ "ride" \in RideKinds BY DEF RideKinds
      <3> QED BY <3>1, <3>2, QueryIs
    <2> HIDE DEF Q
    <2>2. CASE q.near
      <3>1. near = <<query>> BY <2>1, <2>2
      <3> HIDE DEF near
      <3> QED BY <2>2, <3>1
    <2>3. CASE ~q.near
      <3>1. near = <<>> BY <2>3
      <3> HIDE DEF near
      <3> QED BY <2>3, <3>1
    <2> QED BY <2>2, <2>3
  <1> HIDE DEF drop, pick, near, Q
  <1>5. feeds \in Seq(Q) /\ (Feeds(q) => Len(feeds) = 2 /\ feeds[1] = drop) BY <1>2, <1>3
  <1> HIDE DEF feeds
  <1>6. /\ rides \in Seq(Q) /\ Len(rides) = Len(near) + Len(feeds)
        /\ \A k \in 1 .. Len(near) + Len(feeds) : rides[k] = IF k <= Len(near) THEN near[k] ELSE feeds[k - Len(near)]
    BY <1>4, <1>5, ConcatProperties
  <1> HIDE DEF rides
  <1>7. RideSearches(q) \in Seq(Q) BY <1>1, <1>2, <1>6
  <1>8. ASSUME OnDemand(q), Feeds(q) PROVE i <= Len(RideSearches(q)) /\ RideSearches(q)[i].kind = "dropoff"
    <2>1. Len(near) \in Nat /\ i = Len(near) + 1 BY <1>4
    <2>2. PICK n \in Nat : n = Len(near) BY <2>1
    <2>3. Len(feeds) = 2 /\ feeds[1] = drop BY <1>5, <1>8
    <2>4. Len(rides) = n + 2 /\ \A k \in 1 .. n + 2 : rides[k] = IF k <= n THEN near[k] ELSE feeds[k - n] BY <1>6, <2>2, <2>3
    <2>5. rides[n + 1] = feeds[n + 1 - n]
      <3>1. n + 1 \in 1 .. n + 2 /\ ~(n + 1 <= n) BY <2>2
      <3> QED BY <2>4, <3>1
    <2>6. n + 1 - n = 1 /\ n + 1 <= n + 2 BY <2>2
    <2>7. rides[i] = drop /\ i <= Len(rides) BY <2>1, <2>2, <2>3, <2>4, <2>5, <2>6
    <2> QED BY <1>1, <1>3, <1>8, <2>7
  <1>9. ParkSearches(q) \in Seq(Q) BY <1>2, <1>3 DEF ParkSearches, drop
  <1>10. OwnDropOff(q) => Len(ParkSearches(q)) = 1 /\ ParkSearches(q)[1].kind = "dropoff" BY <1>3 DEF ParkSearches, drop
  <1>11. ~OwnDropOff(q) => Len(ParkSearches(q)) = 0 BY DEF ParkSearches
  <1>12. DirectSearches(q) \in Seq(QueriesOf({"direct"}))
    <2> DEFINE none == <<>>
               D == {"direct"}
    <2>1. \A m \in Street : none \o <<m>> \in Streets BY StreetsWith
    <2>2. "direct" \in D /\ 1 \in Nat /\ FALSE \in BOOLEAN OBVIOUS
    <2> HIDE DEF none, D
    <2>3. Extra(q) \in Seq(Street) BY ModesAre
    <2>4. QueryPer("direct", FALSE, Extra(q), none, 1) \in Seq(QueriesOf(D)) BY <2>1, <2>2, <2>3, QueriesPer
    <2> QED BY <2>4 DEF DirectSearches, none, D
  <1> QED BY <1>7, <1>8, <1>9, <1>10, <1>11, <1>12 DEF Q, i

\* Where each part of the searches is.
AllKinds == {"primary", "companion"} \cup RideKinds \cup {"direct"}
Laid(q, s) ==
    LET b == Len(BaseSearches(q))
        r == Len(RideSearches(q))
        p == Len(ParkSearches(q))
    IN  /\ s \in Seq(QueriesOf(AllKinds)) /\ b \in Nat \ {0} /\ r \in Nat /\ p \in Nat
        /\ b + r + p <= Len(s)
        /\ \A i \in 1 .. b : s[i].kind \in {"primary", "companion"}
        /\ \A i \in b + 1 .. b + r + p : s[i].kind \in RideKinds
        /\ \A i \in b + r + p + 1 .. Len(s) : s[i].kind = "direct"
        /\ \A i \in 1 .. r : s[b + i] = RideSearches(q)[i]
        /\ \A i \in 1 .. p : s[b + r + i] = ParkSearches(q)[i]
        /\ Len(BaseSearches(q) \o RideSearches(q)) = b + r
        /\ Len(BaseSearches(q) \o RideSearches(q) \o ParkSearches(q)) = b + r + p

LEMMA QueriesWiden ==
    ASSUME NEW K, NEW L, K \subseteq L PROVE Seq(QueriesOf(K)) \subseteq Seq(QueriesOf(L))
  <1>1. QueriesOf(K) \subseteq QueriesOf(L) BY DEF QueriesOf
  <1> QED BY <1>1, SeqMonotonic

LEMMA SearchesLaid ==
    ASSUME NEW q, q.modes \in Seq(Range(q.modes)), q.num \in Nat
    PROVE  Laid(q, SearchesOf(q))
  <1> DEFINE Q == QueriesOf(AllKinds)
             B == BaseSearches(q)
             R == RideSearches(q)
             P == ParkSearches(q)
             D == DirectSearches(q)
             b == Len(B)
             r == Len(R)
             p == Len(P)
             x == B \o R
             y == x \o P
             s == y \o D
  <1>1. SearchesOf(q) = s BY DEF SearchesOf
  <1>2. /\ \A i \in 1 .. b : B[i].kind \in {"primary", "companion"}
        /\ \A i \in 1 .. r : R[i].kind \in RideKinds
        /\ \A i \in 1 .. p : P[i].kind \in RideKinds
        /\ \A i \in 1 .. Len(D) : D[i].kind = "direct"
        /\ B # <<>>
    <2>1. B \in Seq(QueriesOf({"primary", "companion"})) /\ B # <<>> BY BaseSearchesAre
    <2>2. R \in Seq(QueriesOf(RideKinds)) /\ P \in Seq(QueriesOf(RideKinds)) /\ D \in Seq(QueriesOf({"direct"}))
      BY RideSearchesAre
    <2>3. \A kinds : \A query \in QueriesOf(kinds) : query.kind \in kinds BY DEF QueriesOf
    <2>4. \A i \in 1 .. b : B[i] \in QueriesOf({"primary", "companion"}) BY <2>1
    <2>5. /\ \A i \in 1 .. r : R[i] \in QueriesOf(RideKinds)
          /\ \A i \in 1 .. p : P[i] \in QueriesOf(RideKinds)
          /\ \A i \in 1 .. Len(D) : D[i] \in QueriesOf({"direct"})
      BY <2>2
    <2> HIDE DEF B, R, P, D
    <2>6. \A i \in 1 .. Len(D) : D[i].kind \in {"direct"} BY <2>3, <2>5
    <2> QED BY <2>1, <2>3, <2>4, <2>5, <2>6
  <1>3. B \in Seq(Q) /\ R \in Seq(Q) /\ P \in Seq(Q) /\ D \in Seq(Q)
    <2>1. Seq(QueriesOf({"primary", "companion"})) \subseteq Seq(Q) BY QueriesWiden DEF AllKinds
    <2>2. Seq(QueriesOf(RideKinds)) \subseteq Seq(Q) BY QueriesWiden DEF AllKinds
    <2>3. Seq(QueriesOf({"direct"})) \subseteq Seq(Q) BY QueriesWiden DEF AllKinds
    <2> HIDE DEF Q
    <2> QED BY <2>1, <2>2, <2>3, BaseSearchesAre, RideSearchesAre
  <1> HIDE DEF Q, B, R, P, D
  <1>4. b \in Nat \ {0} /\ r \in Nat /\ p \in Nat /\ Len(D) \in Nat BY <1>2, <1>3
  <1>5. x \in Seq(Q) /\ Len(x) = b + r /\ \A i \in 1 .. b + r : x[i] = IF i <= b THEN B[i] ELSE R[i - b]
    BY <1>3, ConcatProperties
  <1> HIDE DEF x
  <1>6. y \in Seq(Q) /\ Len(y) = b + r + p /\ \A i \in 1 .. b + r + p : y[i] = IF i <= b + r THEN x[i] ELSE P[i - (b + r)]
    <2>1. x \in Seq(Q) /\ P \in Seq(Q) BY <1>3, <1>5
    <2>2. y \in Seq(Q) /\ Len(y) = Len(x) + Len(P)
          /\ \A i \in 1 .. Len(x) + Len(P) : y[i] = IF i <= Len(x) THEN x[i] ELSE P[i - Len(x)]
      BY <2>1, ConcatProperties
    <2> HIDE DEF y, b, r
    <2>3. Len(x) = b + r BY <1>5
    <2> QED BY <2>2, <2>3
  <1> HIDE DEF y
  <1>7. s \in Seq(Q) /\ Len(s) = b + r + p + Len(D)
        /\ \A i \in 1 .. b + r + p + Len(D) : s[i] = IF i <= b + r + p THEN y[i] ELSE D[i - (b + r + p)]
    <2>0. y \in Seq(Q) /\ D \in Seq(Q) BY <1>3, <1>6
    <2>1. s \in Seq(Q) /\ Len(s) = Len(y) + Len(D)
          /\ \A i \in 1 .. Len(y) + Len(D) : s[i] = IF i <= Len(y) THEN y[i] ELSE D[i - Len(y)]
      BY <2>0, ConcatProperties
    <2> HIDE DEF s, b, r, p
    <2>2. Len(y) = b + r + p BY <1>6
    <2> QED BY <1>6, <2>1, <2>2
  <1> HIDE DEF s
  <1>8. \A i \in 1 .. b : s[i] = B[i]
    <2> HIDE DEF b, r, p
    <2> QED BY <1>4, <1>5, <1>6, <1>7
  <1>9. \A i \in 1 .. r : s[b + i] = R[i]
    <2> HIDE DEF b, r, p
    <2> SUFFICES ASSUME NEW i \in 1 .. r PROVE s[b + i] = R[i] OBVIOUS
    <2>1. b + i \in 1 .. b + r /\ ~(b + i <= b) /\ (b + i) - b = i BY <1>4
    <2>2. b + i \in 1 .. b + r + p /\ b + i <= b + r /\ b + i \in 1 .. b + r + p + Len(D) /\ b + i <= b + r + p BY <1>4
    <2> QED BY <1>5, <1>6, <1>7, <2>1, <2>2
  <1>10. \A i \in 1 .. p : s[b + r + i] = P[i]
    <2> HIDE DEF b, r, p
    <2> SUFFICES ASSUME NEW i \in 1 .. p PROVE s[b + r + i] = P[i] OBVIOUS
    <2>1. b + r + i \in 1 .. b + r + p /\ ~(b + r + i <= b + r) /\ (b + r + i) - (b + r) = i BY <1>4
    <2>2. b + r + i \in 1 .. b + r + p + Len(D) /\ b + r + i <= b + r + p BY <1>4
    <2> QED BY <1>6, <1>7, <2>1, <2>2
  <1>11. \A i \in b + r + p + 1 .. Len(s) : s[i].kind = "direct"
    <2> HIDE DEF b, r, p
    <2> SUFFICES ASSUME NEW i \in b + r + p + 1 .. Len(s) PROVE s[i].kind = "direct" OBVIOUS
    <2>1. i \in 1 .. b + r + p + Len(D) /\ ~(i <= b + r + p) /\ i - (b + r + p) \in 1 .. Len(D) BY <1>4, <1>7
    <2> QED BY <1>2, <1>7, <2>1
  <1>12. \A i \in b + 1 .. b + r + p : s[i].kind \in RideKinds
    <2> SUFFICES ASSUME NEW i \in b + 1 .. b + r + p PROVE s[i].kind \in RideKinds OBVIOUS
    <2>1. CASE i <= b + r
      <3> HIDE DEF b, p
      <3>1. i - b \in 1 .. r /\ b + (i - b) = i BY <1>4, <2>1
      <3> QED BY <1>2, <1>9, <3>1
    <2>2. CASE ~(i <= b + r)
      <3> HIDE DEF b, r
      <3>1. i - (b + r) \in 1 .. p /\ b + r + (i - (b + r)) = i BY <1>4, <2>2
      <3> QED BY <1>2, <1>10, <3>1
    <2> QED BY <2>1, <2>2
  <1>13. b + r + p <= Len(s)
    <2> HIDE DEF b, r, p
    <2> QED BY <1>4, <1>7
  <1>14. \A i \in 1 .. b : s[i].kind \in {"primary", "companion"} BY <1>2, <1>8
  <1>15. Laid(q, s)
    BY <1>4, <1>5, <1>6, <1>7, <1>9, <1>10, <1>11, <1>12, <1>13, <1>14 DEF Laid, Q, B, R, P, x, y
  <1> QED BY <1>1, <1>15

-----------------------------------------------------------------------------
\* What the router is asked, and what it may have answered.
Answers(queries, lists) ==
    /\ lists \in Seq(Seq(RouterRows)) /\ Len(lists) = Len(queries)
    /\ \A k \in 1 .. Len(lists) : \E its \in Found(queries[k]) : lists[k] = FirstOf(its, queries[k].first)

Grown(A, queries, i) == {Append(a, FirstOf(its, queries[i].first)) : a \in A, its \in Found(queries[i])}
AsksAll(f, queries) == f = [i \in 0 .. Len(queries) |-> IF i = 0 THEN {<<>>} ELSE Grown(f[i - 1], queries, i)]
AnswersUpTo(queries) == CHOOSE f : AsksAll(f, queries)

LEMMA AnswersAre ==
    ASSUME NEW queries, Len(queries) \in Nat,
           \A i \in 1 .. Len(queries) : queries[i].first \in Nat /\ \A its \in Found(queries[i]) : its \in Seq(RouterRows),
           NEW lists \in AnswersTo(queries)
    PROVE  Answers(queries, lists)
  <1> DEFINE n == Len(queries)
             L == Seq(Seq(RouterRows))
             T == SUBSET L
             g == [i \in 1 .. n |-> [A \in T |-> Grown(A, queries, i)]]
  <1>1. n \in Nat /\ {<<>>} \in T OBVIOUS
  <1>2. \A i \in 1 .. n : \A its \in Found(queries[i]) : FirstOf(its, queries[i].first) \in Seq(RouterRows) BY FirstOnes
  <1>3. ASSUME NEW i \in 1 .. n, NEW A \in T PROVE Grown(A, queries, i) \in T
    <2>1. ASSUME NEW x \in Grown(A, queries, i) PROVE x \in L
      <3>1. PICK a \in A, its \in Found(queries[i]) : x = Append(a, FirstOf(its, queries[i].first)) BY DEF Grown
      <3>0. FirstOf(its, queries[i].first) \in Seq(RouterRows) BY <1>2
      <3>2. PICK e \in Seq(RouterRows) : e = FirstOf(its, queries[i].first) BY <3>0
      <3>3. a \in Seq(Seq(RouterRows)) OBVIOUS
      <3> QED BY <3>1, <3>2, <3>3
    <2> HIDE DEF L
    <2> QED BY <2>1
  <1>4. g \in [1 .. n -> [T -> T]]
    <2> HIDE DEF T, n
    <2> QED BY <1>3
  <1>5. \E f : AsksAll(f, queries)
    <2>1. PICK f \in [0 .. n -> T] : IsLoop(f, {<<>>}, g, n)
      <3> HIDE DEF g, n, T
      <3> QED BY <1>1, <1>4, LoopExists
    <2>2. \A i \in 0 .. n : i # 0 => g[i][f[i - 1]] = Grown(f[i - 1], queries, i)
      <3> HIDE DEF T
      <3> SUFFICES ASSUME NEW i \in 0 .. n, i # 0 PROVE g[i][f[i - 1]] = Grown(f[i - 1], queries, i) OBVIOUS
      <3>1. i \in 1 .. n /\ f[i - 1] \in T BY <1>1
      <3> QED BY <3>1
    <2> HIDE DEF g
    <2>3. [i \in 0 .. n |-> IF i = 0 THEN {<<>>} ELSE g[i][f[i - 1]]] = [i \in 0 .. n |-> IF i = 0 THEN {<<>>} ELSE Grown(f[i - 1], queries, i)]
      BY <2>2
    <2>4. AsksAll(f, queries) BY <2>1, <2>3 DEF IsLoop, AsksAll
    <2> QED BY <2>4
  <1> DEFINE f == AnswersUpTo(queries)
  <1>6. AnswersTo(queries) = f[n] BY DEF AnswersTo, AnswersUpTo, AsksAll, Grown
  <1>7. AsksAll(f, queries) BY <1>5, Zenon DEF AnswersUpTo
  <1> HIDE DEF f
  <1>8. f[0] = {<<>>} /\ \A i \in 1 .. n : f[i] = Grown(f[i - 1], queries, i)
    <2>1. f = [i \in 0 .. n |-> IF i = 0 THEN {<<>>} ELSE Grown(f[i - 1], queries, i)] BY <1>7 DEF AsksAll
    <2> HIDE DEF n
    <2>2. 0 \in 0 .. n /\ \A i \in 1 .. n : i \in 0 .. n /\ i # 0 BY <1>1
    <2> QED BY <2>1, <2>2
  <1> DEFINE Built(a, m) == /\ a \in L /\ Len(a) = m
                          /\ \A k \in 1 .. m : \E its \in Found(queries[k]) : a[k] = FirstOf(its, queries[k].first)
             Q == {m \in Nat : m <= n => \A a \in f[m] : Built(a, m)}
  <1>9. 0 \in Q
    <2>1. Built(<<>>, 0) OBVIOUS
    <2>2. \A a \in f[0] : a = <<>> BY <1>8
    <2> HIDE DEF Built
    <2> QED BY <2>1, <2>2
  <1>10. ASSUME NEW m \in Nat, m \in Q PROVE m + 1 \in Q
    <2> SUFFICES ASSUME m + 1 <= n, NEW x \in f[m + 1] PROVE Built(x, m + 1)
      <3> HIDE DEF Built, L, T, n
      <3> QED OBVIOUS
    <2>1. m + 1 \in 1 .. n /\ (m + 1) - 1 = m /\ m <= n BY <1>1
    <2>2. f[m + 1] = Grown(f[m], queries, m + 1)
      <3> HIDE DEF n
      <3> QED BY <1>8, <2>1
    <2>3. PICK a \in f[m], its \in Found(queries[m + 1]) : x = Append(a, FirstOf(its, queries[m + 1].first)) BY <2>2 DEF Grown
    <2>4. Built(a, m) BY <1>10, <2>1
    <2>5. PICK e \in Seq(RouterRows) : e = FirstOf(its, queries[m + 1].first) BY <1>2, <2>1
    <2>6. x \in L /\ Len(x) = m + 1 /\ x[m + 1] = e /\ \A k \in 1 .. m : x[k] = a[k] BY <2>3, <2>4, <2>5, AppendProperties
    <2> HIDE DEF L
    <2>7. ASSUME NEW k \in 1 .. m + 1 PROVE \E t \in Found(queries[k]) : x[k] = FirstOf(t, queries[k].first)
      <3>1. CASE k = m + 1 BY <2>5, <2>6, <3>1
      <3>2. CASE k # m + 1
        <4>1. k \in 1 .. m BY <3>2
        <4> QED BY <2>4, <2>6, <4>1
      <3> QED BY <3>1, <3>2
    <2> QED BY <2>6, <2>7
  <1> HIDE DEF Q
  <1>11. n \in Q BY <1>1, <1>9, <1>10, Induction
  <1>12. Built(lists, n) BY <1>6, <1>11 DEF Q
  <1> QED BY <1>12 DEF Answers

LEMMA ToldIs ==
    ASSUME NEW lists, Len(lists) \in Nat, DOMAIN lists = 1 .. Len(lists)
    PROVE  Told(lists) \in Seq(Range(Told(lists))) /\ Len(Told(lists)) = Len(lists)
  <1> DEFINE t == Told(lists)
             n == Len(lists)
  <1>1. DOMAIN t = 1 .. n /\ t = [i \in 1 .. n |-> t[i]] BY DEF Told
  <1> HIDE DEF t
  <1>2. t \in [1 .. n -> Range(t)] BY <1>1 DEF Range
  <1> QED BY <1>2, IsList DEF t

LEMMA StreetsAreOne ==
    ASSUME NEW street \in Streets
    PROVE  /\ Count(street, LAMBDA m : m \in Rentals) <= 1
           /\ Count(street, LAMBDA m : m \notin Rentals) <= 1
  <1> DEFINE a == {i \in DOMAIN street : street[i] \in Rentals}
             b == {i \in DOMAIN street : street[i] \notin Rentals}
  <1>1. Street \cap Rentals = {} BY DEF Street, Rentals
  <1>2. a \subseteq {2} /\ b \subseteq {1}
    <2>1. CASE \E m \in Street : street = <<m>> BY <1>1, <2>1
    <2>2. CASE \E m \in Street, r \in Rentals : street = <<m, r>> BY <1>1, <2>2
    <2> QED BY <2>1, <2>2 DEF Streets
  <1> HIDE DEF a, b
  <1>3. IsFiniteSet({1}) /\ Cardinality({1}) = 1 /\ IsFiniteSet({2}) /\ Cardinality({2}) = 1 BY FS_Singleton
  <1>4. Cardinality(a) <= 1 /\ Cardinality(b) <= 1
    <2>1. a \in SUBSET {2} /\ b \in SUBSET {1} BY <1>2
    <2>2. Cardinality(a) <= Cardinality({2}) BY <1>3, <2>1, FS_Subset
    <2>3. Cardinality(b) <= Cardinality({1}) BY <1>3, <2>1, FS_Subset
    <2> QED BY <1>3, <2>2, <2>3
  <1> QED BY <1>4 DEF Count, a, b

\* A request that shares its park-and-ride search with the taxi's makes that one.
LEMMA ParkIsADropOff ==
    ASSUME NEW q, q.modes \in Seq(Range(q.modes)), q.num \in Nat, NEW s, Laid(q, s), ParkRide(q)
    PROVE  ParkAt(q) \in DOMAIN s /\ s[ParkAt(q)].kind = "dropoff"
  <1>1. PICK b \in Nat, r \in Nat, p \in Nat : b = Len(BaseSearches(q)) /\ r = Len(RideSearches(q)) /\ p = Len(ParkSearches(q))
    BY DEF Laid
  <1>2. /\ DOMAIN s = 1 .. Len(s) /\ Len(s) \in Nat /\ b + r + p <= Len(s)
        /\ \A i \in 1 .. r : s[b + i] = RideSearches(q)[i]
        /\ \A i \in 1 .. p : s[b + r + i] = ParkSearches(q)[i]
        /\ Len(BaseSearches(q) \o RideSearches(q)) = b + r
    <2>1. s \in Seq(QueriesOf(AllKinds)) BY DEF Laid
    <2>2. DOMAIN s = 1 .. Len(s) /\ Len(s) \in Nat BY <2>1
    <2> QED BY <1>1, <2>2 DEF Laid
  <1>3. CASE SharesDropOff(q)
    <2>1. OnDemand(q) /\ Feeds(q) BY <1>3 DEF SharesDropOff, Feeds, ParkRide
    <2>2. PICK i \in {1, 2} : i = (IF q.near THEN 2 ELSE 1) OBVIOUS
    <2>3. i <= r /\ RideSearches(q)[i].kind = "dropoff" BY <1>1, <2>1, <2>2, RideSearchesAre
    <2>4. ParkAt(q) = b + i BY <1>1, <1>3, <2>2 DEF ParkAt, RidesFrom
    <2>5. b + i \in 1 .. Len(s) /\ i \in 1 .. r BY <1>2, <2>2, <2>3
    <2> QED BY <1>2, <2>3, <2>4, <2>5
  <1>4. CASE ~SharesDropOff(q)
    <2>1. OwnDropOff(q) BY <1>4 DEF OwnDropOff
    <2>2. p = 1 /\ ParkSearches(q)[1].kind = "dropoff" BY <1>1, <2>1, RideSearchesAre
    <2>3. ParkAt(q) = b + r + 1 BY <1>2, <1>4 DEF ParkAt
    <2>4. b + r + 1 \in 1 .. Len(s) /\ 1 \in 1 .. p BY <1>2, <2>2
    <2> QED BY <1>2, <2>2, <2>3, <2>4
  <1> QED BY <1>3, <1>4

LEMMA RidesCounted ==
    ASSUME NEW q, NEW s, Laid(q, s)
    PROVE  Count(s, LAMBDA x : x.kind \in {"ride", "dropoff", "pickup"}) = Len(RideSearches(q)) + Len(ParkSearches(q))
  <1> DEFINE a == {i \in DOMAIN s : s[i].kind \in {"ride", "dropoff", "pickup"}}
  <1>1. PICK b \in Nat, r \in Nat, p \in Nat : b = Len(BaseSearches(q)) /\ r = Len(RideSearches(q)) /\ p = Len(ParkSearches(q))
    BY DEF Laid
  <1>2. /\ DOMAIN s = 1 .. Len(s) /\ Len(s) \in Nat /\ b + r + p <= Len(s)
        /\ \A i \in 1 .. b : s[i].kind \in {"primary", "companion"}
        /\ \A i \in b + 1 .. b + r + p : s[i].kind \in RideKinds
        /\ \A i \in b + r + p + 1 .. Len(s) : s[i].kind = "direct"
    <2>1. s \in Seq(QueriesOf(AllKinds)) BY DEF Laid
    <2>2. DOMAIN s = 1 .. Len(s) /\ Len(s) \in Nat BY <2>1
    <2> QED BY <1>1, <2>2 DEF Laid
  <1>3. a = b + 1 .. b + r + p
    <2>1. \A i \in b + 1 .. b + r + p : i \in a BY <1>2 DEF RideKinds
    <2>2. ASSUME NEW i \in a PROVE i \in b + 1 .. b + r + p
      <3>1. i \in 1 .. Len(s) /\ s[i].kind \notin {"primary", "companion", "direct"} BY <1>2
      <3>2. i \notin 1 .. b /\ i \notin b + r + p + 1 .. Len(s) BY <1>2, <3>1
      <3> QED BY <1>2, <3>1, <3>2
    <2> QED BY <2>1, <2>2
  <1>4. b + 1 \in Int /\ b + r + p \in Int OBVIOUS
  <1>5. Cardinality(a) = IF b + 1 > b + r + p THEN 0 ELSE b + r + p - (b + 1) + 1
    <2> HIDE DEF a
    <2> QED BY <1>3, <1>4, FS_Interval
  <1> HIDE DEF a
  <1>6. Cardinality(a) = r + p BY <1>1, <1>5
  <1> QED BY <1>1, <1>6 DEF Count, a

\* What the taxi's merge is given: the rows of its searches, at their places.
RideRows(T, q, f, n) ==
    LET upto == SubSeq(f, RidesFrom(q), DirectFrom(q) - 1)
        them == IF OwnDropOff(q) THEN RemoveAt(upto, ParkAt(q) - RidesFrom(q) + 1) ELSE upto
    IN  them \in Seq(T) /\ Len(them) = n /\ \A k \in DOMAIN them : k \in 1 .. n /\ them[k] = f[RidesFrom(q) + k - 1]

LEMMA RideRowsAre ==
    ASSUME NEW q, q.modes \in Seq(Range(q.modes)), q.num \in Nat, NEW s, Laid(q, s),
           NEW T, NEW f \in Seq(T), Len(f) = Len(s), NEW n, n = Len(RideSearches(q))
    PROVE  n \in Nat /\ RideRows(T, q, f, IF OwnDropOff(q) THEN n ELSE n + Len(ParkSearches(q)))
  <1>1. PICK b \in Nat, p \in Nat : b = Len(BaseSearches(q)) /\ p = Len(ParkSearches(q)) /\ n \in Nat
    BY DEF Laid
  <1>2. /\ Len(f) \in Nat /\ b + n + p <= Len(f)
        /\ Len(BaseSearches(q) \o RideSearches(q)) = b + n
        /\ Len(BaseSearches(q) \o RideSearches(q) \o ParkSearches(q)) = b + n + p
    BY <1>1 DEF Laid
  <1>3. RidesFrom(q) = b + 1 /\ DirectFrom(q) = b + n + p + 1 BY <1>1, <1>2 DEF RidesFrom, DirectFrom
  <1> DEFINE upto == SubSeq(f, b + 1, b + n + p)
  <1>4. /\ upto \in Seq(T) /\ Len(upto) = n + p
        /\ \A i \in 1 .. n + p : upto[i] = f[b + i]
    <2>1. PICK u \in Int, v \in Int : u = b + 1 /\ v = b + n + p OBVIOUS
    <2>2. \A i \in u .. v : f[i] \in T BY <1>2, <2>1
    <2>3. upto = SubSeq(f, u, v) BY <2>1
    <2> HIDE DEF upto
    <2>4. /\ SubSeq(f, u, v) \in Seq(T) /\ Len(SubSeq(f, u, v)) = (IF u <= v THEN v - u + 1 ELSE 0)
          /\ \A i \in 1 .. v - u + 1 : SubSeq(f, u, v)[i] = f[u + i - 1]
      BY <2>2, SubSeqProperties
    <2>5. v - u + 1 = n + p /\ (IF u <= v THEN v - u + 1 ELSE 0) = n + p BY <1>1, <2>1
    <2>6. \A i \in 1 .. n + p : u + i - 1 = b + i BY <2>1
    <2> QED BY <2>3, <2>4, <2>5, <2>6
  <1>5. SubSeq(f, RidesFrom(q), DirectFrom(q) - 1) = upto
    <2>1. b + n + p + 1 - 1 = b + n + p OBVIOUS
    <2> QED BY <1>3, <2>1
  <1> HIDE DEF upto
  <1>6. \A k \in Int : RidesFrom(q) + k - 1 = b + k BY <1>3
  <1>7. CASE ~OwnDropOff(q)
    <2>1. \A k \in DOMAIN upto : k \in 1 .. n + p /\ k \in Int BY <1>4
    <2>2. RideRows(T, q, f, n + p) BY <1>4, <1>5, <1>6, <1>7, <2>1 DEF RideRows
    <2> QED BY <1>1, <1>7, <2>2
  <1>8. CASE OwnDropOff(q)
    <2>1. p = 1 BY <1>1, <1>8, RideSearchesAre
    <2>2. ParkAt(q) - RidesFrom(q) + 1 = n + 1
      <3>1. ~SharesDropOff(q) BY <1>8 DEF OwnDropOff
      <3>2. ParkAt(q) = b + n + 1 BY <1>2, <3>1 DEF ParkAt
      <3> QED BY <1>1, <1>3, <3>2
    <2>0. PICK m \in Nat : m = n + 1 BY <1>1
    <2> DEFINE l == SubSeq(upto, 1, m - 1)
               e == SubSeq(upto, m + 1, Len(upto))
               them == l \o e
    <2>3. RemoveAt(upto, n + 1) = them BY <2>0, Zenon DEF RemoveAt
    <2>4. l \in Seq(T) /\ Len(l) = n /\ \A k \in 1 .. n : l[k] = f[b + k]
      <3>1. m - 1 = n BY <1>1, <2>0
      <3>2. 1 \in Int /\ n \in Int /\ \A i \in 1 .. n : upto[i] \in T /\ upto[i] = f[b + i] BY <1>1, <1>4
      <3> DEFINE d == SubSeq(upto, 1, n)
      <3>3. /\ d \in Seq(T) /\ Len(d) = (IF 1 <= n THEN n - 1 + 1 ELSE 0)
            /\ \A i \in 1 .. n - 1 + 1 : d[i] = upto[1 + i - 1]
        BY <3>2, SubSeqProperties
      <3> HIDE DEF d
      <3>4. Len(d) = n BY <1>1, <3>3
      <3>5. \A k \in 1 .. n : k \in 1 .. n - 1 + 1 /\ 1 + k - 1 = k BY <1>1
      <3>6. \A k \in 1 .. n : d[k] = f[b + k] BY <3>2, <3>3, <3>5
      <3> QED BY <3>1, <3>3, <3>4, <3>6 DEF d
    <2>5. e = <<>>
      <3>1. Len(upto) < m + 1 /\ m + 1 \in Int /\ Len(upto) \in Int BY <1>1, <1>4, <2>0, <2>1
      <3> QED BY <3>1, SubSeqEmpty
    <2> HIDE DEF l
    <2>6. them = l
      <3>1. l \o <<>> = l BY <2>4, ConcatEmptySeq
      <3> HIDE DEF e
      <3> QED BY <2>5, <3>1
    <2>7. \A k \in DOMAIN l : k \in 1 .. n /\ k \in Int BY <1>1, <2>4
    <2>8. RideRows(T, q, f, n) BY <1>5, <1>6, <1>8, <2>2, <2>3, <2>4, <2>6, <2>7 DEF RideRows
    <2> QED BY <1>1, <1>8, <2>8
  <1> QED BY <1>7, <1>8

-----------------------------------------------------------------------------
\* A request that was searched: its queries, and answers the router may give;
\* one that was answered: the merges of those, and the traffic.
Searched ==
    /\ searches = SearchesOf(asked) /\ parts = PartsOf(asked)
    /\ \E lists \in AnswersTo(searches) : found = Told(lists)
Finished == answer.its = AttachToPlan(ApplyWalkLimit(Merged.its, asked), asked)
PlanInv == /\ asked \in Asks
           /\ stage \in {"searched", "answered"} => Searched
           /\ stage = "answered" => Finished

LEMMA SameMerges == UNCHANGED <<asked, searches, parts, found>> => Merged' = Merged
  BY DEF Merged, BasePlans, RidePlans, DirectPlans

\* A request has the searches of its configuration, and answers to those.
LEMMA PlanInvariant == PlanSpec => []PlanInv
  <1>1. PlanInit => PlanInv BY DEF PlanInit, PlanInv
  <1>2. PlanInv /\ [PlanNext]_journey => PlanInv'
    <2> SUFFICES ASSUME PlanInv, [PlanNext]_journey PROVE PlanInv' OBVIOUS
    <2>1. CASE Refuse BY <2>1 DEF Refuse, PlanInv
    <2>2. CASE Search
      <3>1. asked' = asked /\ searches' = SearchesOf(asked) /\ parts' = PartsOf(asked) BY <2>2 DEF Search
      <3>2. CASE \E lists \in AnswersTo(searches') : found' = Told(lists) /\ stage' = "searched"
        <4>1. Searched' BY <3>1, <3>2 DEF Searched
        <4> QED BY <3>1, <3>2, <4>1 DEF PlanInv
      <3>3. CASE found' = <<>> /\ stage' = "refused" BY <3>1, <3>3 DEF PlanInv
      <3> QED BY <2>2, <3>2, <3>3 DEF Search
    <2>3. CASE Reply
      <3>1. stage = "searched" /\ UNCHANGED <<asked, searches, parts, found>>
            /\ answer'.its = AttachToPlan(ApplyWalkLimit(Merged.its, asked), asked)
        BY <2>3 DEF Reply
      <3>2. Searched' BY <3>1 DEF PlanInv, Searched
      <3>3. Finished' BY <3>1, SameMerges DEF Finished
      <3> QED BY <3>1, <3>2, <3>3 DEF PlanInv
    <2>4. CASE UNCHANGED journey
      <3>1. UNCHANGED <<asked, searches, parts, found, answer, stage>> BY <2>4 DEF journey
      <3>2. Searched => Searched' BY <3>1 DEF Searched
      <3>3. Finished => Finished' BY <3>1, SameMerges DEF Finished
      <3> QED BY <3>1, <3>2, <3>3 DEF PlanInv
    <2> QED BY <2>1, <2>2, <2>3, <2>4 DEF PlanNext
  <1> QED BY <1>1, <1>2, PTL DEF PlanSpec

\* Of a request that was searched: what was asked and what was found.
LEMMA SearchedIs ==
    ASSUME PlanInv, Searched
    PROVE  /\ asked.modes \in Seq(Range(asked.modes)) /\ asked.num \in Nat
           /\ Laid(asked, searches)
           /\ \E lists : Answers(searches, lists) /\ found = Told(lists)
           /\ found \in Seq(Range(found)) /\ Len(found) = Len(searches)
  <1>1. asked.modes \in Seq(Range(asked.modes)) /\ asked.num \in Nat BY AsksAssumption DEF PlanInv
  <1>2. searches = SearchesOf(asked) BY DEF Searched
  <1>3. Laid(asked, searches) BY <1>1, <1>2, SearchesLaid
  <1>4. searches \in Seq(QueriesOf(AllKinds)) BY <1>3 DEF Laid
  <1>5. Len(searches) \in Nat /\ DOMAIN searches = 1 .. Len(searches) BY <1>4
  <1>6. \A i \in 1 .. Len(searches) : searches[i].first \in Nat
    <2>1. \A i \in 1 .. Len(searches) : searches[i] \in QueriesOf(AllKinds) BY <1>4
    <2> QED BY <2>1 DEF QueriesOf
  <1>7. \A i \in 1 .. Len(searches) : \A its \in Found(searches[i]) : its \in Seq(RouterRows)
    BY <1>2, <1>5, RouterAssumption DEF PlanInv
  <1>8. PICK lists \in AnswersTo(searches) : found = Told(lists) BY DEF Searched
  <1>9. Answers(searches, lists) BY <1>5, <1>6, <1>7, AnswersAre
  <1>10. Len(lists) = Len(searches) /\ DOMAIN lists = 1 .. Len(lists) BY <1>9 DEF Answers
  <1>11. Told(lists) \in Seq(Range(Told(lists))) /\ Len(Told(lists)) = Len(lists) BY <1>5, <1>10, ToldIs
  <1> QED BY <1>1, <1>3, <1>8, <1>9, <1>10, <1>11

LEMMA PlanInvMatches == PlanInv => SearchesMatched
  <1> SUFFICES ASSUME PlanInv, stage \in {"searched", "answered"}
               PROVE  /\ Len(found) = Len(searches)
                      /\ \A i \in DOMAIN searches :
                            /\ i < parts.rides => searches[i].kind \in {"primary", "companion"}
                            /\ i >= parts.direct <=> searches[i].kind = "direct"
                            /\ Count(searches[i].street, LAMBDA m : m \in Rentals) <= 1
                            /\ Count(searches[i].street, LAMBDA m : m \notin Rentals) <= 1
                      /\ ParkRide(asked) => parts.park \in DOMAIN searches /\ searches[parts.park].kind = "dropoff"
                      /\ Len(RidePlans) = Count(searches, LAMBDA s : s.kind \in {"ride", "dropoff", "pickup"})
                                                    - (IF OwnDropOff(asked) THEN 1 ELSE 0)
                      /\ \A k \in DOMAIN RidePlans : RidePlans[k] = found[parts.rides + k - 1]
    BY DEF SearchesMatched
  <1>1. Searched BY DEF PlanInv
  <1>2. /\ asked.modes \in Seq(Range(asked.modes)) /\ asked.num \in Nat
        /\ Laid(asked, searches)
        /\ found \in Seq(Range(found)) /\ Len(found) = Len(searches)
    BY <1>1, SearchedIs
  <1>3. parts.rides = RidesFrom(asked) /\ parts.park = ParkAt(asked) /\ parts.direct = DirectFrom(asked)
    BY <1>1 DEF Searched, PartsOf
  <1>4. PICK b \in Nat, r \in Nat, p \in Nat :
          b = Len(BaseSearches(asked)) /\ r = Len(RideSearches(asked)) /\ p = Len(ParkSearches(asked))
    BY <1>2 DEF Laid
  <1>5. searches \in Seq(QueriesOf(AllKinds)) BY <1>2 DEF Laid
  <1>6. Len(searches) \in Nat /\ DOMAIN searches = 1 .. Len(searches)
        /\ \A i \in 1 .. Len(searches) : searches[i] \in QueriesOf(AllKinds)
    BY <1>5
  <1>7. /\ \A i \in 1 .. b : searches[i].kind \in {"primary", "companion"}
        /\ \A i \in b + 1 .. b + r + p : searches[i].kind \in RideKinds
        /\ \A i \in b + r + p + 1 .. Len(searches) : searches[i].kind = "direct"
        /\ Len(BaseSearches(asked) \o RideSearches(asked) \o ParkSearches(asked)) = b + r + p
    BY <1>2, <1>4 DEF Laid
  <1>8. parts.rides = b + 1 /\ parts.direct = b + r + p + 1 BY <1>3, <1>4, <1>7 DEF RidesFrom, DirectFrom
  <1>9. ASSUME NEW i \in DOMAIN searches
        PROVE  /\ i < parts.rides => searches[i].kind \in {"primary", "companion"}
               /\ i >= parts.direct <=> searches[i].kind = "direct"
    <2>1. i \in 1 .. Len(searches) /\ i \in Nat BY <1>6
    <2>2. CASE i \in 1 .. b
      <3>1. searches[i].kind \in {"primary", "companion"} BY <1>7, <2>2
      <3> QED BY <1>8, <2>2, <3>1
    <2>3. CASE i \in b + 1 .. b + r + p
      <3>1. searches[i].kind \in RideKinds BY <1>7, <2>3
      <3>2. searches[i].kind # "direct" BY <3>1 DEF RideKinds
      <3> QED BY <1>8, <2>3, <3>2
    <2>4. CASE i \in b + r + p + 1 .. Len(searches)
      <3>1. searches[i].kind = "direct" BY <1>7, <2>4
      <3> QED BY <1>8, <2>1, <2>4, <3>1
    <2> QED BY <2>1, <2>2, <2>3, <2>4
  <1>10. ASSUME NEW i \in DOMAIN searches PROVE searches[i].street \in Streets
    BY <1>6 DEF QueriesOf
  <1>11. ASSUME NEW i \in DOMAIN searches
         PROVE  /\ Count(searches[i].street, LAMBDA m : m \in Rentals) <= 1
                /\ Count(searches[i].street, LAMBDA m : m \notin Rentals) <= 1
    BY <1>10, StreetsAreOne
  <1>12. ParkRide(asked) => parts.park \in DOMAIN searches /\ searches[parts.park].kind = "dropoff"
    BY <1>2, <1>3, ParkIsADropOff
  <1> DEFINE n == IF OwnDropOff(asked) THEN r ELSE r + p
  <1>13. RideRows(Range(found), asked, found, n) BY <1>2, <1>4, RideRowsAre
  <1>14. Len(RidePlans) = n /\ \A k \in DOMAIN RidePlans : RidePlans[k] = found[parts.rides + k - 1]
    BY <1>3, <1>13 DEF RideRows, RidePlans
  <1>15. n = r + p - (IF OwnDropOff(asked) THEN 1 ELSE 0)
    <2>1. OwnDropOff(asked) => p = 1 BY <1>2, <1>4, RideSearchesAre
    <2> QED BY <2>1
  <1>16. Count(searches, LAMBDA s : s.kind \in {"ride", "dropoff", "pickup"}) = r + p BY <1>2, <1>4, RidesCounted
  <1>17. Len(RidePlans) = Count(searches, LAMBDA s : s.kind \in {"ride", "dropoff", "pickup"})
                                - (IF OwnDropOff(asked) THEN 1 ELSE 0)
    BY <1>14, <1>15, <1>16
  <1> QED BY <1>2, <1>9, <1>11, <1>12, <1>14, <1>17, Zenon

\* However the flags of a request combine, each merge is given the searches
\* meant for it, and no query names two rental modes or two plain ones.
THEOREM SearchesAreMatched == PlanSpec => []SearchesMatched
  BY PlanInvariant, PlanInvMatches, PTL
-----------------------------------------------------------------------------
(***************************************************************************)
(* A plan's rewriting. A leg is of any ride R; a taxi that feeds transit   *)
(* comes before all of it, as the router's searches give one at either end.*)
(***************************************************************************)
\* The same leg at other times.
Like(a, b) == a.mode = b.mode /\ a.ride = b.ride /\ a.transit = b.transit /\ a.parkRide = b.parkRide
Moved(a, b, by) == a.start = b.start + by /\ a.end = b.end + by /\ a.duration = b.duration /\ Like(a, b)

LEMMA ShiftIs ==
    ASSUME NEW R, NEW legs \in Seq(LegOf(R)), NEW which, NEW minutes \in Int
    PROVE  /\ Shift(legs, which, minutes) \in Seq(LegOf(R))
           /\ Len(Shift(legs, which, minutes)) = Len(legs)
           /\ \A i \in 1 .. Len(legs) :
                 Moved(Shift(legs, which, minutes)[i], legs[i], IF i \in which THEN minutes ELSE 0)
  <1> DEFINE s == Shift(legs, which, minutes)
  <1>1. DOMAIN legs = 1 .. Len(legs) /\ Len(legs) \in Nat /\ \A i \in 1 .. Len(legs) : legs[i] \in LegOf(R) OBVIOUS
  <1>2. s = [i \in 1 .. Len(legs) |-> IF i \in which
                   THEN [legs[i] EXCEPT !.start = @ + minutes, !.end = @ + minutes] ELSE legs[i]]
    BY <1>1 DEF Shift
  <1>3. ASSUME NEW l \in LegOf(R)
        PROVE  /\ [l EXCEPT !.start = @ + minutes, !.end = @ + minutes] \in LegOf(R)
               /\ Moved([l EXCEPT !.start = @ + minutes, !.end = @ + minutes], l, minutes)
               /\ Moved(l, l, 0)
    <2>1. PICK x \in Int, y \in Int : x = l.start + minutes /\ y = l.end + minutes
      <3>1. l.start \in Int /\ l.end \in Int BY DEF LegOf
      <3>2. l.start + minutes \in Int /\ l.end + minutes \in Int BY <3>1
      <3> QED BY <3>2
    <2>2. /\ [l EXCEPT !.start = x, !.end = y] \in LegOf(R)
          /\ [l EXCEPT !.start = x, !.end = y].start = x /\ [l EXCEPT !.start = x, !.end = y].end = y
          /\ [l EXCEPT !.start = x, !.end = y].duration = l.duration /\ Like([l EXCEPT !.start = x, !.end = y], l)
      BY DEF LegOf, Like
    <2>3. l.start + 0 = l.start /\ l.end + 0 = l.end
      <3>1. l.start \in Int /\ l.end \in Int BY DEF LegOf
      <3> QED BY <3>1
    <2> QED BY <2>1, <2>2, <2>3 DEF Moved, Like
  <1>4. \A i \in 1 .. Len(legs) : s[i] \in LegOf(R)
    <2> HIDE DEF s
    <2> QED BY <1>1, <1>2, <1>3
  <1>5. s \in [1 .. Len(legs) -> LegOf(R)]
    <2> HIDE DEF s
    <2> QED BY <1>1, <1>2, <1>4
  <1>6. s \in Seq(LegOf(R)) /\ Len(s) = Len(legs)
    <2> HIDE DEF s
    <2> QED BY <1>1, <1>5
  <1>7. ASSUME NEW i \in 1 .. Len(legs) PROVE Moved(s[i], legs[i], IF i \in which THEN minutes ELSE 0)
    <2>1. s[i] = IF i \in which THEN [legs[i] EXCEPT !.start = @ + minutes, !.end = @ + minutes] ELSE legs[i] BY <1>2
    <2> HIDE DEF s
    <2> QED BY <1>1, <1>3, <2>1
  <1> QED BY <1>6, <1>7

LEMMA SlowerIsWhole ==
    ASSUME NEW R, NEW leg \in LegOf(R) PROVE Slower(leg) \in Int
  <1>1. PICK d \in Int, f \in Int : d = leg.duration /\ f = Factor(leg.start)
    <2>1. leg.duration \in Int BY DEF LegOf
    <2>2. Factor(leg.start) \in Int BY BoundsAssumption DEF Factor
    <2> QED BY <2>1, <2>2
  <1>2. d * f + 50 \in Int OBVIOUS
  <1>3. (d * f + 50) \div 100 - d \in Int BY <1>2
  <1> QED BY <1>1, <1>3 DEF Slower

\* What one slower ride moves, leg by leg.
Back(i, k, feeds, by) == IF feeds THEN IF k <= i THEN -by ELSE 0 ELSE IF k > i THEN by ELSE 0
Forth(i, k, feeds, by) == IF feeds THEN IF k < i THEN -by ELSE 0 ELSE IF k >= i THEN by ELSE 0
LEMMA StretchedIs ==
    ASSUME NEW R, NEW O, NEW it \in ItineraryOf(R, O), NEW i \in 1 .. Len(it.legs), NEW feeds \in BOOLEAN,
           IsOnDemand(it.legs[i]), NEW by \in Int, by = Slower(it.legs[i]), by > 0
    PROVE  LET after == Stretched(it, i, feeds) IN
           /\ after \in ItineraryOf(R, O) /\ Len(after.legs) = Len(it.legs)
           /\ after.duration = it.duration + by
           /\ after.start = it.start - (IF feeds THEN by ELSE 0)
           /\ after.end = it.end + (IF feeds THEN 0 ELSE by)
           /\ after.of = it.of /\ after.source = it.source
           /\ \A k \in 1 .. Len(it.legs) :
                 /\ after.legs[k].start = it.legs[k].start + Back(i, k, feeds, by)
                 /\ after.legs[k].end = it.legs[k].end + Forth(i, k, feeds, by)
                 /\ after.legs[k].duration = it.legs[k].duration + (IF k = i THEN by ELSE 0)
                 /\ Like(after.legs[k], it.legs[k])
  <1> DEFINE n == Len(it.legs)
             leg == it.legs[i]
             which == IF feeds THEN 1 .. (i - 1) ELSE (i + 1) .. n
             moved == IF feeds THEN Shift(it.legs, 1 .. (i - 1), -by) ELSE Shift(it.legs, (i + 1) .. n, by)
             longer == [leg EXCEPT !.duration = @ + by, !.start = @ - (IF feeds THEN by ELSE 0),
                                   !.end = @ + (IF feeds THEN 0 ELSE by)]
             legs == [moved EXCEPT ![i] = longer]
             after == [it EXCEPT !.legs = legs, !.duration = @ + by,
                                 !.start = @ - (IF feeds THEN by ELSE 0), !.end = @ + (IF feeds THEN 0 ELSE by)]
  <1>1. Stretched(it, i, feeds) = after BY DEF Stretched
  <1>2. /\ it.legs \in Seq(LegOf(R)) /\ n \in Nat /\ i \in 1 .. n /\ leg \in LegOf(R)
        /\ \A k \in 1 .. n : it.legs[k] \in LegOf(R)
    BY DEF ItineraryOf
  <1>3. /\ moved \in Seq(LegOf(R)) /\ Len(moved) = n
        /\ \A k \in 1 .. n : Moved(moved[k], it.legs[k], IF k \in which THEN IF feeds THEN -by ELSE by ELSE 0)
    <2>1. moved = Shift(it.legs, which, IF feeds THEN -by ELSE by) OBVIOUS
    <2>2. PICK m \in Int : m = IF feeds THEN -by ELSE by OBVIOUS
    <2>3. PICK legs0 \in Seq(LegOf(R)) : legs0 = it.legs BY <1>2
    <2> HIDE DEF moved, which
    <2>4. moved = Shift(legs0, which, m) BY <2>1, <2>2, <2>3
    <2>5. /\ Shift(legs0, which, m) \in Seq(LegOf(R)) /\ Len(Shift(legs0, which, m)) = Len(legs0)
          /\ \A k \in 1 .. Len(legs0) : Moved(Shift(legs0, which, m)[k], legs0[k], IF k \in which THEN m ELSE 0)
      BY ShiftIs
    <2> QED BY <2>2, <2>3, <2>4, <2>5
  <1>4. /\ longer \in LegOf(R)
        /\ longer.start = leg.start - (IF feeds THEN by ELSE 0) /\ longer.end = leg.end + (IF feeds THEN 0 ELSE by)
        /\ longer.duration = leg.duration + by /\ Like(longer, leg)
    <2>1. leg.start \in Int /\ leg.end \in Int /\ leg.duration \in Int BY <1>2 DEF LegOf
    <2>2. PICK x \in Int, y \in Int, z \in Int :
             x = leg.start - (IF feeds THEN by ELSE 0) /\ y = leg.end + (IF feeds THEN 0 ELSE by) /\ z = leg.duration + by
      <3>1. \A s, e, d \in Int : s - (IF feeds THEN by ELSE 0) \in Int /\ e + (IF feeds THEN 0 ELSE by) \in Int /\ d + by \in Int
        OBVIOUS
      <3> HIDE DEF leg
      <3> QED BY <2>1, <3>1
    <2>3. longer = [leg EXCEPT !.duration = z, !.start = x, !.end = y] BY <2>2
    <2> HIDE DEF longer, leg
    <2>4. longer \in LegOf(R) /\ longer.start = x /\ longer.end = y /\ longer.duration = z /\ Like(longer, leg)
      BY <1>2, <2>3 DEF LegOf, Like
    <2> QED BY <2>2, <2>4
  <1>5. /\ legs \in Seq(LegOf(R)) /\ Len(legs) = n
        /\ \A k \in 1 .. n : legs[k] = IF k = i THEN longer ELSE moved[k]
    <2> PICK m \in Seq(LegOf(R)), l \in LegOf(R) : m = moved /\ l = longer BY <1>3, <1>4
    <2>1. Len(m) = n BY <1>3
    <2>2. legs = [m EXCEPT ![i] = l] OBVIOUS
    <2> HIDE DEF legs, longer, moved
    <2> QED BY <1>2, <2>1, <2>2
  <1>6. ASSUME NEW k \in 1 .. n
        PROVE  /\ legs[k].start = it.legs[k].start + Back(i, k, feeds, by)
               /\ legs[k].end = it.legs[k].end + Forth(i, k, feeds, by)
               /\ legs[k].duration = it.legs[k].duration + (IF k = i THEN by ELSE 0)
               /\ Like(legs[k], it.legs[k])
    <2>0. it.legs[k].start \in Int /\ it.legs[k].end \in Int /\ it.legs[k].duration \in Int BY <1>2, <1>6 DEF LegOf
    <2>1. CASE k = i
      <3>1. legs[k] = longer /\ it.legs[k] = leg BY <1>5, <2>1
      <3>2. /\ Back(i, k, feeds, by) = IF feeds THEN -by ELSE 0
            /\ Forth(i, k, feeds, by) = IF feeds THEN 0 ELSE by
        BY <1>2, <2>1 DEF Back, Forth
      <3>3. /\ longer.start = leg.start - (IF feeds THEN by ELSE 0) /\ longer.end = leg.end + (IF feeds THEN 0 ELSE by)
            /\ longer.duration = leg.duration + by /\ Like(longer, leg)
        BY <1>4
      <3>4. PICK x \in Int, y \in Int : x = leg.start /\ y = leg.end BY <2>0, <2>1
      <3> HIDE DEF legs, longer, leg
      <3>5. /\ legs[k].start = x - (IF feeds THEN by ELSE 0) /\ legs[k].end = y + (IF feeds THEN 0 ELSE by)
            /\ legs[k].duration = it.legs[k].duration + by /\ Like(legs[k], it.legs[k])
        BY <3>1, <3>3, <3>4
      <3>6. x - (IF feeds THEN by ELSE 0) = x + (IF feeds THEN -by ELSE 0) OBVIOUS
      <3> QED BY <2>1, <3>1, <3>2, <3>4, <3>5, <3>6
    <2>2. CASE k # i
      <3>1. legs[k] = moved[k] BY <1>5, <2>2
      <3>2. PICK d \in Int : d = (IF k \in which THEN IF feeds THEN -by ELSE by ELSE 0) OBVIOUS
      <3>3. Moved(moved[k], it.legs[k], d)
        <4> HIDE DEF moved, which
        <4> QED BY <1>3, <3>2
      <3>4. Back(i, k, feeds, by) = d /\ Forth(i, k, feeds, by) = d BY <1>2, <2>2, <3>2 DEF Back, Forth
      <3>5. it.legs[k].duration + 0 = it.legs[k].duration BY <2>0
      <3> HIDE DEF legs, moved
      <3> QED BY <2>2, <3>1, <3>3, <3>4, <3>5 DEF Moved
    <2> QED BY <2>1, <2>2
  <1>7. /\ after \in ItineraryOf(R, O) /\ after.legs = legs /\ after.of = it.of /\ after.source = it.source
        /\ after.duration = it.duration + by
        /\ after.start = it.start - (IF feeds THEN by ELSE 0)
        /\ after.end = it.end + (IF feeds THEN 0 ELSE by)
    <2>1. it.start \in Int /\ it.end \in Int /\ it.duration \in Int BY DEF ItineraryOf
    <2>2. PICK x \in Int, y \in Int, z \in Int :
             x = it.start - (IF feeds THEN by ELSE 0) /\ y = it.end + (IF feeds THEN 0 ELSE by) /\ z = it.duration + by
      <3>1. \A s, e, d \in Int : s - (IF feeds THEN by ELSE 0) \in Int /\ e + (IF feeds THEN 0 ELSE by) \in Int /\ d + by \in Int
        OBVIOUS
      <3> QED BY <2>1, <3>1
    <2>3. after = [it EXCEPT !.legs = legs, !.duration = z, !.start = x, !.end = y] BY <2>2
    <2>4. legs \in Seq(LegOf(R)) \ {<<>>}
      <3> HIDE DEF legs
      <3> QED BY <1>2, <1>5
    <2> HIDE DEF after, legs
    <2>5. /\ after \in ItineraryOf(R, O) /\ after.legs = legs /\ after.of = it.of /\ after.source = it.source
          /\ after.start = x /\ after.end = y /\ after.duration = z
      BY <2>3, <2>4 DEF ItineraryOf
    <2> QED BY <2>2, <2>5
  <1> HIDE DEF after, legs
  <1> QED BY <1>1, <1>2, <1>5, <1>6, <1>7

\* What a rewriting may not do to an itinerary.
Kept(R, O, it, after) ==
    /\ after \in ItineraryOf(R, O) /\ Timetable(after) /\ TaxiAtTheEnds(after)
    /\ DepartureTimes(after) = DepartureTimes(it) /\ after.of = it.of
Rewritten(R, O, it, after) == Kept(R, O, it, after) /\ Len(after.legs) = Len(it.legs) /\ after.source = it.source

LEMMA SameDepartures ==
    ASSUME NEW R, NEW O, NEW it \in ItineraryOf(R, O), NEW after \in ItineraryOf(R, O), Len(after.legs) = Len(it.legs),
           \A k \in 1 .. Len(it.legs) : Like(after.legs[k], it.legs[k]),
           \A k \in 1 .. Len(it.legs) : it.legs[k].transit => after.legs[k].start = it.legs[k].start
    PROVE  DepartureTimes(after) = DepartureTimes(it)
  <1>1. DOMAIN it.legs = 1 .. Len(it.legs) /\ DOMAIN after.legs = 1 .. Len(it.legs) BY DEF ItineraryOf
  <1>2. \A k \in 1 .. Len(it.legs) : /\ after.legs[k].transit = it.legs[k].transit
                                     /\ it.legs[k].transit => <<after.legs[k].ride, after.legs[k].start>> = <<it.legs[k].ride, it.legs[k].start>>
    BY DEF Like
  <1> QED BY <1>1, <1>2 DEF DepartureTimes

LEMMA StretchKeeps ==
    ASSUME NEW R, NEW O, NEW it \in ItineraryOf(R, O), Timetable(it), TaxiAtTheEnds(it), NEW i \in 1 .. Len(it.legs)
    PROVE  Rewritten(R, O, it, Stretch(it, i))
  <1> DEFINE n == Len(it.legs)
             feeds == Feeding(it, i)
             by == Slower(it.legs[i])
             after == Stretched(it, i, feeds)
  <1>1. /\ n \in Nat /\ n # 0 /\ DOMAIN it.legs = 1 .. n /\ it.legs[i] \in LegOf(R) /\ feeds \in BOOLEAN
        /\ \A k \in 1 .. n : it.legs[k].start \in Int /\ it.legs[k].end \in Int /\ it.legs[k].duration \in Int
    <2>1. it.legs \in Seq(LegOf(R)) /\ it.legs # <<>> BY DEF ItineraryOf
    <2>2. \A k \in 1 .. n : it.legs[k] \in LegOf(R) BY <2>1
    <2>3. feeds \in BOOLEAN BY Zenon DEF Feeding
    <2>4. \A k \in 1 .. n : it.legs[k].start \in Int /\ it.legs[k].end \in Int /\ it.legs[k].duration \in Int
      BY <2>2 DEF LegOf
    <2>5. n \in Nat /\ n # 0 /\ DOMAIN it.legs = 1 .. n BY <2>1
    <2> HIDE DEF feeds
    <2> QED BY <2>2, <2>3, <2>4, <2>5
  <1>2. by \in Int BY <1>1, SlowerIsWhole
  <1>3. Stretch(it, i) = after BY DEF Stretch
  <1>4. CASE ~IsOnDemand(it.legs[i]) \/ by <= 0
    <2>1. after = it BY <1>4 DEF Stretched
    <2> HIDE DEF after
    <2> QED BY <1>3, <2>1 DEF Rewritten, Kept
  <1>5. CASE IsOnDemand(it.legs[i]) /\ ~(by <= 0)
    <2>0. by > 0 BY <1>2, <1>5
    <2>1. /\ after \in ItineraryOf(R, O) /\ Len(after.legs) = n
          /\ after.duration = it.duration + by
          /\ after.start = it.start - (IF feeds THEN by ELSE 0)
          /\ after.end = it.end + (IF feeds THEN 0 ELSE by)
          /\ after.of = it.of /\ after.source = it.source
          /\ \A k \in 1 .. n :
                /\ after.legs[k].start = it.legs[k].start + Back(i, k, feeds, by)
                /\ after.legs[k].end = it.legs[k].end + Forth(i, k, feeds, by)
                /\ after.legs[k].duration = it.legs[k].duration + (IF k = i THEN by ELSE 0)
                /\ Like(after.legs[k], it.legs[k])
      <3>1. PICK b \in Int, f \in BOOLEAN : b = by /\ f = feeds
        <4> HIDE DEF by, feeds
        <4> QED BY <1>1, <1>2
      <3>2. b = Slower(it.legs[i]) /\ b > 0 /\ after = Stretched(it, i, f) BY <2>0, <3>1
      <3> HIDE DEF after, by, feeds
      <3>3. LET done == Stretched(it, i, f) IN
            /\ done \in ItineraryOf(R, O) /\ Len(done.legs) = Len(it.legs)
            /\ done.duration = it.duration + b
            /\ done.start = it.start - (IF f THEN b ELSE 0)
            /\ done.end = it.end + (IF f THEN 0 ELSE b)
            /\ done.of = it.of /\ done.source = it.source
            /\ \A k \in 1 .. Len(it.legs) :
                  /\ done.legs[k].start = it.legs[k].start + Back(i, k, f, b)
                  /\ done.legs[k].end = it.legs[k].end + Forth(i, k, f, b)
                  /\ done.legs[k].duration = it.legs[k].duration + (IF k = i THEN b ELSE 0)
                  /\ Like(done.legs[k], it.legs[k])
        BY <1>5, <3>2, StretchedIs
      <3> QED BY <3>1, <3>2, <3>3
    <2>2. feeds <=> \E j \in (i + 1) .. n : it.legs[j].transit BY DEF Feeding
    <2>3. \A j \in 1 .. n : Feeding(after, j) <=> Feeding(it, j)
      <3> SUFFICES ASSUME NEW j \in 1 .. n PROVE Feeding(after, j) <=> Feeding(it, j) OBVIOUS
      <3>1. \A k \in (j + 1) .. n : after.legs[k].transit = it.legs[k].transit
        <4> SUFFICES ASSUME NEW k \in (j + 1) .. n PROVE after.legs[k].transit = it.legs[k].transit OBVIOUS
        <4>1. k \in 1 .. n BY <1>1
        <4> QED BY <2>1, <4>1 DEF Like
      <3> QED BY <2>1, <3>1 DEF Feeding
    <2>4. \A k \in 1 .. n : it.legs[k].transit => Back(i, k, feeds, by) = 0
      <3> SUFFICES ASSUME NEW k \in 1 .. n, it.legs[k].transit PROVE Back(i, k, feeds, by) = 0 OBVIOUS
      <3>1. feeds => ~(k <= i) BY <1>1, <1>5 DEF TaxiAtTheEnds, IsOnDemand
      <3>2. ~feeds => ~(k > i)
        <4> SUFFICES ASSUME ~feeds, k > i PROVE FALSE OBVIOUS
        <4>1. k \in (i + 1) .. n BY <1>1
        <4> QED BY <2>2, <4>1
      <3> QED BY <3>1, <3>2 DEF Back
    <2> HIDE DEF after, by, feeds
    <2>5. \A k \in 1 .. n : it.legs[k].transit => after.legs[k].start = it.legs[k].start BY <1>1, <2>1, <2>4
    <2>6. DepartureTimes(after) = DepartureTimes(it) BY <2>1, <2>5, SameDepartures
    <2>7. DOMAIN after.legs = 1 .. n BY <1>1, <2>1 DEF ItineraryOf
    <2>8. TaxiAtTheEnds(after)
      <3> SUFFICES ASSUME NEW k \in 1 .. n, NEW j \in 1 .. n, k <= j, after.legs[j].mode = "CAR", Feeding(after, j)
                   PROVE  ~after.legs[k].transit
        BY <2>7 DEF TaxiAtTheEnds
      <3>1. it.legs[j].mode = "CAR" /\ Feeding(it, j) BY <2>1, <2>3 DEF Like
      <3> QED BY <1>1, <2>1, <3>1 DEF TaxiAtTheEnds, Like
    <2>9. Timetable(after)
      <3>1. \A k \in 1 .. (n - 1) : after.legs[k].end <= after.legs[k + 1].start
        <4> SUFFICES ASSUME NEW k \in 1 .. (n - 1) PROVE after.legs[k].end <= after.legs[k + 1].start OBVIOUS
        <4>1. k \in 1 .. n /\ k + 1 \in 1 .. n BY <1>1
        <4>2. it.legs[k].end <= it.legs[k + 1].start BY DEF Timetable
        <4>3. Forth(i, k, feeds, by) = Back(i, k + 1, feeds, by) /\ Back(i, k + 1, feeds, by) \in Int
          BY <1>1, <1>2, <4>1 DEF Back, Forth
        <4>4. after.legs[k].end = it.legs[k].end + Back(i, k + 1, feeds, by) BY <2>1, <4>1, <4>3
        <4>5. after.legs[k + 1].start = it.legs[k + 1].start + Back(i, k + 1, feeds, by) BY <2>1, <4>1
        <4> QED BY <1>1, <4>1, <4>2, <4>3, <4>4, <4>5
      <3>2. \A k \in 1 .. n : after.legs[k].duration <= after.legs[k].end - after.legs[k].start
        <4> SUFFICES ASSUME NEW k \in 1 .. n
                     PROVE  after.legs[k].duration <= after.legs[k].end - after.legs[k].start
          OBVIOUS
        <4>1. it.legs[k].duration <= it.legs[k].end - it.legs[k].start BY <1>1 DEF Timetable
        <4>2. PICK x \in Int, y \in Int, z \in Int : x = it.legs[k].start /\ y = it.legs[k].end /\ z = it.legs[k].duration
          BY <1>1
        <4>3. after.legs[k].start = x + Back(i, k, feeds, by) /\ after.legs[k].end = y + Forth(i, k, feeds, by)
          BY <2>1, <4>2
        <4>4. after.legs[k].duration = z + (IF k = i THEN by ELSE 0) BY <2>1, <4>2
        <4>5. PICK u \in Int, v \in Int, w \in Int :
                 u = Back(i, k, feeds, by) /\ v = Forth(i, k, feeds, by) /\ w = IF k = i THEN by ELSE 0
          BY <1>2 DEF Back, Forth
        <4>6. v = u + w
          <5>1. CASE feeds BY <1>1, <1>2, <4>5, <5>1 DEF Back, Forth
          <5>2. CASE ~feeds BY <1>1, <1>2, <4>5, <5>2 DEF Back, Forth
          <5> QED BY <5>1, <5>2
        <4>7. /\ after.legs[k].start = x + u /\ after.legs[k].end = y + v /\ after.legs[k].duration = z + w
              /\ z <= y - x
          BY <4>1, <4>2, <4>3, <4>4, <4>5
        <4>8. z + w <= (y + v) - (x + u) BY <4>6, <4>7
        <4> QED BY <4>7, <4>8
      <3>3. after.start = after.legs[1].start /\ after.end = after.legs[n].end /\ after.duration = after.end - after.start
        <4>1. it.start = it.legs[1].start /\ it.end = it.legs[n].end /\ it.duration = it.end - it.start BY DEF Timetable
        <4>2. 1 \in 1 .. n /\ n \in 1 .. n BY <1>1
        <4>3. PICK x \in Int, y \in Int : x = it.legs[1].start /\ y = it.legs[n].end BY <1>1, <4>2
        <4>4. after.legs[1].start = x + Back(i, 1, feeds, by) /\ after.legs[n].end = y + Forth(i, n, feeds, by)
          BY <2>1, <4>2, <4>3
        <4>5. /\ Back(i, 1, feeds, by) = IF feeds THEN -by ELSE 0
              /\ Forth(i, n, feeds, by) = IF feeds THEN 0 ELSE by
          BY <1>1 DEF Back, Forth
        <4>6. after.start = x - (IF feeds THEN by ELSE 0) /\ after.end = y + (IF feeds THEN 0 ELSE by)
              /\ after.duration = (y - x) + by
          BY <2>1, <4>1, <4>3
        <4>7. PICK b \in Int : b = by BY <1>2
        <4>8. CASE feeds
          <5>1. after.legs[1].start = x + -b /\ after.legs[n].end = y + 0 BY <4>4, <4>5, <4>7, <4>8
          <5>2. after.start = x - b /\ after.end = y + 0 /\ after.duration = (y - x) + b BY <4>6, <4>7, <4>8
          <5> QED BY <5>1, <5>2
        <4>9. CASE ~feeds
          <5>1. after.legs[1].start = x + 0 /\ after.legs[n].end = y + b BY <4>4, <4>5, <4>7, <4>9
          <5>2. after.start = x - 0 /\ after.end = y + b /\ after.duration = (y - x) + b BY <4>6, <4>7, <4>9
          <5> QED BY <5>1, <5>2
        <4> QED BY <4>8, <4>9
      <3> QED BY <2>1, <2>7, <3>1, <3>2, <3>3 DEF Timetable
    <2> QED BY <1>3, <2>1, <2>6, <2>8, <2>9 DEF Rewritten, Kept
  <1> QED BY <1>4, <1>5

\* The rides of an itinerary, one after the other: the loop exists, and keeps what each step keeps.
IsRun(f, it, n) == f = [i \in 0 .. n |-> IF i = 0 THEN it ELSE Stretch(f[i - 1], i)]
LEMMA RunExists == ASSUME NEW it, NEW n \in Nat PROVE \E f : IsRun(f, it, n)
  <1> DEFINE S == {m \in Nat : \E f : IsRun(f, it, m)}
  <1>1. 0 \in S
    <2>1. IsRun([i \in 0 .. 0 |-> it], it, 0) BY DEF IsRun
    <2> QED BY <2>1
  <1>2. ASSUME NEW m \in Nat, m \in S PROVE m + 1 \in S
    <2>1. PICK f : IsRun(f, it, m) BY <1>2
    <2> DEFINE g == [i \in 0 .. m + 1 |-> IF i = m + 1 THEN Stretch(f[m], m + 1) ELSE f[i]]
    <2>2. ASSUME NEW i \in 0 .. m + 1 PROVE g[i] = IF i = 0 THEN it ELSE Stretch(g[i - 1], i)
      <3>1. CASE i = 0 BY <2>1, <3>1 DEF IsRun
      <3>2. CASE i = m + 1
        <4>1. g[i] = Stretch(f[m], m + 1) /\ g[i - 1] = f[m] /\ i # 0 BY <3>2
        <4> HIDE DEF g
        <4> QED BY <3>2, <4>1
      <3>3. CASE i # 0 /\ i # m + 1
        <4>1. i \in 0 .. m /\ i - 1 \in 0 .. m /\ i - 1 # m + 1 BY <3>3
        <4>2. g[i] = f[i] /\ g[i - 1] = f[i - 1] BY <3>3, <4>1
        <4>3. f[i] = Stretch(f[i - 1], i) BY <2>1, <3>3, <4>1 DEF IsRun
        <4> HIDE DEF g
        <4> QED BY <3>3, <4>2, <4>3
      <3> QED BY <3>1, <3>2, <3>3
    <2>3. g = [i \in 0 .. m + 1 |-> g[i]] OBVIOUS
    <2> HIDE DEF g
    <2>4. IsRun(g, it, m + 1) BY <2>2, <2>3 DEF IsRun
    <2> QED BY <2>4
  <1> HIDE DEF S
  <1>3. n \in S BY <1>1, <1>2, Induction
  <1> QED BY <1>3 DEF S

\* ondemand.py:340, 374: however many rides traffic makes longer, the itinerary stays a
\* timetable, of the same legs, and its buses and trains leave when the router said.
THEOREM StretchedStaysATimetable ==
    ASSUME NEW R, NEW O, NEW it \in ItineraryOf(R, O), Timetable(it), TaxiAtTheEnds(it)
    PROVE  Rewritten(R, O, it, StretchAll(it))
  <1> DEFINE n == Len(it.legs)
             f == CHOOSE g : IsRun(g, it, n)
  <1>1. n \in Nat BY DEF ItineraryOf
  <1>2. StretchAll(it) = f[n] BY DEF StretchAll, IsRun
  <1>3. IsRun(f, it, n)
    <2>1. \E g : IsRun(g, it, n) BY <1>1, RunExists
    <2> QED BY <2>1, Zenon
  <1> HIDE DEF f
  <1> DEFINE S == {m \in Nat : m <= n => Rewritten(R, O, it, f[m])}
  <1>4. 0 \in S
    <2>1. f[0] = it BY <1>1, <1>3 DEF IsRun
    <2> QED BY <2>1 DEF Rewritten, Kept
  <1>5. ASSUME NEW m \in Nat, m \in S PROVE m + 1 \in S
    <2> SUFFICES ASSUME m + 1 <= n PROVE Rewritten(R, O, it, f[m + 1]) OBVIOUS
    <2>1. Rewritten(R, O, it, f[m]) BY <1>1, <1>5
    <2>2. f[m + 1] = Stretch(f[m], m + 1) BY <1>1, <1>3 DEF IsRun
    <2>3. m + 1 \in 1 .. Len(f[m].legs) BY <1>1, <2>1 DEF Rewritten, Kept
    <2>4. Rewritten(R, O, f[m], Stretch(f[m], m + 1)) BY <2>1, <2>3, StretchKeeps DEF Rewritten, Kept
    <2> QED BY <2>1, <2>2, <2>4 DEF Rewritten, Kept
  <1> HIDE DEF S
  <1>6. n \in S BY <1>1, <1>4, <1>5, Induction
  <1>7. Rewritten(R, O, it, f[n]) BY <1>6 DEF S
  <1> QED BY <1>2, <1>7

-----------------------------------------------------------------------------
(***************************************************************************)
(* A car left at a zone: where it stood in the list and what follows.      *)
(***************************************************************************)
\* From i on, b, c and w in the place of s, up to the m-th.
SplicedSo(S, r, b, s, i, c, w, m) ==
    /\ r \in Seq(S) /\ Len(r) = Len(s) + i + 1 - m
    /\ \A k \in 1 .. i - 1 : r[k] = b[k]
    /\ r[i] = c /\ r[i + 1] = w
    /\ \A k \in i + 2 .. Len(s) + i + 1 - m : r[k] = s[k - (i + 1 - m)]
LEMMA Spliced ==
    ASSUME NEW S, NEW s \in Seq(S), NEW b \in Seq(S), Len(b) = Len(s), NEW i \in 1 .. Len(s), NEW c \in S, NEW w \in S,
           NEW m \in i .. i + 1, m <= Len(s)
    PROVE  SplicedSo(S, SubSeq(b, 1, i - 1) \o <<c, w>> \o SubSeq(s, m + 1, Len(s)), b, s, i, c, w, m)
  <1> DEFINE n == Len(s)
             x == SubSeq(b, 1, i - 1)
             y == <<c, w>>
             z == SubSeq(s, m + 1, n)
  <1>1. n \in Nat /\ i \in 1 .. n /\ m \in Nat OBVIOUS
  <1>2. x \in Seq(S) /\ Len(x) = i - 1 /\ \A k \in 1 .. i - 1 : x[k] = b[k]
    <2>1. \A k \in 1 .. i - 1 : b[k] \in S OBVIOUS
    <2>2. i - 1 \in Int /\ 1 \in Int OBVIOUS
    <2>3. /\ x \in Seq(S) /\ Len(x) = (IF 1 <= i - 1 THEN (i - 1) - 1 + 1 ELSE 0)
          /\ \A k \in 1 .. (i - 1) - 1 + 1 : x[k] = b[1 + k - 1]
      <3>1. PICK v \in Int : v = i - 1 BY <2>2
      <3>2. \A k \in 1 .. v : b[k] \in S BY <2>1, <3>1
      <3> QED BY <3>1, <3>2, SubSeqProperties
    <2> HIDE DEF x
    <2> QED BY <1>1, <2>3
  <1>3. z \in Seq(S) /\ Len(z) = n - m /\ \A k \in 1 .. n - m : z[k] = s[m + k]
    <2>1. \A k \in m + 1 .. n : s[k] \in S BY <1>1
    <2>2. m + 1 \in Int /\ n \in Int BY <1>1
    <2>3. /\ z \in Seq(S) /\ Len(z) = (IF m + 1 <= n THEN n - (m + 1) + 1 ELSE 0)
          /\ \A k \in 1 .. n - (m + 1) + 1 : z[k] = s[(m + 1) + k - 1]
      <3>1. PICK u \in Int, v \in Int : u = m + 1 /\ v = n BY <2>2
      <3>2. \A k \in u .. v : s[k] \in S BY <2>1, <3>1
      <3>3. z = SubSeq(s, u, v) BY <3>1
      <3> HIDE DEF z, y, x, n
      <3>4. /\ SubSeq(s, u, v) \in Seq(S) /\ Len(SubSeq(s, u, v)) = (IF u <= v THEN v - u + 1 ELSE 0)
            /\ \A k \in 1 .. v - u + 1 : SubSeq(s, u, v)[k] = s[u + k - 1]
        BY <3>2, SubSeqProperties
      <3> QED BY <3>1, <3>3, <3>4
    <2> HIDE DEF z
    <2> QED BY <1>1, <2>3
  <1>4. y \in Seq(S) /\ Len(y) = 2 /\ y[1] = c /\ y[2] = w OBVIOUS
  <1> HIDE DEF x, y, z
  <1>5. /\ x \o y \in Seq(S) /\ Len(x \o y) = Len(x) + Len(y)
        /\ \A k \in 1 .. Len(x) + Len(y) : (x \o y)[k] = IF k <= Len(x) THEN x[k] ELSE y[k - Len(x)]
    <2>1. x \in Seq(S) BY <1>2
    <2>2. y \in Seq(S) BY <1>4
    <2> QED BY <2>1, <2>2, ConcatProperties
  <1> DEFINE v == x \o y
  <1>6. /\ v \in Seq(S) /\ Len(v) = i + 1 /\ \A k \in 1 .. i - 1 : v[k] = b[k]
        /\ v[i] = c /\ v[i + 1] = w
    <2>1. Len(x) + Len(y) = i + 1 BY <1>1, <1>2, <1>4
    <2>2. \A k \in 1 .. i + 1 : v[k] = IF k <= i - 1 THEN x[k] ELSE y[k - (i - 1)] BY <1>2, <1>5, <2>1
    <2>3. v[i] = y[1] /\ v[i + 1] = y[2]
      <3>1. i \in 1 .. i + 1 /\ ~(i <= i - 1) /\ i - (i - 1) = 1 BY <1>1
      <3>2. i + 1 \in 1 .. i + 1 /\ ~(i + 1 <= i - 1) /\ (i + 1) - (i - 1) = 2 BY <1>1
      <3> QED BY <2>2, <3>1, <3>2
    <2>4. \A k \in 1 .. i - 1 : v[k] = b[k] BY <1>1, <1>2, <2>2
    <2> QED BY <1>4, <1>5, <2>1, <2>3, <2>4
  <1> HIDE DEF v
  <1> DEFINE r == v \o z
  <1>7. /\ r \in Seq(S) /\ Len(r) = Len(v) + Len(z)
        /\ \A k \in 1 .. Len(v) + Len(z) : r[k] = IF k <= Len(v) THEN v[k] ELSE z[k - Len(v)]
    <2>1. v \in Seq(S) BY <1>6
    <2>2. z \in Seq(S) BY <1>3
    <2> HIDE DEF v
    <2> QED BY <2>1, <2>2, ConcatProperties
  <1> HIDE DEF r
  <1>8. Len(v) + Len(z) = n + i + 1 - m BY <1>1, <1>3, <1>6
  <1>9. ASSUME NEW k \in 1 .. i + 1 PROVE r[k] = v[k]
    <2>1. Len(v) = i + 1 /\ Len(z) \in Nat BY <1>1, <1>3, <1>6
    <2>2. k \in 1 .. Len(v) + Len(z) /\ k <= Len(v) BY <1>1, <2>1
    <2> QED BY <1>7, <2>2
  <1>10. ASSUME NEW k \in i + 2 .. n + i + 1 - m PROVE r[k] = s[k - (i + 1 - m)]
    <2>1. k \in 1 .. Len(v) + Len(z) /\ ~(k <= Len(v)) /\ k - Len(v) \in 1 .. n - m BY <1>1, <1>3, <1>6, <1>8
    <2>2. r[k] = s[m + (k - Len(v))] BY <1>3, <1>7, <2>1
    <2>3. m + (k - Len(v)) = k - (i + 1 - m) BY <1>1, <1>6
    <2> QED BY <2>2, <2>3
  <1>11. \A k \in 1 .. i - 1 : r[k] = b[k] BY <1>1, <1>6, <1>9
  <1>12. r[i] = c /\ r[i + 1] = w BY <1>1, <1>6, <1>9
  <1>13. SplicedSo(S, r, b, s, i, c, w, m) BY <1>7, <1>8, <1>10, <1>11, <1>12 DEF SplicedSo
  <1> QED BY <1>13 DEF r, v, x, y, z

\* What a zone changes: the car, the walk from it and, when that is longer, all that comes before.
ParkedSo(it, i, w, after, d, sooner, stop) ==
    /\ after.of = it.of /\ after.source = "parkride" /\ Len(after.legs) = Len(it.legs) + d
    /\ after.start = it.start - sooner /\ after.end = it.end /\ after.duration = it.duration + sooner
    /\ d = 0 => it.legs[i + 1].mode = "WALK" /\ stop = it.legs[i + 1].end /\ w <= sooner + it.legs[i + 1].duration
    /\ d = 1 => stop = it.legs[i].end /\ w <= sooner
    /\ \A k \in 1 .. i - 1 : Moved(after.legs[k], it.legs[k], -sooner)
    /\ after.legs[i].start = it.legs[i].start - sooner /\ after.legs[i].end = stop - w
    /\ after.legs[i].duration = it.legs[i].duration
    /\ after.legs[i].mode = it.legs[i].mode /\ after.legs[i].transit = it.legs[i].transit
    /\ after.legs[i + 1].start = stop - w /\ after.legs[i + 1].end = stop /\ after.legs[i + 1].duration = w
    /\ after.legs[i + 1].mode = "WALK" /\ ~after.legs[i + 1].transit
    /\ \A k \in i + 2 .. Len(it.legs) + d : after.legs[k] = it.legs[k - d]

LEMMA ParkedIs ==
    ASSUME NEW R, "parking" \in R, NEW O, NEW it \in ItineraryOf(R, O), NEW i \in 1 .. Len(it.legs) - 1,
           NEW zone, NEW w \in Nat, w = zone.walk
    PROVE  /\ Parked(it, i, zone) \in ItineraryOf(R, O)
           /\ \E d \in {0, 1}, sooner \in Nat, stop \in Int : ParkedSo(it, i, w, Parked(it, i, zone), d, sooner, stop)
  <1> DEFINE n == Len(it.legs)
             leg == it.legs[i]
             next == it.legs[i + 1]
             walked == next.mode = "WALK"
             old == IF walked THEN next ELSE [leg EXCEPT !.duration = 0]
             sooner == IF zone.walk > old.duration THEN zone.walk - old.duration ELSE 0
             walk == Leg("WALK", "parking", old.end - zone.walk, old.end, zone.walk)
             before == Shift(it.legs, 1 .. (i - 1), -sooner)
             car == [leg EXCEPT !.parkRide = TRUE, !.start = @ - sooner, !.end = walk.start]
             rest == IF walked THEN i + 2 ELSE i + 1
             legs == SubSeq(before, 1, i - 1) \o <<car, walk>> \o SubSeq(it.legs, rest, n)
             after == [it EXCEPT !.legs = legs, !.start = @ - sooner, !.duration = @ + sooner, !.source = "parkride",
                                 !.walk = @ - old.duration + zone.walk]
             m == rest - 1
             d == i + 1 - m
  <1>1. Parked(it, i, zone) = after BY DEF Parked
  <1>2. /\ it.legs \in Seq(LegOf(R)) /\ n \in Nat /\ i \in 1 .. n /\ i + 1 \in 1 .. n
        /\ leg \in LegOf(R) /\ next \in LegOf(R)
    BY DEF ItineraryOf
  <1>3. old \in LegOf(R) /\ old.end = (IF walked THEN next.end ELSE leg.end)
        /\ old.duration = (IF walked THEN next.duration ELSE 0)
    <2>1. \A a \in LegOf(R) : /\ [a EXCEPT !.duration = 0] \in LegOf(R) /\ [a EXCEPT !.duration = 0].end = a.end
                              /\ [a EXCEPT !.duration = 0].duration = 0
      BY DEF LegOf
    <2> HIDE DEF leg, next
    <2> QED BY <1>2, <2>1
  <1>4. PICK e \in Int, l \in Int : e = old.end /\ l = old.duration
    <2> HIDE DEF old
    <2> QED BY <1>3 DEF LegOf
  <1>5. PICK s \in Nat : s = sooner /\ w <= s + l
    <2>1. sooner = IF w > l THEN w - l ELSE 0 BY <1>4
    <2> HIDE DEF sooner
    <2>2. sooner \in Nat /\ w <= sooner + l BY <2>1
    <2> QED BY <2>2
  <1>6. /\ walk \in LegOf(R) /\ walk.start = e - w /\ walk.end = e /\ walk.duration = w /\ walk.mode = "WALK" /\ ~walk.transit
    <2>1. walk = Leg("WALK", "parking", e - w, e, w)
      <3> HIDE DEF old
      <3> QED BY <1>4
    <2>2. PICK b \in Int : b = e - w /\ e - b = w OBVIOUS
    <2>3. walk = Leg("WALK", "parking", b, e, w) BY <2>1, <2>2
    <2> HIDE DEF walk
    <2>4. walk = [mode |-> "WALK", ride |-> "parking", start |-> b, end |-> e, duration |-> w, metres |-> w,
                  transit |-> FALSE, rental |-> FALSE, parkRide |-> FALSE]
      <3>1. ("WALK" \in Transit) = FALSE /\ ("WALK" \in Rentals) = FALSE BY DEF Transit, Rentals
      <3> QED BY <2>2, <2>3, <3>1 DEF Leg
    <2>5. walk \in LegOf(R)
      <3>1. PICK p \in R, q \in Int : p = "parking" /\ q = w OBVIOUS
      <3>2. walk = [mode |-> "WALK", ride |-> p, start |-> b, end |-> e, duration |-> q, metres |-> q,
                    transit |-> FALSE, rental |-> FALSE, parkRide |-> FALSE]
        BY <2>4, <3>1
      <3> HIDE DEF walk
      <3> QED BY <3>2 DEF LegOf, Street
    <2> QED BY <2>2, <2>4, <2>5
  <1>7. /\ before \in Seq(LegOf(R)) /\ Len(before) = n
        /\ \A k \in 1 .. i - 1 : Moved(before[k], it.legs[k], -s)
    <2>1. PICK by \in Int, a \in Seq(LegOf(R)) : by = -s /\ a = it.legs BY <1>2
    <2>2. before = Shift(a, 1 .. (i - 1), by) BY <1>5, <2>1
    <2> HIDE DEF before
    <2>3. /\ before \in Seq(LegOf(R)) /\ Len(before) = Len(a)
          /\ \A k \in 1 .. Len(a) : Moved(before[k], a[k], IF k \in 1 .. (i - 1) THEN by ELSE 0)
      BY <2>2, ShiftIs
    <2> QED BY <1>2, <2>1, <2>3
  <1>8. /\ car \in LegOf(R) /\ car.start = leg.start - s /\ car.end = e - w /\ car.duration = leg.duration
        /\ car.mode = leg.mode /\ car.transit = leg.transit
    <2>1. leg.start \in Int BY <1>2 DEF LegOf
    <2>2. PICK x \in Int, y \in Int : x = leg.start - s /\ y = e - w
      <3>1. \A a \in Int, x \in Nat : a - x \in Int OBVIOUS
      <3> HIDE DEF leg, sooner, walk, before, car, old
      <3> QED BY <2>1, <3>1
    <2>3. car = [leg EXCEPT !.parkRide = TRUE, !.start = x, !.end = y]
      <3>1. leg.start - sooner = x /\ walk.start = y
        <4> HIDE DEF leg, sooner, walk, before, car, old
        <4>1. leg.start - sooner = x BY <1>5, <2>2
        <4>2. walk.start = y BY <1>6, <2>2
        <4> QED BY <4>1, <4>2
      <3>2. car = [leg EXCEPT !.parkRide = TRUE, !.start = leg.start - sooner, !.end = walk.start] OBVIOUS
      <3> HIDE DEF car, leg, sooner, walk
      <3> QED BY <3>1, <3>2
    <2> HIDE DEF car, leg
    <2>4. /\ car \in LegOf(R) /\ car.start = x /\ car.end = y /\ car.duration = leg.duration
          /\ car.mode = leg.mode /\ car.transit = leg.transit
      BY <1>2, <2>3 DEF LegOf
    <2> QED BY <2>2, <2>4
  <1>9. /\ legs \in Seq(LegOf(R)) /\ Len(legs) = n + d
        /\ \A k \in 1 .. i - 1 : legs[k] = before[k]
        /\ legs[i] = car /\ legs[i + 1] = walk
        /\ \A k \in i + 2 .. n + d : legs[k] = it.legs[k - d]
    <2>0. rest \in Int BY <1>2
    <2>1. m \in i .. i + 1 /\ m <= n BY <1>2
    <2> HIDE DEF before, car, walk, rest
    <2>2. n + d = n + i + 1 - m /\ rest = m + 1
      <3>1. \A a, b, c \in Int : a + (b + 1 - (c - 1)) = a + b + 1 - (c - 1) /\ c = (c - 1) + 1 OBVIOUS
      <3>2. n \in Int /\ i \in Int /\ rest \in Int BY <1>2, <2>0
      <3> HIDE DEF n, leg, next, walked, old, sooner
      <3> QED BY <3>1, <3>2
    <2> HIDE DEF m
    <2>3. PICK a \in Seq(LegOf(R)) : a = it.legs BY <1>2
    <2>4. SplicedSo(LegOf(R), SubSeq(before, 1, i - 1) \o <<car, walk>> \o SubSeq(a, m + 1, Len(a)), before, a, i, car, walk, m)
      <3>1. Len(before) = Len(a) /\ m <= Len(a) BY <1>2, <1>7, <2>1, <2>3
      <3>2. i \in 1 .. Len(a) BY <1>2, <2>3
      <3>3. before \in Seq(LegOf(R)) BY <1>7
      <3>4. car \in LegOf(R) BY <1>8
      <3>5. walk \in LegOf(R) BY <1>6
      <3>6. m \in i .. i + 1 BY <2>1
      <3> QED BY <3>1, <3>2, <3>3, <3>4, <3>5, <3>6, Spliced
    <2>5. legs = SubSeq(before, 1, i - 1) \o <<car, walk>> \o SubSeq(a, m + 1, Len(a)) BY <2>2, <2>3
    <2> HIDE DEF legs
    <2>6. SplicedSo(LegOf(R), legs, before, it.legs, i, car, walk, m) BY <2>3, <2>4, <2>5
    <2> QED BY <2>2, <2>6 DEF SplicedSo
  <1>10. d \in {0, 1} /\ (d = 0 => walked) /\ (d = 1 => ~walked) BY <1>2
  <1>11. /\ after \in ItineraryOf(R, O) /\ after.legs = legs /\ after.of = it.of /\ after.source = "parkride"
         /\ after.start = it.start - s /\ after.end = it.end /\ after.duration = it.duration + s
    <2>1. it.start \in Int /\ it.duration \in Int /\ it.walk \in Int BY DEF ItineraryOf
    <2>2. PICK x \in Int, y \in Int, z \in Int : x = it.start - s /\ y = it.duration + s /\ z = it.walk - l + w
      <3>1. \A a, b, c \in Int : a - s \in Int /\ b + s \in Int /\ c - l + w \in Int OBVIOUS
      <3> QED BY <2>1, <3>1
    <2>3. after = [it EXCEPT !.legs = legs, !.start = x, !.duration = y, !.source = "parkride", !.walk = z]
      <3>1. it.start - sooner = x /\ it.duration + sooner = y /\ it.walk - old.duration + zone.walk = z BY <1>4, <1>5, <2>2
      <3>2. after = [it EXCEPT !.legs = legs, !.start = it.start - sooner, !.duration = it.duration + sooner,
                               !.source = "parkride", !.walk = it.walk - old.duration + zone.walk]
        OBVIOUS
      <3> HIDE DEF after, legs, sooner, old
      <3> QED BY <3>1, <3>2
    <2>4. legs \in Seq(LegOf(R)) \ {<<>>}
      <3> HIDE DEF legs, d
      <3> QED BY <1>2, <1>9, <1>10
    <2> HIDE DEF after, legs
    <2>5. after \in ItineraryOf(R, O)
      <3>1. after = [legs |-> legs, walk |-> z, start |-> x, end |-> it.end, duration |-> y, source |-> "parkride", of |-> it.of]
        BY <2>3 DEF ItineraryOf
      <3>2. it.end \in Int /\ it.of \in O BY DEF ItineraryOf
      <3> QED BY <2>4, <3>1, <3>2 DEF ItineraryOf
    <2>6. /\ after.legs = legs /\ after.of = it.of /\ after.source = "parkride"
          /\ after.start = x /\ after.end = it.end /\ after.duration = y
      BY <2>3 DEF ItineraryOf
    <2> QED BY <2>2, <2>5, <2>6
  <1>12. /\ d = 0 => it.legs[i + 1].mode = "WALK" /\ e = it.legs[i + 1].end /\ w <= s + it.legs[i + 1].duration
         /\ d = 1 => e = it.legs[i].end /\ w <= s
    <2>1. d = 0 => e = next.end /\ l = next.duration BY <1>3, <1>4, <1>10
    <2>2. d = 1 => e = leg.end /\ l = 0 BY <1>3, <1>4, <1>10
    <2> HIDE DEF d
    <2> QED BY <1>5, <1>10, <2>1, <2>2
  <1> HIDE DEF after, legs, before, car, walk, d, sooner, old
  <1>13. ParkedSo(it, i, w, after, d, s, e)
    <2>1. \A k \in 1 .. i - 1 : Moved(after.legs[k], it.legs[k], -s) BY <1>7, <1>9, <1>11
    <2>2. after.legs[i] = car /\ after.legs[i + 1] = walk /\ Len(after.legs) = Len(it.legs) + d BY <1>9, <1>11
    <2>3. \A k \in i + 2 .. Len(it.legs) + d : after.legs[k] = it.legs[k - d] BY <1>9, <1>11
    <2> QED BY <1>6, <1>8, <1>11, <1>12, <2>1, <2>2, <2>3 DEF ParkedSo
  <1> QED BY <1>1, <1>10, <1>11, <1>13

LEMMA ParkedKeeps ==
    ASSUME NEW R, NEW O, NEW it \in ItineraryOf(R, O), NEW after \in ItineraryOf(R, O), NEW i \in 1 .. Len(it.legs) - 1,
           NEW w \in Nat, NEW d \in {0, 1}, NEW s \in Nat, NEW stop \in Int, ParkedSo(it, i, w, after, d, s, stop),
           Timetable(it), TaxiAtTheEnds(it), KindsSaid(it), it.legs[i].mode = "CAR", Feeding(it, i)
    PROVE  Kept(R, O, it, after)
  <1> DEFINE n == Len(it.legs)
             N == Len(after.legs)
  <1>1. /\ n \in Nat /\ N = n + d /\ i \in 1 .. n - 1 /\ DOMAIN it.legs = 1 .. n /\ DOMAIN after.legs = 1 .. N
        /\ \A k \in 1 .. n : it.legs[k].start \in Int /\ it.legs[k].end \in Int /\ it.legs[k].duration \in Int
    <2>1. it.legs \in Seq(LegOf(R)) /\ after.legs \in Seq(LegOf(R)) BY DEF ItineraryOf
    <2>2. \A k \in 1 .. n : it.legs[k] \in LegOf(R) BY <2>1
    <2>3. \A k \in 1 .. n : it.legs[k].start \in Int /\ it.legs[k].end \in Int /\ it.legs[k].duration \in Int
      BY <2>2 DEF LegOf
    <2> QED BY <2>1, <2>3 DEF ParkedSo
  <1>2. /\ \A k \in 1 .. i - 1 : Moved(after.legs[k], it.legs[k], -s)
        /\ \A k \in i + 2 .. n + d : after.legs[k] = it.legs[k - d]
        /\ after.legs[i].start = it.legs[i].start - s /\ after.legs[i].end = stop - w
        /\ after.legs[i].duration = it.legs[i].duration
        /\ after.legs[i].mode = it.legs[i].mode /\ after.legs[i].transit = it.legs[i].transit
        /\ after.legs[i + 1].start = stop - w /\ after.legs[i + 1].end = stop /\ after.legs[i + 1].duration = w
        /\ after.legs[i + 1].mode = "WALK" /\ ~after.legs[i + 1].transit
        /\ d = 0 => it.legs[i + 1].mode = "WALK" /\ stop = it.legs[i + 1].end /\ w <= s + it.legs[i + 1].duration
        /\ d = 1 => stop = it.legs[i].end /\ w <= s
        /\ after.of = it.of
        /\ after.start = it.start - s /\ after.end = it.end /\ after.duration = it.duration + s
    BY DEF ParkedSo
  <1>3. ASSUME NEW k \in 1 .. i PROVE ~it.legs[k].transit
    <2>1. k \in DOMAIN it.legs /\ i \in DOMAIN it.legs /\ k <= i BY <1>1
    <2> QED BY <2>1 DEF TaxiAtTheEnds
  <1>4. d = 0 => ~it.legs[i + 1].transit
    <2>1. i + 1 \in 1 .. n /\ "WALK" \notin Transit BY <1>1 DEF Transit
    <2>2. it.legs[i + 1].transit <=> it.legs[i + 1].mode \in Transit BY <1>1, <2>1 DEF KindsSaid
    <2> QED BY <1>2, <2>1, <2>2
  <1>5. N \in Nat /\ i + 2 <= N
    <2>1. PICK j \in (i + 1) .. n : it.legs[j].transit BY DEF Feeding
    <2>2. d = 0 => j # i + 1 BY <1>4, <2>1
    <2> QED BY <1>1, <2>1, <2>2
  <1>6. \A k \in 1 .. n - 1 : it.legs[k].end <= it.legs[k + 1].start BY DEF Timetable
  <1>7. \A k \in 1 .. n : it.legs[k].duration <= it.legs[k].end - it.legs[k].start BY <1>1 DEF Timetable
  <1>8. ASSUME NEW k \in 1 .. N - 1 PROVE after.legs[k].end <= after.legs[k + 1].start
    <2>1. CASE k + 1 < i
      <3>1. k \in 1 .. i - 1 /\ k + 1 \in 1 .. i - 1 /\ k \in 1 .. n - 1 /\ k + 1 \in 1 .. n /\ k \in 1 .. n BY <1>1, <2>1
      <3>2. after.legs[k].end = it.legs[k].end + -s BY <1>2, <3>1 DEF Moved
      <3>3. after.legs[k + 1].start = it.legs[k + 1].start + -s BY <1>2, <3>1 DEF Moved
      <3>4. PICK x \in Int, y \in Int : x = it.legs[k].end /\ y = it.legs[k + 1].start BY <1>1, <3>1
      <3>5. x <= y BY <1>6, <3>1, <3>4
      <3>6. x + -s <= y + -s BY <3>5
      <3> QED BY <3>2, <3>3, <3>4, <3>6
    <2>2. CASE k + 1 = i
      <3>1. k \in 1 .. i - 1 /\ k \in 1 .. n - 1 /\ k \in 1 .. n /\ i \in 1 .. n BY <1>1, <2>2
      <3>2. after.legs[k].end = it.legs[k].end + -s BY <1>2, <3>1 DEF Moved
      <3>3. it.legs[k].end <= it.legs[i].start BY <1>6, <2>2, <3>1
      <3>4. PICK x \in Int, y \in Int : x = it.legs[k].end /\ y = it.legs[i].start BY <1>1, <3>1
      <3>5. x + -s <= y - s
        <4>1. x <= y BY <3>3, <3>4
        <4> QED BY <4>1
      <3>6. after.legs[k].end = x + -s /\ after.legs[k + 1].start = y - s BY <1>2, <2>2, <3>2, <3>4
      <3> QED BY <3>5, <3>6
    <2>3. CASE k = i
      <3>1. after.legs[k].end = stop - w /\ after.legs[k + 1].start = stop - w BY <1>2, <2>3
      <3> QED BY <3>1
    <2>4. CASE k = i + 1
      <3>1. i + 2 \in i + 2 .. n + d /\ i + 2 - d \in 1 .. n BY <1>1, <1>5
      <3>2. after.legs[k].end = stop /\ after.legs[k + 1] = it.legs[i + 2 - d]
        <4>1. k + 1 = i + 2 BY <1>1, <2>4
        <4> QED BY <1>2, <2>4, <3>1, <4>1
      <3>3. CASE d = 0
        <4>1. i + 1 \in 1 .. n - 1 /\ i + 1 + 1 = i + 2 - d BY <1>1, <3>1, <3>3
        <4> QED BY <1>2, <1>6, <3>2, <3>3, <4>1
      <3>4. CASE d = 1
        <4>1. i \in 1 .. n - 1 /\ i + 1 = i + 2 - d BY <1>1, <3>4
        <4> QED BY <1>2, <1>6, <3>2, <3>4, <4>1
      <3> QED BY <3>3, <3>4
    <2>5. CASE k >= i + 2
      <3>1. /\ k \in i + 2 .. n + d /\ k + 1 \in i + 2 .. n + d
            /\ k - d \in 1 .. n - 1 /\ (k - d) + 1 = (k + 1) - d
        <4>1. CASE d = 0 BY <1>1, <2>5, <4>1
        <4>2. CASE d = 1 BY <1>1, <2>5, <4>2
        <4> QED BY <4>1, <4>2
      <3>2. after.legs[k] = it.legs[k - d] /\ after.legs[k + 1] = it.legs[(k - d) + 1] BY <1>2, <3>1
      <3> QED BY <1>6, <3>1, <3>2
    <2>6. k + 1 < i \/ k + 1 = i \/ k = i \/ k = i + 1 \/ k >= i + 2
      <3>1. i \in Int /\ k \in Int BY <1>1
      <3> QED BY <3>1
    <2> QED BY <2>1, <2>2, <2>3, <2>4, <2>5, <2>6
  <1>9. ASSUME NEW k \in 1 .. N PROVE after.legs[k].duration <= after.legs[k].end - after.legs[k].start
    <2>1. CASE k < i
      <3>1. k \in 1 .. i - 1 /\ k \in 1 .. n BY <1>1, <2>1
      <3>2. PICK x \in Int, y \in Int, z \in Int : x = it.legs[k].start /\ y = it.legs[k].end /\ z = it.legs[k].duration
        BY <1>1, <3>1
      <3>3. after.legs[k].start = x + -s /\ after.legs[k].end = y + -s /\ after.legs[k].duration = z
        BY <1>2, <3>1, <3>2 DEF Moved
      <3>4. z <= y - x BY <1>7, <3>1, <3>2
      <3>5. z <= (y + -s) - (x + -s) BY <3>4
      <3> QED BY <3>3, <3>5
    <2>2. CASE k = i
      <3>1. i \in 1 .. n /\ i + 1 \in 1 .. n BY <1>1
      <3>2. PICK x \in Int, y \in Int, z \in Int : x = it.legs[i].start /\ y = it.legs[i].end /\ z = it.legs[i].duration
        BY <1>1, <3>1
      <3>3. PICK u \in Int, v \in Int, l \in Int :
               u = it.legs[i + 1].start /\ v = it.legs[i + 1].end /\ l = it.legs[i + 1].duration
        BY <1>1, <3>1
      <3>4. y <= u /\ l <= v - u /\ z <= y - x BY <1>1, <1>6, <1>7, <3>1, <3>2, <3>3
      <3>5. after.legs[i].start = x - s /\ after.legs[i].end = stop - w /\ after.legs[i].duration = z BY <1>2, <3>2
      <3>6. z <= (stop - w) - (x - s)
        <4>1. CASE d = 0
          <5>1. stop = v /\ w <= s + l BY <1>2, <3>3, <4>1
          <5> QED BY <3>4, <5>1
        <4>2. CASE d = 1
          <5>1. stop = y /\ w <= s BY <1>2, <3>2, <4>2
          <5> QED BY <3>4, <5>1
        <4> QED BY <4>1, <4>2
      <3> QED BY <2>2, <3>5, <3>6
    <2>3. CASE k = i + 1
      <3>1. w <= stop - (stop - w) OBVIOUS
      <3> QED BY <1>2, <2>3, <3>1
    <2>4. CASE k >= i + 2
      <3>1. k \in i + 2 .. n + d /\ k - d \in 1 .. n BY <1>1, <2>4
      <3>2. after.legs[k] = it.legs[k - d] BY <1>2, <3>1
      <3> QED BY <1>7, <3>1, <3>2
    <2>5. k < i \/ k = i \/ k = i + 1 \/ k >= i + 2
      <3>1. i \in Int /\ k \in Int BY <1>1
      <3> QED BY <3>1
    <2> QED BY <2>1, <2>2, <2>3, <2>4, <2>5
  <1>10. after.start = after.legs[1].start /\ after.end = after.legs[N].end /\ after.duration = after.end - after.start
    <2>1. it.start = it.legs[1].start /\ it.end = it.legs[n].end /\ it.duration = it.end - it.start BY DEF Timetable
    <2>2. PICK x \in Int, y \in Int : x = it.start /\ y = it.end
      <3>1. 1 \in 1 .. n /\ n \in 1 .. n BY <1>1
      <3> QED BY <1>1, <2>1, <3>1
    <2>3. after.legs[1].start = x - s
      <3>1. CASE i = 1 BY <1>2, <2>1, <2>2, <3>1
      <3>2. CASE i # 1
        <4>1. 1 \in 1 .. i - 1 BY <1>1, <3>2
        <4>2. after.legs[1].start = x + -s BY <1>2, <2>1, <2>2, <4>1 DEF Moved
        <4> QED BY <4>2
      <3> QED BY <3>1, <3>2
    <2>4. after.legs[N] = it.legs[n]
      <3>1. N \in i + 2 .. n + d /\ N - d = n BY <1>1, <1>5
      <3>2. \A k \in i + 2 .. n + d : after.legs[k] = it.legs[k - d] BY <1>2
      <3>3. after.legs[N] = it.legs[N - d] BY <3>1, <3>2
      <3> QED BY <3>1, <3>3
    <2>5. after.duration = (y - x) + s /\ after.start = x - s /\ after.end = y BY <1>2, <2>1, <2>2
    <2> QED BY <2>1, <2>2, <2>3, <2>4, <2>5
  <1>11. TaxiAtTheEnds(after)
    <2> SUFFICES ASSUME NEW a \in 1 .. N, NEW b \in 1 .. N, a <= b, after.legs[b].mode = "CAR", Feeding(after, b)
                 PROVE  ~after.legs[a].transit
      BY <1>1 DEF TaxiAtTheEnds
    <2>1. \A k \in 1 .. i : after.legs[k].transit = it.legs[k].transit
      <3> SUFFICES ASSUME NEW k \in 1 .. i PROVE after.legs[k].transit = it.legs[k].transit OBVIOUS
      <3>1. CASE k = i BY <1>2, <3>1
      <3>2. CASE k # i
        <4>1. k \in 1 .. i - 1 BY <1>1, <3>2
        <4> QED BY <1>2, <4>1 DEF Moved, Like
      <3> QED BY <3>1, <3>2
    <2>2. CASE a <= i
      <3>1. a \in 1 .. i BY <1>1, <2>2
      <3> QED BY <1>3, <2>1, <3>1
    <2>3. CASE a = i + 1 BY <1>2, <2>3
    <2>4. CASE a >= i + 2
      <3>1. /\ a \in i + 2 .. n + d /\ b \in i + 2 .. n + d /\ a - d \in 1 .. n /\ b - d \in 1 .. n /\ a - d <= b - d
        BY <1>1, <2>4
      <3>2. after.legs[a] = it.legs[a - d] /\ after.legs[b] = it.legs[b - d] BY <1>2, <3>1
      <3>3. Feeding(it, b - d)
        <4>1. PICK j \in (b + 1) .. N : after.legs[j].transit BY DEF Feeding
        <4>2. j \in i + 2 .. n + d /\ j - d \in ((b - d) + 1) .. n BY <1>1, <3>1, <4>1
        <4>3. it.legs[j - d].transit BY <1>2, <4>1, <4>2
        <4> QED BY <4>2, <4>3 DEF Feeding
      <3> QED BY <1>1, <3>1, <3>2, <3>3 DEF TaxiAtTheEnds
    <2> QED BY <1>1, <2>2, <2>3, <2>4
  <1>12. DepartureTimes(after) = DepartureTimes(it)
    <2>1. ASSUME NEW k \in 1 .. N, after.legs[k].transit
          PROVE  k - d \in 1 .. n /\ after.legs[k] = it.legs[k - d]
      <3>1. ~(k < i)
        <4> SUFFICES ASSUME k < i PROVE FALSE OBVIOUS
        <4>1. k \in 1 .. i - 1 /\ k \in 1 .. i BY <1>1
        <4>2. Moved(after.legs[k], it.legs[k], -s) BY <1>2, <4>1
        <4>3. after.legs[k].transit = it.legs[k].transit BY <4>2 DEF Moved, Like
        <4>4. ~it.legs[k].transit BY <1>3, <4>1
        <4> QED BY <2>1, <4>3, <4>4
      <3>2. k # i
        <4>1. i \in 1 .. i BY <1>1
        <4>2. ~it.legs[i].transit BY <1>3, <4>1
        <4>3. after.legs[i].transit = it.legs[i].transit BY <1>2
        <4> QED BY <2>1, <4>2, <4>3
      <3>3. k # i + 1 BY <1>2, <2>1
      <3>4. k \in i + 2 .. n + d /\ k - d \in 1 .. n
        <4>1. k \in 1 .. n + d /\ i \in Int /\ 1 <= i /\ 0 <= d /\ d <= 1 BY <1>1
        <4>2. i + 2 <= k BY <3>1, <3>2, <3>3, <4>1
        <4> QED BY <1>1, <4>1, <4>2
      <3> QED BY <1>2, <3>4
    <2>2. ASSUME NEW k \in 1 .. n, it.legs[k].transit
          PROVE  k + d \in 1 .. N /\ after.legs[k + d] = it.legs[k]
      <3>1. ~(k <= i) BY <1>1, <1>3, <2>2
      <3>2. d = 0 => k # i + 1 BY <1>4, <2>2
      <3>3. k + d \in i + 2 .. n + d /\ (k + d) - d = k /\ k + d \in 1 .. N BY <1>1, <3>1, <3>2
      <3> QED BY <1>2, <3>3
    <2>3. DepartureTimes(it) = {<<it.legs[k].ride, it.legs[k].start>> : k \in {k \in 1 .. n : it.legs[k].transit}}
      BY <1>1 DEF DepartureTimes
    <2>4. DepartureTimes(after) = {<<after.legs[k].ride, after.legs[k].start>> : k \in {k \in 1 .. N : after.legs[k].transit}}
      BY <1>1 DEF DepartureTimes
    <2>5. DepartureTimes(after) \subseteq DepartureTimes(it) BY <2>1, <2>3, <2>4
    <2>6. DepartureTimes(it) \subseteq DepartureTimes(after) BY <2>2, <2>3, <2>4
    <2> QED BY <2>5, <2>6
  <1>13. Timetable(after) BY <1>1, <1>8, <1>9, <1>10 DEF Timetable
  <1> QED BY <1>2, <1>11, <1>12, <1>13 DEF Kept

\* parkride.py:139-176: a car left at a zone instead of at the stop keeps the itinerary a
\* timetable whose buses and trains leave when the router said, however far the zone is,
\* and so does the traffic that is reckoned with afterwards.
THEOREM ParkedStaysATimetable ==
    ASSUME NEW R, "parking" \in R, NEW O, NEW it \in ItineraryOf(R, O), Timetable(it), TaxiAtTheEnds(it), KindsSaid(it),
           NEW i \in FirstCar(it), Feeding(it, i), NEW zone, zone.walk \in Nat
    PROVE  /\ Kept(R, O, it, Parked(it, i, zone)) /\ Kept(R, O, it, StretchAll(Parked(it, i, zone)))
           /\ Parked(it, i, zone).source = "parkride"
  <1>1. i \in 1 .. Len(it.legs) - 1 /\ it.legs[i].mode = "CAR"
    <2>1. it.legs \in Seq(LegOf(R)) BY DEF ItineraryOf
    <2>2. PICK j \in (i + 1) .. Len(it.legs) : it.legs[j].transit BY DEF Feeding
    <2>3. i \in 1 .. Len(it.legs) /\ it.legs[i].mode = "CAR" BY <2>1 DEF FirstCar
    <2> QED BY <2>1, <2>2, <2>3
  <1>2. PICK w \in Nat : w = zone.walk OBVIOUS
  <1>3. /\ Parked(it, i, zone) \in ItineraryOf(R, O)
        /\ \E d \in {0, 1}, sooner \in Nat, stop \in Int : ParkedSo(it, i, w, Parked(it, i, zone), d, sooner, stop)
    <2> PICK k \in 1 .. Len(it.legs) - 1 : k = i BY <1>1
    <2> QED BY <1>2, ParkedIs
  <1>4. PICK d \in {0, 1}, s \in Nat, stop \in Int : ParkedSo(it, i, w, Parked(it, i, zone), d, s, stop) BY <1>3
  <1>5. Kept(R, O, it, Parked(it, i, zone)) BY <1>1, <1>3, <1>4, ParkedKeeps
  <1>6. Rewritten(R, O, Parked(it, i, zone), StretchAll(Parked(it, i, zone)))
    BY <1>5, StretchedStaysATimetable DEF Kept
  <1> QED BY <1>4, <1>5, <1>6 DEF Rewritten, Kept, ParkedSo

-----------------------------------------------------------------------------
(***************************************************************************)
(* The rest of the merges, over itineraries of S.                          *)
(***************************************************************************)
AddsNew(f, its, plans) ==
    f = [i \in 0 .. Len(plans) |-> IF i = 0 THEN <<>> ELSE f[i - 1] \o NewDirect(plans[i], its \o f[i - 1])]
AddedNew(its, plans) == CHOOSE f : AddsNew(f, its, plans)
LEMMA DirectPicksIn ==
    ASSUME NEW S, Timed(S), NEW its, NEW plans \in Seq(Seq(S))
    PROVE  DirectPicks(its, plans) \in Seq(S)
  <1> DEFINE n == Len(plans)
             Turn(x, i) == x \o NewDirect(plans[i], its \o x)
             g == [i \in 1 .. n |-> [x \in Seq(S) |-> Turn(x, i)]]
             f == AddedNew(its, plans)
  <1>0. DirectPicks(its, plans) = f[n] BY DEF DirectPicks, AddedNew, AddsNew
  <1>1. n \in Nat /\ <<>> \in Seq(S) /\ \A i \in 1 .. n : plans[i] \in Seq(S) OBVIOUS
  <1>2. g \in [1 .. n -> [Seq(S) -> Seq(S)]]
    <2>1. ASSUME NEW i \in 1 .. n, NEW x \in Seq(S) PROVE Turn(x, i) \in Seq(S)
      <3>1. NewDirect(plans[i], its \o x) \in Seq(S) BY <1>1, NewDirectIn
      <3> QED BY <3>1, ConcatProperties
    <2> HIDE DEF n, Turn
    <2> QED BY <2>1
  <1>3. AddsNew(f, its, plans)
    <2>1. PICK x \in [0 .. n -> Seq(S)] : IsLoop(x, <<>>, g, n)
      <3> HIDE DEF g, n
      <3> QED BY <1>1, <1>2, LoopExists
    <2>2. \A i \in 0 .. n : i # 0 => g[i][x[i - 1]] = Turn(x[i - 1], i)
      <3> SUFFICES ASSUME NEW i \in 0 .. n, i # 0 PROVE g[i][x[i - 1]] = Turn(x[i - 1], i) OBVIOUS
      <3> HIDE DEF Turn
      <3>1. i \in 1 .. n /\ x[i - 1] \in Seq(S)
        <4> HIDE DEF g, n
        <4> QED BY <1>1
      <3> QED BY <3>1
    <2> HIDE DEF g, Turn
    <2>3. [i \in 0 .. n |-> IF i = 0 THEN <<>> ELSE g[i][x[i - 1]]] = [i \in 0 .. n |-> IF i = 0 THEN <<>> ELSE Turn(x[i - 1], i)]
      BY <2>2
    <2>4. AddsNew(x, its, plans) BY <2>1, <2>3 DEF IsLoop, AddsNew, Turn
    <2> QED BY <2>4, Zenon DEF AddedNew
  <1> HIDE DEF f
  <1>4. f[0] = <<>> /\ \A i \in 1 .. n : f[i] = Turn(f[i - 1], i)
    <2>1. f = [i \in 0 .. n |-> IF i = 0 THEN <<>> ELSE Turn(f[i - 1], i)] BY <1>3 DEF AddsNew
    <2> HIDE DEF n, Turn
    <2>2. 0 \in 0 .. n /\ \A i \in 1 .. n : i \in 0 .. n /\ i # 0 BY <1>1
    <2> QED BY <2>1, <2>2
  <1>5. \A i \in 1 .. n : f[i - 1] \in Seq(S) => f[i] = g[i][f[i - 1]]
    <2> HIDE DEF n, Turn
    <2> QED BY <1>4
  <1>6. \A i \in 0 .. n : f[i] \in Seq(S)
    <2> HIDE DEF n, g
    <2> QED BY <1>1, <1>2, <1>4, <1>5, LoopStays
  <1> QED BY <1>0, <1>1, <1>6

LEMMA MergeDirectIn ==
    ASSUME NEW S, Timed(S), NEW its \in Seq(S), NEW plans \in Seq(Seq(S)), NEW num
    PROVE  MergeDirect(its, plans, num) \in Seq(S)
  <1> DEFINE keep == Range(BestPlainTransit(its))
             picks == DirectPicks(its, plans)
             them == AddedDirect(its, picks, num + Len(plans), keep)[Len(picks)]
  <1>1. MergeDirect(its, plans, num) = IF plans = <<>> THEN its ELSE Ranked(them) BY MergeDirectIs
  <1>2. picks \in Seq(S) BY DirectPicksIn
  <1> HIDE DEF keep, picks
  <1>3. them \in Seq(S)
    <2>1. Len(picks) \in 0 .. Len(picks) BY <1>2
    <2> QED BY <1>2, <2>1, DirectAdded
  <1> HIDE DEF them
  <1> QED BY <1>1, <1>3, RankedIn

Zones == [metres : Nat, spaces : Int, allowed : BOOLEAN, walk : Nat]
LEMMA NearestIn ==
    ASSUME NEW zones \in Seq(Zones)
    PROVE  Nearest(zones) \in Seq(Zones)
  <1> DEFINE on == {i \in DOMAIN zones : Suits(zones[i])}
             suited == Picked(zones, on)
             key == [i \in DOMAIN suited |-> <<suited[i].metres, 0>>]
  <1>1. Nearest(zones) = FirstOf(SortedBy(suited, key), 1) BY DEF Nearest, Where
  <1> HIDE DEF on
  <1>2. suited \in Seq(Zones) BY PickedIs
  <1> HIDE DEF suited
  <1>3. HasKeys(key, Len(suited))
    <2>1. DOMAIN suited = 1 .. Len(suited) /\ \A i \in 1 .. Len(suited) : suited[i] \in Zones BY <1>2
    <2>2. \A i \in 1 .. Len(suited) : suited[i].metres \in Int BY <2>1 DEF Zones
    <2> QED BY <2>1, <2>2 DEF HasKeys
  <1> HIDE DEF key
  <1>4. SortedBy(suited, key) \in Seq(Zones) BY <1>2, <1>3, SortedIs
  <1>5. 1 \in Nat OBVIOUS
  <1> QED BY <1>1, <1>4, <1>5, FirstOnes

-----------------------------------------------------------------------------
\* What the lists of a plan hold: timetables of the departures the router gave.
Routed == LegRides \cup {"parking"}
Objects == Nat \X Nat
HeldOf(f) == {it \in ItineraryOf(Routed, Objects) :
                Timetable(it) /\ TaxiAtTheEnds(it) /\ DepartureTimes(it) = DepartureTimes(f[it.of[1]][it.of[2]])}
Plainly(S) == {it \in S : KindsSaid(it) /\ it.source = "primary"}

LEMMA HeldRows == ASSUME NEW f PROVE Rows(HeldOf(f))
  <1>1. Timed(HeldOf(f)) BY DEF Timed, HeldOf, ItineraryOf
  <1>2. ASSUME NEW it \in HeldOf(f), NEW source \in {"rental", "ondemand"}
        PROVE  /\ [it EXCEPT !.source = source] \in HeldOf(f)
               /\ [it EXCEPT !.source = source].source = source /\ [it EXCEPT !.source = source].legs = it.legs
    <2> DEFINE to == [it EXCEPT !.source = source]
    <2>1. /\ to \in ItineraryOf(Routed, Objects) /\ to.source = source /\ to.legs = it.legs /\ to.of = it.of
          /\ to.start = it.start /\ to.end = it.end /\ to.duration = it.duration
      BY DEF HeldOf, ItineraryOf
    <2> HIDE DEF to
    <2>2. Timetable(to) /\ TaxiAtTheEnds(to) /\ DepartureTimes(to) = DepartureTimes(it)
      BY <2>1 DEF HeldOf, Timetable, TaxiAtTheEnds, DepartureTimes, Feeding
    <2>3. to \in HeldOf(f) BY <2>1, <2>2 DEF HeldOf
    <2> QED BY <2>1, <2>3 DEF to
  <1> QED BY <1>1, <1>2 DEF Rows

\* An itinerary whose car is left at a zone is one of them too.
LEMMA ParkedHeld ==
    ASSUME NEW f, NEW it \in Plainly(HeldOf(f)), NEW zone \in Zones, \E i \in FirstCar(it) : Feeding(it, i)
    PROVE  Parked(it, CHOOSE i \in FirstCar(it) : TRUE, zone) \in Sourced(HeldOf(f), "parkride")
  <1>1. PICK i \in FirstCar(it) : Feeding(it, i) OBVIOUS
  <1>2. it \in ItineraryOf(Routed, Objects) /\ Timetable(it) /\ TaxiAtTheEnds(it) /\ KindsSaid(it) BY DEF Plainly, HeldOf
  <1>3. FirstCar(it) = {i}
    <2>1. it.legs \in Seq(LegOf(Routed)) BY <1>2 DEF ItineraryOf
    <2>2. DOMAIN it.legs = 1 .. Len(it.legs) /\ Len(it.legs) \in Nat BY <2>1
    <2>3. ASSUME NEW j \in FirstCar(it) PROVE j = i
      <3>1. /\ i \in 1 .. Len(it.legs) /\ it.legs[i].mode = "CAR" /\ \A k \in 1 .. (i - 1) : it.legs[k].mode # "CAR"
            /\ j \in 1 .. Len(it.legs) /\ it.legs[j].mode = "CAR" /\ \A k \in 1 .. (j - 1) : it.legs[k].mode # "CAR"
        BY <2>2 DEF FirstCar
      <3>2. ~(i < j) /\ ~(j < i) BY <2>2, <3>1
      <3> QED BY <2>2, <3>1, <3>2
    <2> QED BY <2>3
  <1>4. (CHOOSE j \in FirstCar(it) : TRUE) = i
    <2> DEFINE c == CHOOSE j \in FirstCar(it) : TRUE
    <2>1. c \in FirstCar(it) BY <1>1, Zenon
    <2> QED BY <1>3, <2>1
  <1>5. zone.walk \in Nat BY DEF Zones
  <1>6. "parking" \in Routed BY DEF Routed
  <1> DEFINE after == Parked(it, i, zone)
  <1>7. Kept(Routed, Objects, it, after) /\ after.source = "parkride"
    BY <1>1, <1>2, <1>5, <1>6, ParkedStaysATimetable
  <1> HIDE DEF after
  <1>8. after \in HeldOf(f) BY <1>7 DEF Kept, HeldOf, Plainly
  <1> QED BY <1>4, <1>7, <1>8 DEF Sourced, after

LEMMA AttachParkRideIn ==
    ASSUME NEW f, NEW its \in Seq(Plainly(HeldOf(f))), NEW zones \in Seq(Zones)
    PROVE  AttachParkRide(its, zones) \in Seq(Sourced(HeldOf(f), "parkride"))
  <1> DEFINE S == Plainly(HeldOf(f))
             near == Nearest(zones)
             fits(it) == near # <<>> /\ \E i \in FirstCar(it) : Feeding(it, i) /\ it.legs[i].metres <= MaxDrive
             on == {k \in DOMAIN its : fits(its[k])}
             U == {it \in S : fits(it)}
             suited == Picked(its, on)
             T == Sourced(HeldOf(f), "parkride")
             to(it) == Parked(it, CHOOSE i \in FirstCar(it) : TRUE, near[1])
             done == [k \in DOMAIN suited |-> to(suited[k])]
  <1>1. AttachParkRide(its, zones) = done BY DEF AttachParkRide, Where
  <1>2. near \in Seq(Zones) BY NearestIn
  <1>3. suited \in Seq(U)
    <2>1. its \in Seq(S) OBVIOUS
    <2>2. \A k \in 1 .. Len(its) : k \in on => its[k] \in U
      <3>1. \A k \in 1 .. Len(its) : its[k] \in S BY <2>1
      <3> HIDE DEF fits, S
      <3> QED BY <3>1
    <2> HIDE DEF on, U, S
    <2> QED BY <2>1, <2>2, KeptIn
  <1>4. ASSUME NEW it \in U PROVE to(it) \in T
    <2>1. it \in S /\ near # <<>> /\ \E i \in FirstCar(it) : Feeding(it, i) OBVIOUS
    <2> HIDE DEF near
    <2>2. near[1] \in Zones BY <1>2, <2>1
    <2> QED BY <2>1, <2>2, ParkedHeld
  <1> HIDE DEF suited, to, T, U
  <1>5. DOMAIN suited = 1 .. Len(suited) /\ Len(suited) \in Nat /\ \A k \in 1 .. Len(suited) : suited[k] \in U BY <1>3
  <1>6. done \in [1 .. Len(suited) -> T] BY <1>4, <1>5
  <1> HIDE DEF done
  <1>7. done \in Seq(T) BY <1>5, <1>6, IsList
  <1> QED BY <1>1, <1>7 DEF T

\* The rows the router gave, each with its place.
LEMMA ToldHeld ==
    ASSUME NEW queries, NEW lists, Answers(queries, lists), NEW f, f = Told(lists)
    PROVE  f \in Seq(Seq(Plainly(HeldOf(f))))
  <1> DEFINE P == Plainly(HeldOf(f))
             n == Len(lists)
  <1>1. /\ n \in Nat /\ DOMAIN lists = 1 .. n
        /\ \A i \in 1 .. n : lists[i] \in Seq(RouterRows)
    BY DEF Answers
  <1>2. f = [i \in 1 .. n |-> [j \in DOMAIN lists[i] |-> [lists[i][j] EXCEPT !.of = <<i, j>>]]] BY <1>1 DEF Told
  <1>3. ASSUME NEW i \in 1 .. n, NEW j \in 1 .. Len(lists[i]) PROVE f[i][j] \in P
    <2> DEFINE raw == lists[i][j]
               elt == [raw EXCEPT !.of = <<i, j>>]
    <2>1. /\ raw \in ItineraryOf(LegRides, {<<>>}) /\ Timetable(raw) /\ TaxiAtTheEnds(raw) /\ KindsSaid(raw)
          /\ raw.source = "primary"
      <3>1. lists[i] \in Seq(RouterRows) BY <1>1
      <3>2. lists[i][j] \in RouterRows BY <3>1
      <3> QED BY <3>2 DEF RouterRows
    <2>2. f[i][j] = elt
      <3>1. lists[i] \in Seq(RouterRows) BY <1>1
      <3>2. DOMAIN lists[i] = 1 .. Len(lists[i]) BY <3>1
      <3> QED BY <1>2, <3>2
    <2>3. <<i, j>> \in Objects BY <1>1 DEF Objects
    <2>4. raw.legs \in Seq(LegOf(Routed)) \ {<<>>}
      <3>1. LegOf(LegRides) \subseteq LegOf(Routed) BY DEF LegOf, Routed
      <3>2. Seq(LegOf(LegRides)) \subseteq Seq(LegOf(Routed)) BY <3>1, SeqMonotonic
      <3> QED BY <2>1, <3>2 DEF ItineraryOf
    <2> HIDE DEF raw
    <2>5. /\ elt \in ItineraryOf(Routed, Objects) /\ elt.legs = raw.legs /\ elt.of = <<i, j>>
          /\ elt.start = raw.start /\ elt.end = raw.end /\ elt.duration = raw.duration /\ elt.source = raw.source
      BY <2>1, <2>3, <2>4 DEF ItineraryOf
    <2> HIDE DEF elt
    <2>6. Timetable(elt) /\ TaxiAtTheEnds(elt) /\ KindsSaid(elt)
      BY <2>1, <2>5 DEF Timetable, TaxiAtTheEnds, KindsSaid, Feeding
    <2>7. f[elt.of[1]][elt.of[2]] = elt BY <2>2, <2>5
    <2> QED BY <2>1, <2>2, <2>5, <2>6, <2>7 DEF Plainly, HeldOf
  <1>4. ASSUME NEW i \in 1 .. n PROVE f[i] \in Seq(P)
    <2>1. lists[i] \in Seq(RouterRows) BY <1>1
    <2>2. Len(lists[i]) \in Nat /\ DOMAIN lists[i] = 1 .. Len(lists[i]) BY <2>1
    <2>3. f[i] = [j \in 1 .. Len(lists[i]) |-> f[i][j]] BY <1>2, <2>2
    <2> HIDE DEF P
    <2>4. f[i] \in [1 .. Len(lists[i]) -> P] BY <1>3, <2>3
    <2> QED BY <2>2, <2>4, IsList
  <1> HIDE DEF P
  <1>5. f = [i \in 1 .. n |-> f[i]] BY <1>2
  <1> HIDE DEF n
  <1>6. f \in [1 .. n -> Seq(P)] BY <1>4, <1>5
  <1>7. f \in Seq(Seq(P)) BY <1>1, <1>6, IsList DEF n
  <1> QED BY <1>7 DEF P

\* The lists a reply starts from.
LEMMA PlansIn ==
    ASSUME PlanInv, Searched, NEW S, found \in Seq(Seq(S))
    PROVE  /\ BasePlans \in Seq(Seq(S)) /\ BasePlans # <<>> /\ BasePlans[1] = found[1]
           /\ RidePlans \in Seq(Seq(S)) /\ DirectPlans \in Seq(Seq(S))
           /\ ParkRide(asked) => found[parts.park] \in Seq(S)
  <1>1. /\ asked.modes \in Seq(Range(asked.modes)) /\ asked.num \in Nat
        /\ Laid(asked, searches) /\ Len(found) = Len(searches)
    BY SearchedIs
  <1>2. parts.rides = RidesFrom(asked) /\ parts.park = ParkAt(asked) /\ parts.direct = DirectFrom(asked)
    BY DEF Searched, PartsOf
  <1>3. PICK b \in Nat \ {0}, r \in Nat, p \in Nat :
          b = Len(BaseSearches(asked)) /\ r = Len(RideSearches(asked)) /\ p = Len(ParkSearches(asked))
    BY <1>1 DEF Laid
  <1>4. parts.rides = b + 1 /\ parts.direct = b + r + p + 1 /\ b + r + p <= Len(found)
    BY <1>1, <1>2, <1>3 DEF RidesFrom, DirectFrom, Laid
  <1>5. Len(found) \in Nat /\ DOMAIN found = 1 .. Len(found) /\ \A i \in 1 .. Len(found) : found[i] \in Seq(S) OBVIOUS
  <1>6. BasePlans \in Seq(Seq(S)) /\ BasePlans # <<>> /\ BasePlans[1] = found[1]
    <2> DEFINE d == SubSeq(found, 1, b)
    <2>1. b + 1 - 1 = b OBVIOUS
    <2>2. BasePlans = d BY <1>4, <2>1 DEF BasePlans
    <2>3. 1 \in Int /\ b \in Int /\ \A i \in 1 .. b : found[i] \in Seq(S) BY <1>4, <1>5
    <2>4. d \in Seq(Seq(S)) /\ Len(d) = (IF 1 <= b THEN b - 1 + 1 ELSE 0) /\ \A i \in 1 .. b - 1 + 1 : d[i] = found[1 + i - 1]
      BY <2>3, SubSeqProperties
    <2> HIDE DEF d
    <2>5. Len(d) = b /\ 1 \in 1 .. b - 1 + 1 /\ 1 + 1 - 1 = 1 BY <2>4
    <2>6. d[1] = found[1] BY <2>4, <2>5
    <2> QED BY <2>2, <2>4, <2>5, <2>6
  <1>7. DirectPlans \in Seq(Seq(S))
    <2> DEFINE d == SubSeq(found, b + r + p + 1, Len(found))
    <2>1. DirectPlans = d BY <1>4 DEF DirectPlans
    <2>2. b + r + p + 1 \in Int /\ Len(found) \in Int /\ \A i \in b + r + p + 1 .. Len(found) : found[i] \in Seq(S) BY <1>5
    <2>3. PICK u \in Int, v \in Int : u = b + r + p + 1 /\ v = Len(found) BY <2>2
    <2>4. \A i \in u .. v : found[i] \in Seq(S) BY <2>2, <2>3
    <2>5. d = SubSeq(found, u, v) BY <2>3
    <2> HIDE DEF d
    <2>6. d \in Seq(Seq(S)) BY <2>4, <2>5, SubSeqProperties
    <2> QED BY <2>1, <2>6
  <1>8. RidePlans \in Seq(Seq(S))
    <2> DEFINE T == Seq(S)
               n == IF OwnDropOff(asked) THEN r ELSE r + p
    <2> HIDE DEF T
    <2>1. RideRows(T, asked, found, n)
      <3>1. found \in Seq(T) BY DEF T
      <3> QED BY <1>1, <1>3, <3>1, RideRowsAre
    <2>2. RidePlans \in Seq(T) BY <1>2, <2>1 DEF RideRows, RidePlans
    <2> QED BY <2>2 DEF T
  <1>9. ASSUME ParkRide(asked) PROVE found[parts.park] \in Seq(S)
    <2>1. ParkAt(asked) \in DOMAIN searches BY <1>1, <1>9, ParkIsADropOff
    <2>2. searches \in Seq(QueriesOf(AllKinds)) BY <1>1 DEF Laid
    <2>3. DOMAIN searches = 1 .. Len(searches) BY <2>2
    <2> QED BY <1>1, <1>2, <1>5, <2>1, <2>3
  <1> QED BY <1>6, <1>7, <1>8, <1>9

\* The merges one after the other.
LEMMA MergedIn ==
    ASSUME PlanInv, Searched
    PROVE  Merged.its \in Seq(HeldOf(found))
  <1> DEFINE S == HeldOf(found)
             P == Plainly(S)
             q == asked
             base == MergePlans(BasePlans, q.num)
             rides == MergeOnDemand(base, RidePlans, q)
             park == IF ParkRide(q) THEN AttachParkRide(found[parts.park], q.zones) ELSE <<>>
             cars == IF ParkRide(q) THEN MergeParkRide(rides, park, q.num) ELSE rides
  <1>1. Merged.its = MergeDirect(cars, DirectPlans, q.num) BY DEF Merged
  <1>2. Rows(S) /\ Timed(S) BY HeldRows DEF Rows
  <1>3. found \in Seq(Seq(P))
    <2>1. PICK lists : Answers(searches, lists) /\ found = Told(lists) BY SearchedIs
    <2> QED BY <2>1, ToldHeld
  <1>4. Seq(P) \subseteq Seq(S)
    <2>1. P \subseteq S BY DEF Plainly
    <2> HIDE DEF P, S
    <2> QED BY <2>1, SeqMonotonic
  <1>5. found \in Seq(Seq(S))
    <2> HIDE DEF P, S
    <2>1. Seq(Seq(P)) \subseteq Seq(Seq(S)) BY <1>4, SeqMonotonic
    <2> QED BY <1>3, <2>1
  <1>6. BasePlans \in Seq(Seq(S)) /\ BasePlans # <<>> /\ RidePlans \in Seq(Seq(S)) /\ DirectPlans \in Seq(Seq(S))
    <2> HIDE DEF P, S
    <2> QED BY <1>5, PlansIn
  <1>7. q.num \in Nat /\ q.zones \in Seq(Zones) BY AsksAssumption DEF PlanInv, Zones
  <1>8. base \in Seq(S)
    <2> HIDE DEF S
    <2> QED BY <1>2, <1>6, <1>7, MergePlansIn
  <1> HIDE DEF base
  <1>9. rides \in Seq(S)
    <2> HIDE DEF S
    <2> QED BY <1>2, <1>6, <1>8, MergeOnDemandIn
  <1> HIDE DEF rides
  <1>10. park \in Seq(S)
    <2>1. CASE ~ParkRide(q)
      <3>1. park = <<>> BY <2>1
      <3> HIDE DEF park, S
      <3> QED BY <3>1
    <2>2. CASE ParkRide(q)
      <3> DEFINE done == AttachParkRide(found[parts.park], q.zones)
      <3>1. found[parts.park] \in Seq(P)
        <4> HIDE DEF P
        <4> QED BY <1>3, <2>2, PlansIn
      <3>2. done \in Seq(Sourced(S, "parkride")) BY <1>7, <3>1, AttachParkRideIn
      <3>3. Sourced(S, "parkride") \subseteq S BY DEF Sourced
      <3> HIDE DEF done, S
      <3>4. done \in Seq(S) BY <3>2, <3>3, SeqMonotonic
      <3> QED BY <2>2, <3>4 DEF done
    <2> QED BY <2>1, <2>2
  <1> HIDE DEF park
  <1>11. cars \in Seq(S)
    <2> HIDE DEF S
    <2> QED BY <1>2, <1>9, <1>10, MergeParkRideIn
  <1> HIDE DEF cars
  <1>12. MergeDirect(cars, DirectPlans, q.num) \in Seq(S)
    <2> HIDE DEF S
    <2> QED BY <1>2, <1>6, <1>11, MergeDirectIn
  <1> QED BY <1>1, <1>12

LEMMA WithinLimit ==
    ASSUME NEW S, NEW its \in Seq(S), NEW q
    PROVE  ApplyWalkLimit(its, q) \in Seq(S)
  <1> DEFINE on == {i \in DOMAIN its : WithinWalk(its[i])}
  <1>1. ApplyWalkLimit(its, q) = IF q.strictWalk THEN Picked(its, on) ELSE its BY DEF ApplyWalkLimit, Where
  <1> HIDE DEF on
  <1> QED BY <1>1, PickedIs

LEMMA PlanInvHeld == PlanInv => TimelineKept
  <1> SUFFICES ASSUME PlanInv, stage = "answered", NEW it \in Range(answer.its)
               PROVE  Timetable(it) /\ DepartureTimes(it) = DepartureTimes(found[it.of[1]][it.of[2]])
    BY DEF TimelineKept
  <1>1. Searched /\ Finished BY DEF PlanInv
  <1> DEFINE S == HeldOf(found)
             kept == ApplyWalkLimit(Merged.its, asked)
  <1>2. kept \in Seq(S)
    <2>1. Merged.its \in Seq(S) BY <1>1, MergedIn
    <2> HIDE DEF S
    <2> QED BY <2>1, WithinLimit
  <1> HIDE DEF kept
  <1>3. DOMAIN kept = 1 .. Len(kept) /\ \A k \in 1 .. Len(kept) : kept[k] \in S BY <1>2
  <1>4. answer.its = IF OnDemand(asked) THEN [k \in DOMAIN kept |-> StretchAll(kept[k])] ELSE kept
    BY <1>1 DEF Finished, AttachToPlan, kept
  <1>5. \E elt \in S : it = elt \/ it = StretchAll(elt)
    <2> HIDE DEF S
    <2>1. CASE OnDemand(asked)
      <3>1. PICK k \in DOMAIN kept : it = StretchAll(kept[k]) BY <1>4, <2>1 DEF Range
      <3> QED BY <1>3, <3>1
    <2>2. CASE ~OnDemand(asked)
      <3>1. PICK k \in DOMAIN kept : it = kept[k] BY <1>4, <2>2 DEF Range
      <3> QED BY <1>3, <3>1
    <2> QED BY <2>1, <2>2
  <1>6. PICK elt \in S : it = elt \/ it = StretchAll(elt) BY <1>5
  <1>7. /\ elt \in ItineraryOf(Routed, Objects) /\ Timetable(elt) /\ TaxiAtTheEnds(elt)
        /\ DepartureTimes(elt) = DepartureTimes(found[elt.of[1]][elt.of[2]])
    BY DEF HeldOf
  <1>8. CASE it = elt BY <1>7, <1>8
  <1>9. CASE it = StretchAll(elt)
    <2>1. Rewritten(Routed, Objects, elt, it) BY <1>7, <1>9, StretchedStaysATimetable
    <2> QED BY <1>7, <2>1 DEF Rewritten, Kept
  <1> QED BY <1>6, <1>8, <1>9

\* routers/plan.py:452-508: whatever merges, parked cars and slower rides make of what the
\* router found, every itinerary of the answer is a timetable, and its buses and trains
\* leave when the router said they do.
THEOREM TimelinesAreKept == PlanSpec => []TimelineKept
  BY PlanInvariant, PlanInvHeld, PTL

-----------------------------------------------------------------------------
(***************************************************************************)
(* The best plain transit option of a list: it comes before every other by *)
(* arrival, duration and place.  What a merge leaves of that.              *)
(***************************************************************************)
AheadOf(a, i, b, j) ==
    \/ a.end < b.end
    \/ a.end = b.end /\ (a.duration < b.duration \/ (a.duration = b.duration /\ i < j))
Leading(best, p, its) ==
    /\ p \in 1 .. Len(its) /\ its[p] = best /\ PlainTransit(best)
    /\ \A j \in 1 .. Len(its) : j # p /\ PlainTransit(its[j]) => AheadOf(best, p, its[j], j)
Leads(best, its) == \E p \in 1 .. Len(its) : Leading(best, p, its)

LEMMA AheadMoves ==
    ASSUME NEW a, NEW i, NEW b, NEW j, NEW m, NEW n, AheadOf(a, i, b, j), i < j => m < n
    PROVE  AheadOf(a, m, b, n)
  BY DEF AheadOf

LEMMA AheadOnce ==
    ASSUME NEW S, Timed(S), NEW a \in S, NEW b \in S, NEW i \in Nat, NEW j \in Nat, AheadOf(a, i, b, j), AheadOf(b, j, a, i)
    PROVE  FALSE
  <1>1. PICK s \in Int, t \in Int, x \in Int, y \in Int : s = a.end /\ t = b.end /\ x = a.duration /\ y = b.duration
    BY DEF Timed
  <1> QED BY <1>1 DEF AheadOf

\* All of a list, picked, is that list.
LEMMA PickedAll ==
    ASSUME NEW S, NEW s \in Seq(S), NEW on, \A i \in 1 .. Len(s) : i \in on
    PROVE  Picked(s, on) = s
  <1>1. PICK r \in Seq(S) : r = Picked(s, on) BY PickedIs
  <1>2. PICK h : Traces(h, r, s, on, Len(s)) BY <1>1, PickedIs
  <1>3. PICK n \in Nat, m \in Nat : n = Len(r) /\ m = Len(s) OBVIOUS
  <1>4. /\ h \in [1 .. n -> Nat]
        /\ \A k \in 1 .. n : h[k] \in 1 .. m /\ r[k] = s[h[k]]
        /\ \A k, l \in 1 .. n : k < l => h[k] < h[l]
        /\ \A i \in 1 .. m : \E k \in 1 .. n : h[k] = i
    BY <1>2, <1>3 DEF Traces
  <1> DEFINE Q == {k \in Nat : k <= n => \A l \in 1 .. k : h[l] = l}
  <1>5. 0 \in Q OBVIOUS
  <1>6. ASSUME NEW k \in Nat, k \in Q PROVE k + 1 \in Q
    <2> SUFFICES ASSUME k + 1 <= n PROVE h[k + 1] = k + 1 BY <1>6
    <2>1. \A l \in 1 .. k : h[l] = l BY <1>3, <1>6
    <2>2. k + 1 \in 1 .. n /\ h[k + 1] \in 1 .. m BY <1>3, <1>4
    <2>3. h[k + 1] > k
      <3>1. CASE k = 0 BY <2>2, <3>1
      <3>2. CASE k # 0
        <4>1. k \in 1 .. n /\ k \in 1 .. k BY <1>3, <3>2
        <4>2. h[k] < h[k + 1] BY <1>4, <2>2, <4>1
        <4> QED BY <2>1, <4>1, <4>2
      <3> QED BY <3>1, <3>2
    <2>4. ASSUME h[k + 1] > k + 1 PROVE FALSE
      <3>1. k + 1 \in 1 .. m BY <1>3, <2>2, <2>4
      <3>2. PICK l \in 1 .. n : h[l] = k + 1 BY <1>4, <3>1
      <3>3. ~(l <= k) BY <1>3, <2>1, <3>2
      <3>4. k + 1 < l BY <1>3, <2>4, <3>2, <3>3
      <3>5. h[k + 1] < h[l] BY <1>4, <2>2, <3>4
      <3> QED BY <2>2, <2>4, <3>2, <3>5
    <2> QED BY <2>2, <2>3, <2>4
  <1> HIDE DEF Q
  <1>7. n \in Q BY <1>5, <1>6, Induction
  <1>8. \A l \in 1 .. n : h[l] = l BY <1>7 DEF Q
  <1>9. n = m
    <2>1. n <= m
      <3>1. CASE n = 0 BY <3>1
      <3>2. CASE n # 0
        <4>1. n \in 1 .. n BY <3>2
        <4> QED BY <1>4, <1>8, <4>1
      <3> QED BY <3>1, <3>2
    <2>2. m <= n
      <3>1. CASE m = 0 BY <3>1
      <3>2. CASE m # 0
        <4>1. m \in 1 .. m BY <3>2
        <4>2. PICK k \in 1 .. n : h[k] = m BY <1>4, <4>1
        <4> QED BY <1>8, <4>2
      <3> QED BY <3>1, <3>2
    <2> QED BY <2>1, <2>2
  <1>10. \A k \in 1 .. n : r[k] = s[k] BY <1>4, <1>8
  <1>11. r = s BY <1>3, <1>9, <1>10, SeqEqual
  <1> QED BY <1>1, <1>11

LEMMA PickedLeads ==
    ASSUME NEW S, NEW its \in Seq(S), NEW b, NEW p, Leading(b, p, its), NEW on, p \in on
    PROVE  Leads(b, Picked(its, on))
  <1>1. PICK r \in Seq(S) : r = Picked(its, on) BY PickedIs
  <1>2. PICK h : Traces(h, r, its, on, Len(its)) BY <1>1, PickedIs
  <1>3. /\ h \in [1 .. Len(r) -> Nat] /\ Len(r) \in Nat
        /\ \A n \in 1 .. Len(r) : h[n] \in 1 .. Len(its) /\ r[n] = its[h[n]]
        /\ \A n, k \in 1 .. Len(r) : n < k => h[n] < h[k]
        /\ \A i \in 1 .. Len(its) : i \in on => \E n \in 1 .. Len(r) : h[n] = i
    BY <1>2 DEF Traces
  <1>4. PICK k \in 1 .. Len(r) : h[k] = p BY <1>3 DEF Leading
  <1>5. r[k] = b /\ PlainTransit(b) BY <1>3, <1>4 DEF Leading
  <1>6. ASSUME NEW n \in 1 .. Len(r), n # k, PlainTransit(r[n]) PROVE AheadOf(b, k, r[n], n)
    <2>1. h[n] # p
      <3>1. n < k \/ k < n BY <1>3, <1>6
      <3>2. h[n] < h[k] \/ h[k] < h[n] BY <1>3, <3>1
      <3>3. h[n] \in Nat /\ h[k] \in Nat BY <1>3
      <3> QED BY <1>4, <3>2, <3>3
    <2>2. AheadOf(b, p, r[n], h[n]) BY <1>3, <1>6, <2>1 DEF Leading
    <2>3. p < h[n] => k < n
      <3>1. n < k => h[n] < p BY <1>3, <1>4
      <3>2. h[n] \in Nat /\ p \in Nat BY <1>3, <1>4
      <3> QED BY <1>3, <1>6, <3>1, <3>2
    <2> QED BY <2>2, <2>3, AheadMoves
  <1>7. Leading(b, k, r) BY <1>5, <1>6 DEF Leading
  <1> QED BY <1>1, <1>7 DEF Leads

LEMMA AppendLeads ==
    ASSUME NEW S, NEW its \in Seq(S), NEW pick \in S, pick.source # "primary", NEW b, Leads(b, its)
    PROVE  Leads(b, Append(its, pick))
  <1>1. PICK p \in 1 .. Len(its) : Leading(b, p, its) BY DEF Leads
  <1> DEFINE x == Append(its, pick)
  <1>2. PICK n \in Nat : n = Len(its) OBVIOUS
  <1>3. /\ Len(x) = n + 1 /\ x[n + 1] = pick /\ \A k \in 1 .. n : x[k] = its[k]
    BY <1>2, AppendProperties
  <1> HIDE DEF x
  <1>4. ~PlainTransit(pick) BY DEF PlainTransit
  <1>5. p \in 1 .. n /\ p \in 1 .. n + 1 /\ its[p] = b /\ PlainTransit(b)
        /\ \A j \in 1 .. n : j # p /\ PlainTransit(its[j]) => AheadOf(b, p, its[j], j)
    BY <1>1, <1>2 DEF Leading
  <1>6. ASSUME NEW j \in 1 .. n + 1, j # p, PlainTransit(x[j]) PROVE AheadOf(b, p, x[j], j)
    <2>1. j # n + 1 BY <1>3, <1>4, <1>6
    <2>2. j \in 1 .. n BY <1>6, <2>1
    <2> QED BY <1>3, <1>5, <1>6, <2>2
  <1>7. Leading(b, p, x) BY <1>3, <1>5, <1>6 DEF Leading
  <1> QED BY <1>3, <1>5, <1>7 DEF Leads, x

\* What the sort by arrival says of two rows.
LEMMA RankedOrder ==
    ASSUME NEW S, Timed(S), NEW its \in Seq(S)
    PROVE  /\ Ranked(its) \in Seq(S) /\ Len(Ranked(its)) = Len(its)
           /\ \E q : /\ q \in [1 .. Len(its) -> 1 .. Len(its)]
                     /\ \A n \in 1 .. Len(its) : Ranked(its)[n] = its[q[n]]
                     /\ \A i \in 1 .. Len(its) : \E n \in 1 .. Len(its) : q[n] = i
                     /\ \A m, n \in 1 .. Len(its) : m < n => AheadOf(its[q[m]], q[m], its[q[n]], q[n])
  <1> DEFINE key == [i \in DOMAIN its |-> <<its[i].end, its[i].duration>>]
  <1>1. DOMAIN its = 1 .. Len(its) /\ \A i \in 1 .. Len(its) : its[i].end \in Int /\ its[i].duration \in Int BY DEF Timed
  <1>2. HasKeys(key, Len(its)) BY <1>1 DEF HasKeys
  <1>3. Ranked(its) = SortedBy(its, key) BY DEF Ranked
  <1>4. \A i \in 1 .. Len(its) : key[i][1] = its[i].end /\ key[i][2] = its[i].duration BY <1>1
  <1> HIDE DEF key
  <1>5. \A i, j \in 1 .. Len(its) : Precedes(key, i, j) => AheadOf(its[i], i, its[j], j) BY <1>4 DEF Precedes, AheadOf
  <1>6. PICK q : Orders(q, SortedBy(its, key), its, key) BY <1>2, SortedIs
  <1>7. /\ q \in [1 .. Len(its) -> 1 .. Len(its)]
        /\ \A n \in 1 .. Len(its) : SortedBy(its, key)[n] = its[q[n]]
        /\ \A i \in 1 .. Len(its) : \E n \in 1 .. Len(its) : q[n] = i
        /\ \A m, n \in 1 .. Len(its) : m < n => Precedes(key, q[m], q[n])
    BY <1>6 DEF Orders
  <1>8. \A m, n \in 1 .. Len(its) : m < n => AheadOf(its[q[m]], q[m], its[q[n]], q[n]) BY <1>5, <1>7
  <1>9. SortedBy(its, key) \in Seq(S) /\ Len(SortedBy(its, key)) = Len(its) BY <1>2, SortedIs
  <1>10. PICK r : r = SortedBy(its, key) OBVIOUS
  <1>11. Ranked(its) = r BY <1>3, <1>10
  <1>12. r \in Seq(S) /\ Len(r) = Len(its) BY <1>9, <1>10
  <1>13. \A n \in 1 .. Len(its) : r[n] = its[q[n]] BY <1>7, <1>10
  <1> QED BY <1>7, <1>8, <1>11, <1>12, <1>13

LEMMA RankedLeads ==
    ASSUME NEW S, Timed(S), NEW its \in Seq(S), NEW b, Leads(b, its)
    PROVE  Leads(b, Ranked(its))
  <1>1. PICK p \in 1 .. Len(its) : Leading(b, p, its) BY DEF Leads
  <1>2. PICK r \in Seq(S) : r = Ranked(its) /\ Len(r) = Len(its) BY RankedOrder
  <1>3. PICK q : /\ q \in [1 .. Len(its) -> 1 .. Len(its)]
                 /\ \A n \in 1 .. Len(its) : r[n] = its[q[n]]
                 /\ \A i \in 1 .. Len(its) : \E n \in 1 .. Len(its) : q[n] = i
                 /\ \A m, n \in 1 .. Len(its) : m < n => AheadOf(its[q[m]], q[m], its[q[n]], q[n])
    BY <1>2, RankedOrder
  <1>4. PICK k \in 1 .. Len(its) : q[k] = p BY <1>3
  <1>5. r[k] = b /\ its[p] = b /\ PlainTransit(b) BY <1>1, <1>3, <1>4 DEF Leading
  <1>6. \A i \in 1 .. Len(its) : i \in Nat /\ its[i] \in S OBVIOUS
  <1>7. ASSUME NEW n \in 1 .. Len(its), n # k, PlainTransit(r[n]) PROVE AheadOf(b, k, r[n], n)
    <2>1. CASE k < n
      <3>1. AheadOf(b, p, r[n], q[n]) BY <1>3, <1>4, <1>5, <2>1
      <3> QED BY <2>1, <3>1, AheadMoves
    <2>2. CASE n < k
      <3>1. AheadOf(r[n], q[n], b, p) BY <1>3, <1>4, <1>5, <2>2
      <3>2. q[n] \in 1 .. Len(its) /\ r[n] = its[q[n]] BY <1>3
      <3>3. q[n] # p
        <4> SUFFICES ASSUME q[n] = p PROVE FALSE OBVIOUS
        <4>1. AheadOf(b, p, b, p) BY <1>5, <3>1, <3>2
        <4> QED BY <1>5, <1>6, <4>1, AheadOnce
      <3>4. AheadOf(b, p, r[n], q[n]) BY <1>1, <1>7, <3>2, <3>3 DEF Leading
      <3>5. b \in S /\ r[n] \in S /\ p \in Nat /\ q[n] \in Nat BY <1>5, <1>6, <3>2
      <3> QED BY <3>1, <3>4, <3>5, AheadOnce
    <2> QED BY <1>6, <1>7, <2>1, <2>2
  <1>8. Leading(b, k, r) BY <1>2, <1>5, <1>7 DEF Leading
  <1> QED BY <1>2, <1>8 DEF Leads

\* The list's own best one is the one that leads.
LEMMA BestLeads ==
    ASSUME NEW S, Timed(S), NEW its \in Seq(S), NEW b
    PROVE  b \in Range(BestPlainTransit(its)) <=> Leads(b, its)
  <1> DEFINE on == {i \in DOMAIN its : PlainTransit(its[i])}
             one == FirstOf(Ranked(Picked(its, on)), 1)
  <1>0. BestPlainTransit(its) = one BY DEF BestPlainTransit, Where
  <1>1. \A i \in 1 .. Len(its) : i \in on <=> PlainTransit(its[i]) OBVIOUS
  <1> HIDE DEF on
  <1>2. PICK w \in Seq(S) : w = Picked(its, on) BY PickedIs
  <1>3. PICK h : Traces(h, w, its, on, Len(its)) BY <1>2, PickedIs
  <1>4. /\ h \in [1 .. Len(w) -> Nat] /\ Len(w) \in Nat
        /\ \A n \in 1 .. Len(w) : h[n] \in 1 .. Len(its) /\ h[n] \in on /\ w[n] = its[h[n]]
        /\ \A n, k \in 1 .. Len(w) : n < k => h[n] < h[k]
        /\ \A i \in 1 .. Len(its) : i \in on => \E n \in 1 .. Len(w) : h[n] = i
    BY <1>3 DEF Traces
  <1>5. PICK r \in Seq(S) : r = Ranked(w) /\ Len(r) = Len(w) BY RankedOrder
  <1>6. PICK q : /\ q \in [1 .. Len(w) -> 1 .. Len(w)]
                 /\ \A n \in 1 .. Len(w) : r[n] = w[q[n]]
                 /\ \A i \in 1 .. Len(w) : \E n \in 1 .. Len(w) : q[n] = i
                 /\ \A m, n \in 1 .. Len(w) : m < n => AheadOf(w[q[m]], q[m], w[q[n]], q[n])
    BY <1>5, RankedOrder
  <1>7. one = FirstOf(r, 1) BY <1>2, <1>5
  <1> HIDE DEF one
  <1>8. b \in Range(one) <=> Len(w) # 0 /\ b = r[1]
    <2>1. 1 \in Nat OBVIOUS
    <2>2. /\ one \in Seq(S) /\ Len(one) = (IF Len(w) < 1 THEN Len(w) ELSE 1)
          /\ \A i \in 1 .. Len(one) : one[i] = r[i]
      BY <1>5, <1>7, <2>1, FirstOnes
    <2>9. one \in Seq(S) BY <2>2
    <2>3. DOMAIN one = 1 .. Len(one) BY <2>9
    <2>4. Len(w) # 0 => Len(one) = 1 BY <1>4, <2>2
    <2>5. Len(w) = 0 => Len(one) = 0 BY <2>2
    <2>6. Len(w) # 0 => DOMAIN one = {1} /\ one[1] = r[1] BY <2>2, <2>3, <2>4
    <2>7. Len(w) = 0 => DOMAIN one = {} BY <2>3, <2>5
    <2> QED BY <2>6, <2>7 DEF Range
  <1>9. ASSUME Len(w) # 0, b = r[1] PROVE Leads(b, its)
    <2>1. 1 \in 1 .. Len(w) BY <1>4, <1>9
    <2>2. PICK k \in 1 .. Len(w) : k = q[1] BY <1>6, <2>1
    <2>3. PICK p \in 1 .. Len(its) : p = h[k] BY <1>4
    <2>4. its[p] = b /\ w[k] = b /\ PlainTransit(b) BY <1>1, <1>4, <1>6, <1>9, <2>1, <2>2, <2>3
    <2>5. ASSUME NEW j \in 1 .. Len(its), j # p, PlainTransit(its[j]) PROVE AheadOf(b, p, its[j], j)
      <3>1. PICK m \in 1 .. Len(w) : h[m] = j BY <1>1, <1>4, <2>5
      <3>2. PICK n \in 1 .. Len(w) : q[n] = m BY <1>6
      <3>3. n # 1 BY <2>2, <2>3, <2>5, <3>1, <3>2
      <3>4. 1 < n BY <1>4, <3>3
      <3>5. AheadOf(b, k, w[m], m) BY <1>6, <2>1, <2>2, <2>4, <3>2, <3>4
      <3>6. w[m] = its[j] BY <1>4, <3>1
      <3>7. k < m => p < j BY <1>4, <2>3, <3>1
      <3> QED BY <3>5, <3>6, <3>7, AheadMoves
    <2>6. Leading(b, p, its) BY <2>4, <2>5 DEF Leading
    <2> QED BY <2>6 DEF Leads
  <1>10. ASSUME Leads(b, its) PROVE Len(w) # 0 /\ b = r[1]
    <2>1. PICK p \in 1 .. Len(its) : Leading(b, p, its) BY <1>10 DEF Leads
    <2>2. p \in on BY <1>1, <2>1 DEF Leading
    <2>3. Leads(b, w) BY <1>2, <2>1, <2>2, PickedLeads
    <2>4. PICK k \in 1 .. Len(w) : Leading(b, k, w) BY <2>3 DEF Leads
    <2>5. PICK n \in 1 .. Len(w) : q[n] = k BY <1>6
    <2>6. b = w[k] /\ b = r[n] BY <1>6, <2>4, <2>5 DEF Leading
    <2>7. n = 1
      <3> SUFFICES ASSUME n # 1 PROVE FALSE OBVIOUS
      <3>1. 1 < n /\ 1 \in 1 .. Len(w) BY <1>4
      <3>2. PICK i \in 1 .. Len(w) : i = q[1] BY <1>6, <3>1
      <3>3. AheadOf(w[i], i, b, k)
        <4>1. AheadOf(w[q[1]], q[1], w[q[n]], q[n]) BY <1>6, <3>1
        <4> QED BY <2>5, <2>6, <3>2, <4>1
      <3>4. \A x \in 1 .. Len(w) : w[x] \in S /\ x \in Nat OBVIOUS
      <3>5. i # k BY <2>6, <3>3, <3>4, AheadOnce
      <3>6. PlainTransit(w[i]) BY <1>1, <1>4
      <3>7. AheadOf(b, k, w[i], i) BY <2>4, <3>5, <3>6 DEF Leading
      <3> QED BY <2>6, <3>3, <3>4, <3>7, AheadOnce
    <2> QED BY <1>4, <2>6, <2>7
  <1> QED BY <1>0, <1>8, <1>9, <1>10

LEMMA PickedShort ==
    ASSUME NEW S, NEW s \in Seq(S), NEW on
    PROVE  Len(Picked(s, on)) <= Len(s)
  <1>1. PICK r \in Seq(S) : r = Picked(s, on) BY PickedIs
  <1>2. PICK h : Traces(h, r, s, on, Len(s)) BY <1>1, PickedIs
  <1>3. PICK n \in Nat, m \in Nat : n = Len(r) /\ m = Len(s) OBVIOUS
  <1>4. /\ h \in [1 .. n -> 1 .. m]
        /\ \A k, l \in 1 .. n : k < l => h[k] < h[l]
    BY <1>2, <1>3 DEF Traces
  <1>5. \A k, l \in 1 .. n : h[k] = h[l] => k = l
    <2> SUFFICES ASSUME NEW k \in 1 .. n, NEW l \in 1 .. n, h[k] = h[l] PROVE k = l OBVIOUS
    <2>1. h[k] \in 1 .. m BY <1>4
    <2>2. ~(k < l) /\ ~(l < k) BY <1>4, <2>1
    <2> QED BY <2>2
  <1>6. h \in Injection(1 .. n, 1 .. m) BY <1>4, <1>5 DEF Injection, IsInjective
  <1>7. 1 \in Int /\ n \in Int /\ m \in Int BY <1>3
  <1>8. /\ IsFiniteSet(1 .. m)
        /\ Cardinality(1 .. m) = (IF 1 > m THEN 0 ELSE m - 1 + 1)
        /\ Cardinality(1 .. n) = (IF 1 > n THEN 0 ELSE n - 1 + 1)
    BY <1>7, FS_Interval
  <1>9. Cardinality(1 .. n) <= Cardinality(1 .. m) BY <1>6, <1>8, FS_Injection
  <1>10. n <= m BY <1>3, <1>8, <1>9
  <1> QED BY <1>1, <1>3, <1>10

\* A row for which there is room drops none.
LEMMA FitsWhole ==
    ASSUME NEW S, NEW s \in Seq(S), NEW pick, NEW cap \in Int, Len(s) < cap, NEW droppable, droppable \subseteq 1 .. Len(s)
    PROVE  Fit(s, pick, cap, droppable) = Append(s, pick)
  <1> DEFINE after(i) == {j \in droppable : j >= i}
             on == {i \in DOMAIN s : i \in droppable => Cardinality(after(i)) > Len(s) - cap + 1}
  <1>1. MakeRoom(s, cap, droppable) = Picked(s, on) BY DEF MakeRoom
  <1>2. ASSUME NEW i \in 1 .. Len(s) PROVE i \in on
    <2> SUFFICES ASSUME i \in droppable PROVE Cardinality(after(i)) > Len(s) - cap + 1 OBVIOUS
    <2>0. i \in Int /\ i >= i OBVIOUS
    <2>1. i \in after(i) /\ after(i) \in SUBSET (1 .. Len(s)) BY <2>0
    <2>2. IsFiniteSet(1 .. Len(s))
      <3>1. 1 \in Int /\ Len(s) \in Int OBVIOUS
      <3> QED BY <3>1, FS_Interval
    <2> HIDE DEF after
    <2>3. IsFiniteSet(after(i)) BY <2>1, <2>2, FS_Subset
    <2>4. Cardinality(after(i)) \in Nat /\ Cardinality(after(i)) # 0 BY <2>1, <2>3, FS_CardinalityType, FS_EmptySet
    <2>5. PICK c \in Nat : c = Cardinality(after(i)) /\ c # 0 BY <2>4
    <2>6. c > Len(s) - cap + 1 BY <2>5
    <2> QED BY <2>5, <2>6
  <1> HIDE DEF on
  <1>3. Picked(s, on) = s BY <1>2, PickedAll
  <1> QED BY <1>1, <1>3 DEF Fit

\* Of the lists a merge of rentals goes through, what keeps the best one in:
\* whatever is beyond what the rider asked for is a rental.
WithRentals(best, num, x) == Leads(best, x) /\ Len(x) <= num + RentalCount(x)

LEMMA RentalCounted ==
    ASSUME NEW S, NEW s \in Seq(S)
    PROVE  /\ RentalCount(s) \in Nat
           /\ \A pick \in S : Rented(pick) => RentalCount(Append(s, pick)) = RentalCount(s) + 1
  <1> DEFINE of(x) == {i \in DOMAIN x : Rented(x[i])}
  <1>1. PICK n \in Nat : n = Len(s) OBVIOUS
  <1>2. DOMAIN s = 1 .. n BY <1>1
  <1>3. IsFiniteSet(of(s))
    <2>1. of(s) \in SUBSET (1 .. n) BY <1>2
    <2>2. 1 \in Int /\ n \in Int OBVIOUS
    <2> HIDE DEF of
    <2> QED BY <2>1, <2>2, FS_Interval, FS_Subset
  <1>4. ASSUME NEW pick \in S, Rented(pick) PROVE Cardinality(of(Append(s, pick))) = Cardinality(of(s)) + 1
    <2> DEFINE x == Append(s, pick)
    <2>1. x \in Seq(S) /\ Len(x) = n + 1 /\ x[n + 1] = pick /\ \A k \in 1 .. n : x[k] = s[k]
      BY <1>1, AppendProperties
    <2> HIDE DEF x
    <2>2. DOMAIN x = 1 .. n + 1 BY <2>1
    <2>3. of(x) = of(s) \cup {n + 1}
      <3>1. ASSUME NEW i \in 1 .. n + 1 PROVE Rented(x[i]) <=> i \in of(s) \cup {n + 1}
        <4>1. CASE i = n + 1 BY <1>4, <2>1, <4>1
        <4>2. CASE i # n + 1
          <5>1. i \in 1 .. n BY <4>2
          <5> QED BY <1>2, <2>1, <4>2, <5>1
        <4> QED BY <4>1, <4>2
      <3>2. of(s) \cup {n + 1} \subseteq 1 .. n + 1 BY <1>2
      <3> QED BY <2>2, <3>1, <3>2
    <2>4. n + 1 \notin of(s) BY <1>2
    <2> HIDE DEF of
    <2>5. Cardinality(of(x)) = Cardinality(of(s)) + 1 BY <1>3, <2>3, <2>4, FS_AddElement
    <2> QED BY <2>5 DEF x
  <1>5. Cardinality(of(s)) \in Nat
    <2> HIDE DEF of
    <2> QED BY <1>3, FS_CardinalityType
  <1> QED BY <1>4, <1>5 DEF RentalCount

LEMMA AddRentalLeads ==
    ASSUME NEW S, NEW s \in Seq(S), NEW pick \in S, pick.source = "rental", Rented(pick), NEW num \in Nat, NEW best,
           WithRentals(best, num, s)
    PROVE  WithRentals(best, num, AddRental(s, pick, num + 2))
  <1> DEFINE d == {i \in DOMAIN s : PlainRow(s[i])}
  <1>1. PICK n \in Nat, c \in Nat : n = Len(s) /\ c = RentalCount(s) BY RentalCounted
  <1>2. n <= num + c BY <1>1 DEF WithRentals
  <1>3. CASE c >= 2 /\ n >= num + 2
    <2>1. AddRental(s, pick, num + 2) = s BY <1>1, <1>3 DEF AddRental, MinRental
    <2> QED BY <2>1
  <1>4. CASE ~(c >= 2 /\ n >= num + 2)
    <2>1. AddRental(s, pick, num + 2) = Fit(s, pick, num + 2, d) BY <1>1, <1>4 DEF AddRental, MinRental
    <2>2. n < num + 2 BY <1>2, <1>4
    <2>3. d \subseteq 1 .. Len(s) /\ num + 2 \in Int /\ Len(s) < num + 2 BY <1>1, <2>2
    <2> HIDE DEF d
    <2>4. Fit(s, pick, num + 2, d) = Append(s, pick) BY <2>3, FitsWhole
    <2>5. Leads(best, Append(s, pick)) BY AppendLeads DEF WithRentals
    <2>6. Len(Append(s, pick)) = n + 1 BY <1>1, AppendProperties
    <2>7. RentalCount(Append(s, pick)) = c + 1 BY <1>1, RentalCounted
    <2>8. Len(Append(s, pick)) <= num + RentalCount(Append(s, pick)) BY <1>2, <2>6, <2>7
    <2> QED BY <2>1, <2>4, <2>5, <2>8 DEF WithRentals
  <1> QED BY <1>3, <1>4

\* The first search's rows, each once: the best one is among those kept.
LEMMA FirstLeads ==
    ASSUME NEW S, NEW them \in Seq(S), NEW best, Leads(best, them), EndTogether(them),
           \A it \in S : Timetable(it) /\ KindsSaid(it) /\ it.source = "primary" /\ it \in ItineraryOf(Routed, Objects)
    PROVE  Leads(best, Unseen(them, {}))
  <1> DEFINE on == {i \in DOMAIN them : Signature(them[i]) \notin {}}
             unmet == Picked(them, on)
             key == [i \in DOMAIN them |-> Signature(them[i])]
             once == {i \in DOMAIN them : \A j \in 1 .. (i - 1) : key[j] # key[i]}
  <1>1. unmet = them
    <2>1. \A i \in 1 .. Len(them) : i \in on OBVIOUS
    <2> HIDE DEF on
    <2> QED BY <2>1, PickedAll
  <1>2. Unseen(them, {}) = Picked(them, once)
    <2>1. Unseen(them, {}) = OnceBy(unmet, [i \in DOMAIN unmet |-> Signature(unmet[i])]) BY DEF Unseen, Where
    <2> HIDE DEF unmet
    <2>2. Unseen(them, {}) = OnceBy(them, key) BY <1>1, <2>1
    <2> QED BY <2>2 DEF OnceBy
  <1> HIDE DEF unmet, on
  <1>3. PICK p \in 1 .. Len(them) : Leading(best, p, them) BY DEF Leads, Leading
  <1>4. \A i \in 1 .. Len(them) : i \in DOMAIN them /\ i \in Nat /\ them[i] \in S /\ key[i] = Signature(them[i]) OBVIOUS
  <1> HIDE DEF key
  <1>5. ASSUME NEW j \in 1 .. (p - 1), key[j] = key[p] PROVE FALSE
    <2>1. j \in 1 .. Len(them) /\ j < p /\ j # p
      <3>1. p \in Nat /\ Len(them) \in Nat OBVIOUS
      <3> QED BY <3>1
    <2>2. PICK a \in S, b \in S : a = them[j] /\ b = them[p] /\ b = best BY <1>3, <1>4, <2>1 DEF Leading
    <2>3. Signature(a) = Signature(b) BY <1>4, <1>5, <2>1, <2>2
    <2>4. a.end = b.end BY <1>4, <2>1, <2>2, <2>3 DEF EndTogether
    <2>5. DOMAIN a.legs = DOMAIN b.legs
          /\ \A i \in DOMAIN b.legs : a.legs[i].mode = b.legs[i].mode /\ a.legs[i].start = b.legs[i].start
      <3>1. DOMAIN a.legs = DOMAIN b.legs
        <4>1. DOMAIN Signature(a) = DOMAIN a.legs /\ DOMAIN Signature(b) = DOMAIN b.legs BY DEF Signature
        <4> QED BY <2>3, <4>1
      <3>2. ASSUME NEW i \in DOMAIN b.legs PROVE a.legs[i].mode = b.legs[i].mode /\ a.legs[i].start = b.legs[i].start
        <4>1. Signature(a)[i] = <<a.legs[i].mode, a.legs[i].ride, a.legs[i].start>> BY <3>1 DEF Signature
        <4>2. Signature(b)[i] = <<b.legs[i].mode, b.legs[i].ride, b.legs[i].start>> BY DEF Signature
        <4> QED BY <2>3, <4>1, <4>2
      <3> QED BY <3>1, <3>2
    <2>6. \A i \in DOMAIN b.legs : /\ a.legs[i].transit <=> b.legs[i].transit
                                   /\ a.legs[i].rental <=> b.legs[i].rental
      <3>1. KindsSaid(a) /\ KindsSaid(b) OBVIOUS
      <3> QED BY <2>5, <3>1, Zenon DEF KindsSaid
    <2>7. PlainTransit(a)
      <3>1. PlainTransit(b) BY <1>3, <2>2 DEF Leading
      <3>2. Rides(b) /\ ~Rented(b) /\ ~Driven(b) BY <3>1 DEF PlainTransit
      <3>3. Rides(a)
        <4>1. PICK i \in DOMAIN b.legs : b.legs[i].transit BY <3>2 DEF Rides
        <4>2. i \in DOMAIN a.legs BY <2>5
        <4>3. a.legs[i].transit BY <2>6, <4>1, Zenon
        <4> QED BY <4>2, <4>3 DEF Rides
      <3>4. ~Rented(a)
        <4> SUFFICES ASSUME NEW i \in DOMAIN a.legs, a.legs[i].rental PROVE FALSE BY DEF Rented
        <4>1. i \in DOMAIN b.legs BY <2>5
        <4>2. b.legs[i].rental BY <2>6, <4>1, Zenon
        <4> QED BY <3>2, <4>1, <4>2 DEF Rented
      <3>5. ~Driven(a) BY <2>5, <3>2, Zenon DEF Driven
      <3>6. a.source = "primary" OBVIOUS
      <3> QED BY <3>3, <3>4, <3>5, <3>6 DEF PlainTransit
    <2>8. b.end \in Int /\ b.duration \in Int /\ b.legs \in Seq(LegOf(Routed)) /\ b.legs # <<>>
      <3>1. b \in ItineraryOf(Routed, Objects) OBVIOUS
      <3> QED BY <3>1 DEF ItineraryOf
    <2>9. 1 \in DOMAIN b.legs BY <2>8
    <2>10. a.start = b.start
      <3>1. Timetable(a) /\ Timetable(b) OBVIOUS
      <3> QED BY <2>5, <2>9, <3>1 DEF Timetable
    <2>11. a.duration = b.duration
      <3>1. Timetable(a) /\ Timetable(b) OBVIOUS
      <3> QED BY <2>4, <2>10, <3>1 DEF Timetable
    <2>12. AheadOf(b, p, a, j) BY <1>3, <2>1, <2>2, <2>7 DEF Leading
    <2>13. j \in Nat /\ p \in Nat BY <1>4, <2>1
    <2> QED BY <2>1, <2>4, <2>8, <2>11, <2>12, <2>13 DEF AheadOf
  <1>6. p \in once BY <1>4, <1>5
  <1> HIDE DEF once
  <1> QED BY <1>2, <1>3, <1>6, PickedLeads

LEMMA MergePlansLeads ==
    ASSUME NEW S, Rows(S), NEW P, P \subseteq S,
           \A it \in P : Timetable(it) /\ KindsSaid(it) /\ it.source = "primary" /\ it \in ItineraryOf(Routed, Objects),
           NEW plans \in Seq(Seq(S)), plans # <<>>, NEW num \in Nat,
           plans[1] \in Seq(P), EndTogether(plans[1]), NEW best,
           Leads(best, IF Len(plans) = 1 THEN plans[1] ELSE FirstOf(plans[1], num))
    PROVE  Leads(best, MergePlans(plans, num))
  <1> DEFINE them == FirstOf(plans[1], num)
             first == Unseen(them, {})
             some == RentalPicks(plans, first)
             picks == Shortest(some)
             f == AddedRentals(first, picks, num + 2)
             R == {it \in S : it.source = "rental" /\ Rented(it)}
  <1>1. MergePlans(plans, num) = IF Len(plans) = 1 THEN plans[1] ELSE Ranked(f[Len(picks)]) BY MergePlansIs
  <1>2. CASE Len(plans) = 1 BY <1>1, <1>2
  <1>3. CASE Len(plans) # 1
    <2>1. /\ them \in Seq(P) /\ Len(them) = (IF Len(plans[1]) < num THEN Len(plans[1]) ELSE num)
          /\ \A i \in 1 .. Len(them) : them[i] = plans[1][i]
      BY FirstOnes
    <2>2. Leads(best, them) BY <1>3
    <2> HIDE DEF them
    <2>3. EndTogether(them)
      <3>1. \A i \in DOMAIN them : i \in DOMAIN plans[1] /\ them[i] = plans[1][i]
        <4>1. DOMAIN them = 1 .. Len(them) /\ DOMAIN plans[1] = 1 .. Len(plans[1]) /\ Len(plans[1]) \in Nat BY <2>1
        <4> QED BY <2>1, <4>1
      <3> QED BY <3>1 DEF EndTogether
    <2>4. Leads(best, first) BY <2>1, <2>2, <2>3, FirstLeads
    <2>5. them \in Seq(S)
      <3>1. Seq(P) \subseteq Seq(S) BY SeqMonotonic
      <3> QED BY <2>1, <3>1
    <2>6. first \in Seq(S) BY <2>5, UnseenIn
    <2>7. Len(first) <= num
      <3> DEFINE on == {i \in DOMAIN them : Signature(them[i]) \notin {}}
                 unmet == Picked(them, on)
                 once == {i \in DOMAIN unmet : \A j \in 1 .. (i - 1) : Signature(unmet[j]) # Signature(unmet[i])}
                 key == [i \in DOMAIN unmet |-> Signature(unmet[i])]
                 at2 == {i \in DOMAIN unmet : \A j \in 1 .. (i - 1) : key[j] # key[i]}
      <3>1. first = Picked(unmet, at2) BY DEF Unseen, Where, OnceBy
      <3> HIDE DEF on, at2, first
      <3>2. unmet \in Seq(S) /\ Len(unmet) <= Len(them) BY <2>5, PickedIs, PickedShort
      <3> HIDE DEF unmet
      <3>3. Len(first) <= Len(unmet) BY <3>1, <3>2, PickedShort
      <3>4. PICK a \in Nat, b \in Nat, c \in Nat : a = Len(first) /\ b = Len(unmet) /\ c = Len(them) BY <2>5, <2>6, <3>2
      <3>5. c <= num
        <4>1. Len(plans[1]) \in Nat OBVIOUS
        <4> QED BY <2>1, <3>4, <4>1
      <3> QED BY <3>2, <3>3, <3>4, <3>5
    <2> HIDE DEF first
    <2>8. WithRentals(best, num, first)
      <3>1. PICK a \in Nat, c \in Nat : a = Len(first) /\ c = RentalCount(first) BY <2>6, RentalCounted
      <3> QED BY <2>4, <2>7, <3>1 DEF WithRentals
    <2>9. picks \in Seq(R)
      <3>1. some \in Seq(R) BY RentalPicksIn
      <3>2. Timed(R) BY DEF Rows, Timed
      <3> HIDE DEF some, R
      <3> QED BY <3>1, <3>2, RankedIn
    <2>10. picks \in Seq(S)
      <3>1. R \subseteq S OBVIOUS
      <3> HIDE DEF picks, R
      <3> QED BY <2>9, <3>1, SeqMonotonic
    <2> HIDE DEF some, picks
    <2>11. /\ f[0] = first /\ \A i \in 1 .. Len(picks) : f[i] = AddRental(f[i - 1], picks[i], num + 2)
           /\ \A i \in 0 .. Len(picks) : f[i] \in Seq(S)
      BY <2>6, <2>10, RentalsAdded
    <2> HIDE DEF f
    <2>12. PICK n \in Nat : n = Len(picks) BY <2>10
    <2> DEFINE Q == {m \in Nat : m <= n => WithRentals(best, num, f[m])}
    <2>13. 0 \in Q BY <2>8, <2>11
    <2>14. ASSUME NEW m \in Nat, m \in Q PROVE m + 1 \in Q
      <3> SUFFICES ASSUME m + 1 <= n PROVE WithRentals(best, num, f[m + 1]) OBVIOUS
      <3>1. m + 1 \in 1 .. n /\ (m + 1) - 1 = m /\ m <= n /\ m \in 0 .. n OBVIOUS
      <3>2. f[m + 1] = AddRental(f[m], picks[m + 1], num + 2) BY <2>11, <2>12, <3>1
      <3>3. picks[m + 1] \in S /\ picks[m + 1].source = "rental" /\ Rented(picks[m + 1])
        <4>1. picks[m + 1] \in R BY <2>9, <2>12, <3>1
        <4> QED BY <4>1
      <3>4. f[m] \in Seq(S) /\ WithRentals(best, num, f[m]) BY <2>11, <2>12, <2>14, <3>1
      <3> QED BY <3>2, <3>3, <3>4, AddRentalLeads
    <2> HIDE DEF Q
    <2>15. n \in Q BY <2>13, <2>14, Induction
    <2>16. Leads(best, f[n]) BY <2>15 DEF Q, WithRentals
    <2>17. f[n] \in Seq(S) /\ Timed(S) BY <2>11, <2>12 DEF Rows
    <2>18. Leads(best, Ranked(f[n])) BY <2>16, <2>17, RankedLeads
    <2> QED BY <1>1, <1>3, <2>12, <2>18 DEF f, first, picks, some, them
  <1> QED BY <1>2, <1>3

LEMMA MergePicksLeads ==
    ASSUME NEW S, Timed(S), NEW its \in Seq(S), NEW picks \in Seq(S), NEW num, NEW best, Leads(best, its),
           \A i \in 1 .. Len(picks) : picks[i].source # "primary"
    PROVE  Leads(best, MergePicks(its, picks, num))
  <1> DEFINE keep == Range(BestPlainTransit(its))
             f == AddedPicks(its, picks, num + 3, keep)
  <1>1. MergePicks(its, picks, num) = Ranked(f[Len(picks)]) BY MergePicksIs
  <1>2. best \in keep BY BestLeads
  <1> HIDE DEF keep
  <1>3. /\ f[0] = its /\ \A i \in 1 .. Len(picks) : f[i] = Fit(f[i - 1], picks[i], num + 3, Droppable(f[i - 1], keep))
        /\ \A i \in 0 .. Len(picks) : f[i] \in Seq(S)
    BY PicksAdded
  <1> HIDE DEF f
  <1>4. PICK n \in Nat : n = Len(picks) OBVIOUS
  <1> DEFINE Q == {m \in Nat : m <= n => Leads(best, f[m])}
  <1>5. 0 \in Q BY <1>3
  <1>6. ASSUME NEW m \in Nat, m \in Q PROVE m + 1 \in Q
    <2> SUFFICES ASSUME m + 1 <= n PROVE Leads(best, f[m + 1]) OBVIOUS
    <2>1. m + 1 \in 1 .. n /\ (m + 1) - 1 = m /\ m <= n /\ m \in 0 .. n OBVIOUS
    <2>2. PICK x \in Seq(S) : x = f[m] BY <1>3, <1>4, <2>1
    <2> DEFINE pick == picks[m + 1]
               d == Droppable(x, keep)
               on == {i \in DOMAIN x : i \in d => Cardinality({j \in d : j >= i}) > Len(x) - (num + 3) + 1}
               room == Picked(x, on)
    <2>3. f[m + 1] = IF Len(room) >= num + 3 THEN room ELSE Append(room, pick)
      <3>1. f[m + 1] = Fit(x, pick, num + 3, d) BY <1>3, <1>4, <2>1, <2>2
      <3> QED BY <3>1 DEF Fit, MakeRoom
    <2>4. PICK p \in 1 .. Len(x) : Leading(best, p, x) BY <1>6, <2>1, <2>2 DEF Leads, Leading
    <2>5. p \in on
      <3>1. p \notin d BY <1>2, <2>4 DEF Leading, Droppable
      <3> QED BY <3>1
    <2> HIDE DEF d, on
    <2>6. Leads(best, room) /\ room \in Seq(S) BY <2>4, <2>5, PickedLeads, PickedIs
    <2> HIDE DEF room
    <2>7. pick \in S /\ pick.source # "primary" BY <1>4, <2>1
    <2> HIDE DEF pick
    <2>8. Leads(best, Append(room, pick)) BY <2>6, <2>7, AppendLeads
    <2> QED BY <2>3, <2>6, <2>8
  <1> HIDE DEF Q
  <1>7. n \in Q BY <1>5, <1>6, Induction
  <1>8. Leads(best, f[n]) /\ f[n] \in Seq(S) BY <1>3, <1>4, <1>7 DEF Q
  <1>9. Leads(best, Ranked(f[n])) BY <1>8, RankedLeads
  <1> QED BY <1>1, <1>4, <1>9

LEMMA MergeDirectKeeps ==
    ASSUME NEW S, Timed(S), NEW its \in Seq(S), NEW plans \in Seq(Seq(S)), NEW num, NEW best, Leads(best, its)
    PROVE  best \in Range(MergeDirect(its, plans, num))
  <1> DEFINE keep == Range(BestPlainTransit(its))
             picks == DirectPicks(its, plans)
             cap == num + Len(plans)
             f == AddedDirect(its, picks, cap, keep)
             Has(x) == \E i \in 1 .. Len(x) : x[i] = best
  <1>1. MergeDirect(its, plans, num) = IF plans = <<>> THEN its ELSE Ranked(f[Len(picks)]) BY MergeDirectIs
  <1>2. best \in keep /\ Has(its) BY BestLeads DEF Leads, Leading
  <1>3. picks \in Seq(S) BY DirectPicksIn
  <1> HIDE DEF keep, picks, cap
  <1>4. /\ f[0] = its /\ \A i \in 1 .. Len(picks) : f[i] = AddDirect(f[i - 1], picks[i], cap, keep)
        /\ \A i \in 0 .. Len(picks) : f[i] \in Seq(S)
    BY <1>3, DirectAdded
  <1> HIDE DEF f
  <1>5. PICK n \in Nat : n = Len(picks) BY <1>3
  <1> DEFINE Q == {m \in Nat : m <= n => Has(f[m])}
  <1>6. 0 \in Q BY <1>2, <1>4
  <1>7. ASSUME NEW m \in Nat, m \in Q PROVE m + 1 \in Q
    <2> SUFFICES ASSUME m + 1 <= n PROVE Has(f[m + 1]) OBVIOUS
    <2>1. m + 1 \in 1 .. n /\ (m + 1) - 1 = m /\ m <= n /\ m \in 0 .. n OBVIOUS
    <2>2. PICK x \in Seq(S) : x = f[m] BY <1>4, <1>5, <2>1
    <2> DEFINE d == {i \in 2 .. Len(x) : x[i].source = "primary" /\ x[i] \notin keep}
               on == {i \in DOMAIN x : i \in d => Cardinality({j \in d : j >= i}) > Len(x) - cap + 1}
    <2>3. f[m + 1] = Append(Picked(x, on), picks[m + 1])
      <3>1. f[m + 1] = AddDirect(x, picks[m + 1], cap, keep) BY <1>4, <1>5, <2>1, <2>2
      <3> QED BY <3>1 DEF AddDirect, MakeRoom
    <2>4. PICK p \in 1 .. Len(x) : x[p] = best BY <1>7, <2>1, <2>2
    <2>5. p \in on BY <1>2, <2>4
    <2> HIDE DEF d, on
    <2>6. PICK r \in Seq(S) : r = Picked(x, on) BY PickedIs
    <2>7. PICK h : Traces(h, r, x, on, Len(x)) BY <2>6, PickedIs
    <2>8. PICK k \in 1 .. Len(r) : r[k] = best
      <3>1. /\ \A k \in 1 .. Len(r) : r[k] = x[h[k]]
            /\ \A i \in 1 .. Len(x) : i \in on => \E k \in 1 .. Len(r) : h[k] = i
        BY <2>7 DEF Traces
      <3>2. PICK k \in 1 .. Len(r) : h[k] = p BY <2>5, <3>1
      <3> QED BY <2>4, <3>1, <3>2
    <2>9. picks[m + 1] \in S BY <1>3, <1>5, <2>1
    <2>10. Len(Append(r, picks[m + 1])) = Len(r) + 1 /\ Append(r, picks[m + 1])[k] = best BY <2>8, <2>9, AppendProperties
    <2>11. k \in 1 .. Len(r) + 1
      <3>1. Len(r) \in Nat OBVIOUS
      <3> QED BY <3>1
    <2> QED BY <2>3, <2>6, <2>10, <2>11
  <1> HIDE DEF Q
  <1>8. n \in Q BY <1>6, <1>7, Induction
  <1>9. f[n] \in Seq(S) /\ Has(f[n]) BY <1>4, <1>5, <1>8 DEF Q
  <1>10. best \in Range(Ranked(f[n]))
    <2>1. PICK x \in Seq(S) : x = f[n] BY <1>9
    <2>2. PICK r \in Seq(S) : r = Ranked(x) /\ Len(r) = Len(x) BY RankedOrder
    <2>3. PICK q : /\ q \in [1 .. Len(x) -> 1 .. Len(x)]
                   /\ \A k \in 1 .. Len(x) : r[k] = x[q[k]]
                   /\ \A i \in 1 .. Len(x) : \E k \in 1 .. Len(x) : q[k] = i
                   /\ \A k, l \in 1 .. Len(x) : k < l => AheadOf(x[q[k]], q[k], x[q[l]], q[l])
      BY <2>2, RankedOrder
    <2>4. PICK i \in 1 .. Len(x) : x[i] = best BY <1>9, <2>1
    <2>5. PICK k \in 1 .. Len(x) : r[k] = best
      <3>1. PICK k \in 1 .. Len(x) : q[k] = i BY <2>3
      <3> QED BY <2>3, <2>4, <3>1
    <2>6. k \in DOMAIN r BY <2>2
    <2> QED BY <2>1, <2>2, <2>5, <2>6 DEF Range
  <1>11. best \in Range(its)
    <2>1. PICK i \in 1 .. Len(its) : its[i] = best BY <1>2
    <2>2. i \in DOMAIN its OBVIOUS
    <2> QED BY <2>1, <2>2 DEF Range
  <1> QED BY <1>1, <1>5, <1>10, <1>11

\* The first search's rows, told: still those of one signature end together.
LEMMA ToldTogether ==
    ASSUME PlanInv, Searched
    PROVE  EndTogether(found[1])
  <1>1. PICK lists : Answers(searches, lists) /\ found = Told(lists) BY SearchedIs
  <1>2. searches = SearchesOf(asked) /\ asked \in Asks BY DEF PlanInv, Searched
  <1>3. searches \in Seq(QueriesOf(AllKinds)) /\ Len(searches) # 0
    <2>1. Laid(asked, searches) BY SearchedIs
    <2>2. PICK b \in Nat \ {0}, r \in Nat, p \in Nat :
            b = Len(BaseSearches(asked)) /\ r = Len(RideSearches(asked)) /\ p = Len(ParkSearches(asked))
      BY <2>1 DEF Laid
    <2>3. searches \in Seq(QueriesOf(AllKinds)) /\ b + r + p <= Len(searches) BY <2>1, <2>2 DEF Laid
    <2> QED BY <2>2, <2>3
  <1>4. /\ lists \in Seq(Seq(RouterRows)) /\ Len(lists) = Len(searches)
        /\ \A k \in 1 .. Len(lists) : \E its \in Found(searches[k]) : lists[k] = FirstOf(its, searches[k].first)
    BY <1>1 DEF Answers
  <1>5. 1 \in DOMAIN searches /\ 1 \in 1 .. Len(lists) /\ 1 \in DOMAIN lists /\ searches[1].first \in Nat
    <2>1. DOMAIN searches = 1 .. Len(searches) /\ Len(searches) \in Nat BY <1>3
    <2>2. 1 \in 1 .. Len(searches) BY <1>3, <2>1
    <2>3. searches[1] \in QueriesOf(AllKinds) BY <1>3, <2>2
    <2> QED BY <1>4, <2>1, <2>2, <2>3 DEF QueriesOf
  <1>6. PICK its \in Found(searches[1]) : lists[1] = FirstOf(its, searches[1].first) BY <1>4, <1>5
  <1>7. its \in Seq(RouterRows) /\ EndTogether(its) BY <1>2, <1>5, RouterAssumption
  <1> DEFINE them == FirstOf(its, searches[1].first)
  <1>8. /\ them \in Seq(RouterRows) /\ \A i \in 1 .. Len(them) : them[i] = its[i]
        /\ Len(them) = (IF Len(its) < searches[1].first THEN Len(its) ELSE searches[1].first)
    BY <1>5, <1>7, FirstOnes
  <1>9. lists[1] = them BY <1>6
  <1> HIDE DEF them
  <1>10. DOMAIN them = 1 .. Len(them) /\ \A i \in 1 .. Len(them) : i \in DOMAIN its
    <2>1. Len(its) \in Nat /\ DOMAIN its = 1 .. Len(its) BY <1>7
    <2>2. DOMAIN them = 1 .. Len(them) BY <1>8
    <2> QED BY <1>5, <1>8, <2>1, <2>2
  <1>11. /\ DOMAIN found[1] = 1 .. Len(them)
         /\ \A j \in 1 .. Len(them) : found[1][j] = [them[j] EXCEPT !.of = <<1, j>>]
    <2>1. found[1] = [j \in DOMAIN them |-> [them[j] EXCEPT !.of = <<1, j>>]] BY <1>1, <1>5, <1>9 DEF Told
    <2> QED BY <1>10, <2>1
  <1>12. ASSUME NEW j \in 1 .. Len(them)
         PROVE  Signature(found[1][j]) = Signature(its[j]) /\ found[1][j].end = its[j].end
    <2>1. PICK elt \in RouterRows : elt = its[j] /\ elt = them[j] BY <1>8
    <2>2. elt \in ItineraryOf(LegRides, {<<>>}) BY DEF RouterRows
    <2> DEFINE told == [elt EXCEPT !.of = <<1, j>>]
    <2>3. told.legs = elt.legs /\ told.end = elt.end BY <2>2 DEF ItineraryOf
    <2>4. found[1][j] = told BY <1>11, <2>1
    <2> HIDE DEF told
    <2> QED BY <2>1, <2>3, <2>4 DEF Signature
  <1> SUFFICES ASSUME NEW i \in DOMAIN found[1], NEW j \in DOMAIN found[1], Signature(found[1][i]) = Signature(found[1][j])
               PROVE  found[1][i].end = found[1][j].end
    BY DEF EndTogether
  <1>13. i \in 1 .. Len(them) /\ j \in 1 .. Len(them) BY <1>11
  <1> QED BY <1>7, <1>10, <1>12, <1>13 DEF EndTogether

\* The merges one after the other keep the best one.
LEMMA MergedKeeps ==
    ASSUME PlanInv, Searched, NEW best,
           best \in Range(BestPlainTransit(IF Len(BasePlans) = 1 THEN found[1] ELSE FirstOf(found[1], asked.num)))
    PROVE  best \in Range(Merged.its) /\ best \in HeldOf(found) /\ best.source = "primary"
  <1> DEFINE S == HeldOf(found)
             P == Plainly(S)
             q == asked
             them == IF Len(BasePlans) = 1 THEN found[1] ELSE FirstOf(found[1], q.num)
             base == MergePlans(BasePlans, q.num)
             offers == RidePicks(base, RidePlans, q.showSlower)
             rides == MergeOnDemand(base, RidePlans, q)
             park == IF ParkRide(q) THEN AttachParkRide(found[parts.park], q.zones) ELSE <<>>
             two == FirstOf(Shortest(park), 2)
             cars == IF ParkRide(q) THEN MergeParkRide(rides, park, q.num) ELSE rides
  <1>1. Merged.its = MergeDirect(cars, DirectPlans, q.num) BY DEF Merged
  <1>2. Rows(S) /\ Timed(S) BY HeldRows DEF Rows
  <1>3. found \in Seq(Seq(P))
    <2>1. PICK lists : Answers(searches, lists) /\ found = Told(lists) BY SearchedIs
    <2> QED BY <2>1, ToldHeld
  <1>4. P \subseteq S /\ Seq(P) \subseteq Seq(S)
    <2>1. P \subseteq S BY DEF Plainly
    <2> HIDE DEF P, S
    <2> QED BY <2>1, SeqMonotonic
  <1>5. found \in Seq(Seq(S))
    <2> HIDE DEF P, S
    <2>1. Seq(Seq(P)) \subseteq Seq(Seq(S)) BY <1>4, SeqMonotonic
    <2> QED BY <1>3, <2>1
  <1>6. BasePlans \in Seq(Seq(S)) /\ BasePlans # <<>> /\ RidePlans \in Seq(Seq(S)) /\ DirectPlans \in Seq(Seq(S))
    <2> HIDE DEF P, S
    <2> QED BY <1>5, PlansIn
  <1>7. BasePlans[1] = found[1] /\ found[1] \in Seq(P) /\ (ParkRide(q) => found[parts.park] \in Seq(P))
    <2> HIDE DEF P
    <2>1. BasePlans \in Seq(Seq(P)) /\ BasePlans # <<>> /\ BasePlans[1] = found[1] BY <1>3, PlansIn
    <2>2. BasePlans[1] \in Seq(P)
      <3>1. 1 \in 1 .. Len(BasePlans) BY <2>1
      <3> QED BY <2>1, <3>1
    <2>3. ParkRide(q) => found[parts.park] \in Seq(P) BY <1>3, PlansIn
    <2> QED BY <2>1, <2>2, <2>3
  <1>8. q.num \in Nat /\ q.zones \in Seq(Zones) BY AsksAssumption DEF PlanInv, Zones
  <1>9. \A it \in P : Timetable(it) /\ KindsSaid(it) /\ it.source = "primary" /\ it \in ItineraryOf(Routed, Objects)
    BY DEF Plainly, HeldOf
  <1>10. them \in Seq(P) BY <1>7, <1>8, FirstOnes
  <1>11. Leads(best, them)
    <2>1. them \in Seq(S) BY <1>4, <1>10
    <2> HIDE DEF them, S
    <2> QED BY <1>2, <2>1, BestLeads DEF them
  <1>12. best \in S /\ best.source = "primary"
    <2>1. PICK p \in 1 .. Len(them) : them[p] = best BY <1>11 DEF Leads, Leading
    <2> HIDE DEF them, P
    <2>2. best \in P BY <1>10, <2>1
    <2> QED BY <1>4, <1>9, <2>2
  <1>13. base \in Seq(S) /\ Leads(best, base)
    <2>1. EndTogether(BasePlans[1]) BY <1>7, ToldTogether
    <2>2. Leads(best, IF Len(BasePlans) = 1 THEN BasePlans[1] ELSE FirstOf(BasePlans[1], q.num)) BY <1>7, <1>11
    <2> HIDE DEF S, P, them
    <2>3. BasePlans[1] \in Seq(P) BY <1>7
    <2>4. Leads(best, base) BY <1>2, <1>4, <1>6, <1>8, <1>9, <2>1, <2>2, <2>3, MergePlansLeads
    <2> QED BY <1>2, <1>6, <1>8, <2>4, MergePlansIn
  <1> HIDE DEF base, them
  <1>14. rides \in Seq(S) /\ Leads(best, rides)
    <2> HIDE DEF S
    <2>1. rides \in Seq(S) BY <1>2, <1>6, <1>13, MergeOnDemandIn
    <2>2. offers \in Seq(Sourced(S, "ondemand")) BY <1>2, <1>6, RidePicksIn
    <2>3. rides = IF RidePlans = <<>> THEN base ELSE MergePicks(base, offers, q.num) BY DEF MergeOnDemand
    <2> HIDE DEF offers
    <2>4. offers \in Seq(S) /\ \A i \in 1 .. Len(offers) : offers[i].source # "primary"
      <3>1. Sourced(S, "ondemand") \subseteq S /\ \A it \in Sourced(S, "ondemand") : it.source = "ondemand" BY DEF Sourced
      <3>2. offers \in Seq(S) BY <2>2, <3>1, SeqMonotonic
      <3>3. \A i \in 1 .. Len(offers) : offers[i] \in Sourced(S, "ondemand") BY <2>2
      <3>4. "ondemand" # "primary" OBVIOUS
      <3> QED BY <3>1, <3>2, <3>3, <3>4
    <2>5. Leads(best, MergePicks(base, offers, q.num)) BY <1>2, <1>13, <2>4, MergePicksLeads
    <2> QED BY <1>13, <2>1, <2>3, <2>5
  <1> HIDE DEF rides
  <1>15. cars \in Seq(S) /\ Leads(best, cars)
    <2>1. CASE ~ParkRide(q) BY <1>14, <2>1
    <2>2. CASE ParkRide(q)
      <3> DEFINE K == Sourced(S, "parkride")
      <3>1. park \in Seq(K)
        <4>1. AttachParkRide(found[parts.park], q.zones) \in Seq(K) BY <1>7, <1>8, <2>2, AttachParkRideIn
        <4> QED BY <2>2, <4>1
      <3>2. K \subseteq S /\ Timed(K) BY <1>2 DEF Sourced, Timed
      <3>3. \A it \in K : it.source = "parkride" BY DEF Sourced
      <3> HIDE DEF park, S, K
      <3>4. Shortest(park) \in Seq(K) BY <3>1, <3>2, RankedIn
      <3>5. 2 \in Nat OBVIOUS
      <3>6. two \in Seq(K) BY <3>4, <3>5, FirstOnes
      <3> HIDE DEF two
      <3>7. two \in Seq(S) /\ \A i \in 1 .. Len(two) : two[i].source # "primary"
        <4>1. two \in Seq(S) BY <3>2, <3>6, SeqMonotonic
        <4>2. \A i \in 1 .. Len(two) : two[i] \in K BY <3>6
        <4>3. "parkride" # "primary" OBVIOUS
        <4> QED BY <3>3, <4>1, <4>2, <4>3
      <3>8. Leads(best, MergePicks(rides, two, q.num)) /\ MergePicks(rides, two, q.num) \in Seq(S)
        BY <1>2, <1>14, <3>7, MergePicksLeads, MergePicksIn
      <3>9. cars = MergePicks(rides, two, q.num) BY <2>2 DEF MergeParkRide, two
      <3> QED BY <3>8, <3>9
    <2> QED BY <2>1, <2>2
  <1> HIDE DEF cars
  <1>16. best \in Range(MergeDirect(cars, DirectPlans, q.num))
    <2> HIDE DEF S
    <2> QED BY <1>2, <1>6, <1>15, MergeDirectKeeps
  <1> QED BY <1>1, <1>12, <1>16

LEMMA PlanInvKeeps == PlanInv => BestTransitKept
  <1> DEFINE them == IF Len(BasePlans) = 1 THEN found[1] ELSE FirstOf(found[1], asked.num)
             its == Merged.its
             kept == ApplyWalkLimit(its, asked)
             S == HeldOf(found)
  <1> SUFFICES ASSUME PlanInv, stage = "answered", NEW best \in Range(BestPlainTransit(them)),
                      ~(asked.strictWalk /\ ~WithinWalk(best))
               PROVE  \E it \in Range(answer.its) : it.of = best.of /\ it.source = "primary"
    BY DEF BestTransitKept
  <1>1. Searched /\ Finished BY DEF PlanInv
  <1>2. best \in Range(its) /\ best \in S /\ best.source = "primary" BY <1>1, MergedKeeps
  <1>3. its \in Seq(S) BY <1>1, MergedIn
  <1> HIDE DEF them, its
  <1>4. PICK p \in 1 .. Len(its) : its[p] = best
    <2>1. DOMAIN its = 1 .. Len(its) BY <1>3
    <2> QED BY <1>2, <2>1 DEF Range
  <1>5. kept \in Seq(S)
    <2> HIDE DEF S
    <2> QED BY <1>3, WithinLimit
  <1>6. \E k \in 1 .. Len(kept) : kept[k] = best
    <2>1. CASE ~asked.strictWalk BY <1>4, <2>1 DEF ApplyWalkLimit
    <2>2. CASE asked.strictWalk
      <3> DEFINE on == {i \in DOMAIN its : WithinWalk(its[i])}
      <3>1. kept = Picked(its, on) BY <2>2 DEF ApplyWalkLimit, Where
      <3>2. p \in on
        <4>1. p \in DOMAIN its BY <1>3
        <4>2. WithinWalk(its[p]) BY <1>4, <2>2
        <4> QED BY <4>1, <4>2
      <3> HIDE DEF on, S, kept
      <3>3. PICK h : Traces(h, kept, its, on, Len(its)) BY <1>3, <3>1, PickedIs
      <3>4. /\ \A k \in 1 .. Len(kept) : kept[k] = its[h[k]]
            /\ \A i \in 1 .. Len(its) : i \in on => \E k \in 1 .. Len(kept) : h[k] = i
        BY <3>3 DEF Traces
      <3>5. PICK k \in 1 .. Len(kept) : h[k] = p BY <3>2, <3>4
      <3> QED BY <1>4, <3>4, <3>5
    <2> QED BY <2>1, <2>2
  <1>7. PICK k \in 1 .. Len(kept) : kept[k] = best BY <1>6
  <1>8. answer.its = IF OnDemand(asked) THEN [i \in DOMAIN kept |-> StretchAll(kept[i])] ELSE kept
    BY <1>1 DEF Finished, AttachToPlan, its
  <1>9. k \in DOMAIN kept BY <1>5
  <1> HIDE DEF kept
  <1>10. CASE ~OnDemand(asked)
    <2>1. answer.its = kept BY <1>8, <1>10
    <2>2. best \in Range(answer.its) BY <1>7, <1>9, <2>1 DEF Range
    <2> QED BY <1>2, <2>2
  <1>11. CASE OnDemand(asked)
    <2>1. answer.its = [i \in DOMAIN kept |-> StretchAll(kept[i])] BY <1>8, <1>11
    <2>2. StretchAll(best) \in Range(answer.its)
      <3>1. k \in DOMAIN answer.its /\ answer.its[k] = StretchAll(best) BY <1>7, <1>9, <2>1
      <3> QED BY <3>1 DEF Range
    <2>3. best \in ItineraryOf(Routed, Objects) /\ Timetable(best) /\ TaxiAtTheEnds(best) BY <1>2 DEF HeldOf
    <2>4. Rewritten(Routed, Objects, best, StretchAll(best)) BY <2>3, StretchedStaysATimetable
    <2>5. StretchAll(best).of = best.of /\ StretchAll(best).source = "primary" BY <1>2, <2>4 DEF Rewritten, Kept
    <2> QED BY <2>2, <2>5
  <1> QED BY <1>10, <1>11

\* routers/plan.py:190-345: whatever rentals, taxis, car parks and rides of one's own make
\* room for themselves, the earliest plain transit option of the first search stays in
\* the answer, unless the rider's limit on walking excludes it.
THEOREM BestTransitIsKept == PlanSpec => []BestTransitKept
  BY PlanInvariant, PlanInvKeeps, PTL
-----------------------------------------------------------------------------
(***************************************************************************)
(* When to leave.  The options are journeys the probes found, each once,   *)
(* in order; the notes and the recommendation are read off them.           *)
(***************************************************************************)
\* Whatever one of the lists holds, the flattened one does.
LEMMA FlattenHas ==
    ASSUME NEW S, NEW ss \in Seq(Seq(S)), NEW i \in 1 .. Len(ss), NEW k \in 1 .. Len(ss[i])
    PROVE  \E m \in 1 .. Len(FlattenSeq(ss)) : FlattenSeq(ss)[m] = ss[i][k]
  <1> DEFINE n == Len(ss)
             Ok(f) == f = [j \in 1 .. n |-> IF j = 1 THEN ss[j] ELSE f[j - 1] \o ss[j]]
             g == [j \in 1 .. n |-> [r \in Seq(S) |-> r \o ss[j]]]
  <1>1. n \in Nat /\ n # 0 /\ \A j \in 1 .. n : ss[j] \in Seq(S) OBVIOUS
  <1>2. g \in [1 .. n -> [Seq(S) -> Seq(S)]]
    <2>1. \A j \in 1 .. n, r \in Seq(S) : r \o ss[j] \in Seq(S) BY <1>1, ConcatProperties
    <2> HIDE DEF n
    <2> QED BY <2>1
  <1>3. PICK f \in [0 .. n -> Seq(S)] : IsLoop(f, <<>>, g, n)
    <2>1. <<>> \in Seq(S) OBVIOUS
    <2> HIDE DEF g, n
    <2> QED BY <1>1, <1>2, <2>1, LoopExists
  <1>4. f[0] = <<>> /\ \A j \in 1 .. n : f[j] = f[j - 1] \o ss[j]
    <2>1. f = [j \in 0 .. n |-> IF j = 0 THEN <<>> ELSE g[j][f[j - 1]]] BY <1>3 DEF IsLoop
    <2>2. ASSUME NEW j \in 1 .. n PROVE f[j] = f[j - 1] \o ss[j]
      <3>1. j \in 0 .. n /\ j # 0 /\ j - 1 \in 0 .. n BY <1>1
      <3>2. f[j] = g[j][f[j - 1]] BY <2>1, <3>1
      <3>3. f[j - 1] \in Seq(S) BY <3>1
      <3> QED BY <3>2, <3>3
    <2>3. 0 \in 0 .. n BY <1>1
    <2>4. f[0] = <<>>
      <3> HIDE DEF g, n
      <3> QED BY <2>1, <2>3
    <2> QED BY <2>2, <2>4
  <1> DEFINE h == [j \in 1 .. n |-> f[j]]
  <1>5. Ok(h)
    <2> SUFFICES ASSUME NEW j \in 1 .. n PROVE h[j] = IF j = 1 THEN ss[j] ELSE h[j - 1] \o ss[j] OBVIOUS
    <2>1. CASE j = 1
      <3>1. f[1] = <<>> \o ss[1] /\ ss[1] \in Seq(S)
        <4>1. 1 \in 1 .. n /\ 1 - 1 = 0 BY <2>1
        <4> HIDE DEF n
        <4> QED BY <1>1, <1>4, <4>1
      <3>2. <<>> \o ss[1] = ss[1] BY <3>1, ConcatEmptySeq
      <3> QED BY <2>1, <3>1, <3>2
    <2>2. CASE j # 1
      <3>1. j - 1 \in 1 .. n BY <2>2
      <3> QED BY <1>4, <2>2, <3>1
    <2> QED BY <2>1, <2>2
  <1> DEFINE x == CHOOSE y : Ok(y)
  <1>6. FlattenSeq(ss) = x[n] BY <1>1 DEF FlattenSeq
  <1>7. Ok(x)
    <2>1. \E y : Ok(y) BY <1>5
    <2> QED BY <2>1, Zenon
  <1> HIDE DEF x
  <1>8. \A j \in 1 .. n : x[j] = IF j = 1 THEN ss[j] ELSE x[j - 1] \o ss[j]
    <2> HIDE DEF n
    <2> QED BY <1>7
  <1> DEFINE Holds(s) == \E m \in 1 .. Len(s) : s[m] = ss[i][k]
             Q == {j \in Nat : j + 1 <= n => x[j + 1] \in Seq(S) /\ (i <= j + 1 => Holds(x[j + 1]))}
  <1>9. 0 \in Q
    <2>1. x[1] = ss[1] /\ ss[1] \in Seq(S)
      <3>1. 1 \in 1 .. n BY <1>1
      <3> HIDE DEF n
      <3> QED BY <1>1, <1>8, <3>1
    <2>2. i <= 1 => i = 1 OBVIOUS
    <2> QED BY <2>1, <2>2
  <1>10. ASSUME NEW j \in Nat, j \in Q PROVE j + 1 \in Q
    <2> SUFFICES ASSUME j + 1 + 1 <= n
                 PROVE x[j + 1 + 1] \in Seq(S) /\ (i <= j + 1 + 1 => Holds(x[j + 1 + 1])) OBVIOUS
    <2>1. j + 1 + 1 \in 1 .. n /\ j + 1 + 1 # 1 /\ (j + 1 + 1) - 1 = j + 1 BY <1>1
    <2>2. x[j + 1] \in Seq(S) /\ (i <= j + 1 => Holds(x[j + 1])) BY <1>1, <1>10
    <2>3. x[j + 1 + 1] = x[j + 1] \o ss[j + 1 + 1] BY <1>8, <2>1
    <2>4. ss[j + 1 + 1] \in Seq(S) BY <1>1, <2>1
    <2> HIDE DEF n
    <2>5. PICK a \in Seq(S), b \in Seq(S) : a = x[j + 1] /\ b = ss[j + 1 + 1] BY <2>2, <2>4
    <2>6. /\ a \o b \in Seq(S) /\ Len(a \o b) = Len(a) + Len(b)
          /\ \A m \in 1 .. Len(a) + Len(b) : (a \o b)[m] = IF m <= Len(a) THEN a[m] ELSE b[m - Len(a)]
      BY ConcatProperties
    <2>7. ASSUME i <= j + 1 PROVE Holds(a \o b)
      <3>1. PICK m \in 1 .. Len(a) : a[m] = ss[i][k] BY <2>2, <2>5, <2>7
      <3>2. m \in 1 .. Len(a) + Len(b) /\ m <= Len(a) OBVIOUS
      <3> QED BY <2>6, <3>1, <3>2
    <2>8. ASSUME i = j + 1 + 1 PROVE Holds(a \o b)
      <3>1. k \in 1 .. Len(b) /\ b[k] = ss[i][k] BY <2>5, <2>8
      <3>2. Len(a) + k \in 1 .. Len(a) + Len(b) /\ ~(Len(a) + k <= Len(a)) /\ (Len(a) + k) - Len(a) = k BY <3>1
      <3>3. (a \o b)[Len(a) + k] = b[k] BY <2>6, <3>2
      <3> QED BY <2>6, <3>1, <3>2, <3>3
    <2>9. i <= j + 1 + 1 => i <= j + 1 \/ i = j + 1 + 1 BY <1>1
    <2> QED BY <2>3, <2>5, <2>6, <2>7, <2>8, <2>9
  <1> HIDE DEF Q
  <1>11. n - 1 \in Q
    <2>1. n - 1 \in Nat BY <1>1
    <2> HIDE DEF n
    <2> QED BY <1>9, <1>10, <2>1, Induction
  <1>12. Holds(x[n])
    <2>1. n - 1 \in Nat /\ (n - 1) + 1 = n /\ n <= n /\ i <= n BY <1>1
    <2> HIDE DEF n
    <2>2. i <= (n - 1) + 1 => Holds(x[(n - 1) + 1]) BY <1>11, <2>1 DEF Q
    <2> QED BY <2>1, <2>2
  <1> QED BY <1>6, <1>12

\* One element of each key is kept, and one only.
OneEach(h, r, s, key) ==
    /\ \A n \in 1 .. Len(r) : h[n] \in 1 .. Len(s) /\ r[n] = s[h[n]]
    /\ \A n, m \in 1 .. Len(r) : key[h[n]] = key[h[m]] => n = m
    /\ \A i \in 1 .. Len(s) : \E n \in 1 .. Len(r) : key[h[n]] = key[i]
LEMMA OnceIs ==
    ASSUME NEW S, NEW s \in Seq(S), NEW key
    PROVE  OnceBy(s, key) \in Seq(S) /\ \E h : OneEach(h, OnceBy(s, key), s, key)
  <1> DEFINE on == {i \in DOMAIN s : \A j \in 1 .. (i - 1) : key[j] # key[i]}
  <1>1. PICK r \in Seq(S) : r = Picked(s, on) BY PickedIs
  <1>2. PICK h : Traces(h, r, s, on, Len(s)) BY <1>1, PickedIs
  <1>3. OnceBy(s, key) = r BY <1>1 DEF OnceBy
  <1>4. /\ h \in [1 .. Len(r) -> Nat]
        /\ \A n \in 1 .. Len(r) : h[n] \in 1 .. Len(s) /\ h[n] \in on /\ r[n] = s[h[n]]
        /\ \A n, k \in 1 .. Len(r) : n < k => h[n] < h[k]
        /\ \A i \in 1 .. Len(s) : i \in on => \E n \in 1 .. Len(r) : h[n] = i
    BY <1>2 DEF Traces
  <1>6. ASSUME NEW n \in 1 .. Len(r), NEW m \in 1 .. Len(r), n < m PROVE key[h[n]] # key[h[m]]
    <2>1. h[n] < h[m] /\ h[n] \in 1 .. Len(s) /\ h[m] \in 1 .. Len(s) /\ h[m] \in on BY <1>4, <1>6
    <2>2. h[n] \in 1 .. (h[m] - 1) BY <2>1
    <2> QED BY <2>1, <2>2
  <1>7. ASSUME NEW i \in 1 .. Len(s) PROVE \E n \in 1 .. Len(r) : key[h[n]] = key[i]
    <2> DEFINE same == {j \in 1 .. Len(s) : key[j] = key[i]}
    <2>1. same \in SUBSET Nat /\ same # {} OBVIOUS
    <2>2. PICK j \in same : \A k \in same : j <= k
      <3> HIDE DEF same
      <3> QED BY <2>1, MinOfNats
    <2>3. ASSUME NEW k \in 1 .. (j - 1) PROVE key[k] # key[j]
      <3>1. k \in 1 .. Len(s) /\ ~(j <= k) OBVIOUS
      <3> QED BY <2>2, <3>1
    <2>4. j \in on BY <2>3
    <2>5. PICK n \in 1 .. Len(r) : h[n] = j BY <1>4, <2>4
    <2> QED BY <2>5
  <1>8. \A n, m \in 1 .. Len(r) : key[h[n]] = key[h[m]] => n = m
    <2> SUFFICES ASSUME NEW n \in 1 .. Len(r), NEW m \in 1 .. Len(r), key[h[n]] = key[h[m]] PROVE n = m OBVIOUS
    <2>1. ~(n < m) /\ ~(m < n) BY <1>6
    <2> QED BY <2>1
  <1>9. OneEach(h, r, s, key) BY <1>4, <1>7, <1>8 DEF OneEach
  <1> QED BY <1>3, <1>9

Timetabled(S) == \A j \in S : j.depart \in Nat /\ j.arrive \in Nat
Taken(a, b) == a.rides = b.rides /\ a.depart = b.depart

\* The same journeys in another order.
Shuffles(p, r, s) ==
    /\ \A n \in 1 .. Len(s) : p[n] \in 1 .. Len(s) /\ r[n] = s[p[n]]
    /\ \A i \in 1 .. Len(s) : \E n \in 1 .. Len(s) : p[n] = i
    /\ \A m, n \in 1 .. Len(s) : p[m] = p[n] => m = n
ByDeparture(r) == \A m, n \in 1 .. Len(r) : m < n => r[m].depart <= r[n].depart
LEMMA ChronologicalIs ==
    ASSUME NEW S, Timetabled(S), NEW s \in Seq(S), NEW arriveBy \in BOOLEAN
    PROVE  /\ Chronological(s, arriveBy) \in Seq(S) /\ Len(Chronological(s, arriveBy)) = Len(s)
           /\ \E p : Shuffles(p, Chronological(s, arriveBy), s)
           /\ ~arriveBy => ByDeparture(Chronological(s, arriveBy))
  <1> DEFINE At(i) == IF arriveBy THEN s[i].arrive ELSE s[i].depart
             key == [i \in DOMAIN s |-> <<At(i), Duration(s[i])>>]
             r == SortedBy(s, key)
  <1>1. DOMAIN s = 1 .. Len(s) /\ Len(s) \in Nat /\ \A i \in 1 .. Len(s) : s[i] \in S OBVIOUS
  <1>2. \A i \in 1 .. Len(s) : key[i][1] = At(i) /\ key[i][2] = Duration(s[i]) BY <1>1
  <1>3. \A i \in 1 .. Len(s) : At(i) \in Int /\ Duration(s[i]) \in Int BY <1>1 DEF Timetabled, Duration
  <1>4. Chronological(s, arriveBy) = r BY DEF Chronological
  <1> HIDE DEF key
  <1>5. HasKeys(key, Len(s))
    <2> HIDE DEF At
    <2> QED BY <1>2, <1>3 DEF HasKeys
  <1>6. r \in Seq(S) /\ Len(r) = Len(s) /\ \E p : Orders(p, r, s, key) BY <1>5, SortedIs
  <1>7. PICK p : Orders(p, r, s, key) BY <1>6
  <1> HIDE DEF r
  <1>8. /\ p \in [1 .. Len(s) -> 1 .. Len(s)]
        /\ \A n \in 1 .. Len(s) : r[n] = s[p[n]]
        /\ \A i \in 1 .. Len(s) : \E n \in 1 .. Len(s) : p[n] = i
        /\ \A m, n \in 1 .. Len(s) : m < n => Precedes(key, p[m], p[n])
    BY <1>7 DEF Orders
  <1>9. \A m, n \in 1 .. Len(s) : p[m] = p[n] => m = n
    <2> SUFFICES ASSUME NEW m \in 1 .. Len(s), NEW n \in 1 .. Len(s), p[m] = p[n] PROVE m = n OBVIOUS
    <2>1. p[m] \in 1 .. Len(s) /\ ~Precedes(key, p[m], p[m]) BY <1>1, <1>5, <1>8, PrecedesOrders
    <2>2. ~(m < n) /\ ~(n < m) BY <1>8, <2>1
    <2> QED BY <2>2
  <1>10. ASSUME ~arriveBy, NEW m \in 1 .. Len(s), NEW n \in 1 .. Len(s), m < n PROVE r[m].depart <= r[n].depart
    <2>1. Precedes(key, p[m], p[n]) /\ p[m] \in 1 .. Len(s) /\ p[n] \in 1 .. Len(s) BY <1>8, <1>10
    <2>2. key[p[m]][1] = s[p[m]].depart /\ key[p[n]][1] = s[p[n]].depart BY <1>2, <1>10, <2>1
    <2>3. s[p[m]].depart \in Nat /\ s[p[n]].depart \in Nat BY <1>1, <2>1 DEF Timetabled
    <2>4. key[p[m]][1] <= key[p[n]][1]
      <3>1. PICK a \in Nat, b \in Nat : a = key[p[m]][1] /\ b = key[p[n]][1] BY <2>2, <2>3
      <3>2. a < b \/ a = b BY <2>1, <3>1 DEF Precedes
      <3> QED BY <3>1, <3>2
    <2>5. r[m] = s[p[m]] /\ r[n] = s[p[n]] BY <1>8
    <2> QED BY <2>2, <2>4, <2>5
  <1>11. Shuffles(p, r, s)
    <2>1. \A n \in 1 .. Len(s) : p[n] \in 1 .. Len(s) BY <1>8
    <2> QED BY <1>8, <1>9, <2>1 DEF Shuffles
  <1>12. ~arriveBy => ByDeparture(r) BY <1>6, <1>10 DEF ByDeparture
  <1> QED BY <1>4, <1>6, <1>11, <1>12

Holding(o, plans) ==
    \A i \in 1 .. Len(plans) : \A k \in 1 .. Len(plans[i]) : \E n \in 1 .. Len(o) : Taken(o[n], plans[i][k])
EachTaken(o) == \A i, j \in 1 .. Len(o) : Taken(o[i], o[j]) => i = j
LEMMA OptionsAre ==
    ASSUME NEW S, Timetabled(S), NEW plans \in Seq(Seq(S)), NEW most \in Nat, NEW arriveBy \in BOOLEAN
    PROVE  /\ BuildOptions(plans, most, arriveBy) \in Seq(S)
           /\ EachTaken(BuildOptions(plans, most, arriveBy))
           /\ ~arriveBy => ByDeparture(BuildOptions(plans, most, arriveBy))
           /\ Len(BuildOptions(plans, most, arriveBy)) < most => Holding(BuildOptions(plans, most, arriveBy), plans)
  <1> DEFINE all == FlattenSeq(plans)
             key == [i \in DOMAIN all |-> JourneyTaken(all[i])]
             once == OnceBy(all, key)
             sorted == Chronological(once, arriveBy)
             o == FirstOf(sorted, most)
  <1>1. all \in Seq(S) BY FlattenedIs
  <1>2. BuildOptions(plans, most, arriveBy) = o BY DEF BuildOptions, Distinct
  <1>3. \A i \in 1 .. Len(plans) : \A k \in 1 .. Len(plans[i]) : \E m \in 1 .. Len(all) : all[m] = plans[i][k]
    BY FlattenHas
  <1> HIDE DEF all
  <1>4. \A i \in 1 .. Len(all) : key[i] = <<all[i].rides, all[i].depart>> BY <1>1 DEF JourneyTaken
  <1> HIDE DEF key
  <1>5. once \in Seq(S) /\ \E h : OneEach(h, once, all, key) BY <1>1, OnceIs
  <1> HIDE DEF once
  <1>6. PICK h : OneEach(h, once, all, key) BY <1>5
  <1>7. ASSUME NEW n \in 1 .. Len(once), NEW m \in 1 .. Len(once), Taken(once[n], once[m]) PROVE n = m
    <2>1. h[n] \in 1 .. Len(all) /\ h[m] \in 1 .. Len(all) /\ once[n] = all[h[n]] /\ once[m] = all[h[m]]
      BY <1>6 DEF OneEach
    <2>2. key[h[n]] = key[h[m]] BY <1>4, <1>7, <2>1 DEF Taken
    <2> QED BY <1>6, <2>2 DEF OneEach
  <1>8. \A i \in 1 .. Len(all) : \E n \in 1 .. Len(once) : Taken(once[n], all[i])
    <2> SUFFICES ASSUME NEW i \in 1 .. Len(all) PROVE \E n \in 1 .. Len(once) : Taken(once[n], all[i]) OBVIOUS
    <2>1. PICK n \in 1 .. Len(once) : key[h[n]] = key[i] BY <1>6 DEF OneEach
    <2>2. h[n] \in 1 .. Len(all) /\ once[n] = all[h[n]] BY <1>6 DEF OneEach
    <2>3. <<all[h[n]].rides, all[h[n]].depart>> = <<all[i].rides, all[i].depart>> BY <1>4, <2>1, <2>2
    <2> QED BY <2>2, <2>3 DEF Taken
  <1>9. /\ sorted \in Seq(S) /\ Len(sorted) = Len(once) /\ \E p : Shuffles(p, sorted, once)
        /\ ~arriveBy => ByDeparture(sorted)
    BY <1>5, ChronologicalIs
  <1> HIDE DEF sorted
  <1>10. PICK p : Shuffles(p, sorted, once) BY <1>9
  <1>11. /\ o \in Seq(S) /\ Len(o) = (IF Len(sorted) < most THEN Len(sorted) ELSE most)
         /\ \A i \in 1 .. Len(o) : o[i] = sorted[i]
    BY <1>9, FirstOnes
  <1> HIDE DEF o
  <1>12. Len(o) \in Nat /\ Len(o) <= Len(once) /\ Len(once) \in Nat BY <1>5, <1>9, <1>11
  <1>13. ASSUME NEW i \in 1 .. Len(o) PROVE i \in 1 .. Len(once) /\ p[i] \in 1 .. Len(once) /\ o[i] = once[p[i]]
    <2>1. i \in 1 .. Len(once) BY <1>12
    <2> QED BY <1>10, <1>11, <2>1 DEF Shuffles
  <1>14. ASSUME NEW i \in 1 .. Len(o), NEW j \in 1 .. Len(o), Taken(o[i], o[j]) PROVE i = j
    <2>1. p[i] = p[j] BY <1>7, <1>13, <1>14
    <2> QED BY <1>10, <1>13, <2>1 DEF Shuffles
  <1>15. ~arriveBy => ByDeparture(o)
    <2>1. \A i \in 1 .. Len(o) : i \in 1 .. Len(sorted) /\ o[i] = sorted[i] BY <1>9, <1>11, <1>13
    <2> QED BY <1>9, <2>1 DEF ByDeparture
  <1>16. ASSUME Len(o) < most, NEW i \in 1 .. Len(plans), NEW k \in 1 .. Len(plans[i])
         PROVE  \E n \in 1 .. Len(o) : Taken(o[n], plans[i][k])
    <2>1. Len(o) = Len(once) BY <1>9, <1>11, <1>12, <1>16
    <2>2. PICK m \in 1 .. Len(all) : all[m] = plans[i][k] BY <1>3
    <2>3. PICK x \in 1 .. Len(once) : Taken(once[x], all[m]) BY <1>8
    <2>4. PICK n \in 1 .. Len(once) : p[n] = x BY <1>10 DEF Shuffles
    <2>5. n \in 1 .. Len(o) /\ o[n] = once[x] BY <1>13, <2>1, <2>4
    <2> QED BY <2>2, <2>3, <2>5
  <1>17. EachTaken(o) BY <1>14 DEF EachTaken
  <1>18. Len(o) < most => Holding(o, plans) BY <1>16 DEF Holding
  <1> QED BY <1>2, <1>11, <1>15, <1>17, <1>18

\* The nearest whole to a fraction is half of one away at most.
LEMMA NearestIs ==
    ASSUME NEW x \in Nat, NEW d \in Nat \ {0}
    PROVE  LET k == NearestWhole(x, d)
           IN  k \in Nat /\ 2 * (d * k) <= 2 * x + d /\ 2 * x <= 2 * (d * k) + d
  <1> DEFINE a == x \div d
             b == x % d
  <1>1. a \in Int /\ b \in Int /\ 0 <= b /\ b < d /\ x = d * a + b BY Parts
  <1> HIDE DEF a, b
  <1>2. a \in Nat
    <2> SUFFICES ASSUME a < 0 PROVE FALSE BY <1>1
    <2>1. PICK z \in Nat : a = -1 - z BY <1>1, -1 - a \in Nat
    <2>2. d * (-1 - z) = -d - d * z /\ d * z \in Nat OBVIOUS
    <2> QED BY <1>1, <2>1, <2>2
  <1>3. d * (a + 1) = d * a + d /\ d * a \in Nat BY <1>2
  <1>4. CASE 2 * b < d \/ (2 * b = d /\ a % 2 = 0)
    <2>1. NearestWhole(x, d) = a BY <1>4 DEF NearestWhole, a, b
    <2> QED BY <1>1, <1>2, <1>3, <1>4, <2>1
  <1>5. CASE ~(2 * b < d \/ (2 * b = d /\ a % 2 = 0))
    <2>1. NearestWhole(x, d) = a + 1 BY <1>5 DEF NearestWhole, a, b
    <2>2. 2 * b >= d BY <1>1, <1>5
    <2> QED BY <1>1, <1>2, <1>3, <2>1, <2>2
  <1> QED BY <1>4, <1>5

LEMMA Multiples ==
    ASSUME NEW d \in Nat \ {0}, NEW a \in Nat, NEW b \in Nat, d * a < d * b
    PROVE  a < b
  <1> SUFFICES ASSUME b <= a PROVE FALSE OBVIOUS
  <1>1. PICK z \in Nat : a = b + z BY a - b \in Nat
  <1>2. d * (b + z) = d * b + d * z /\ d * z \in Nat /\ d * b \in Nat OBVIOUS
  <1> QED BY <1>1, <1>2

\* A probe at the start, the others later within the window, each at its own minute.
LEMMA SampleTimesAre ==
    ASSUME NEW start \in Nat, NEW window \in Nat, window >= MaxFanout
    PROVE  LET probed == SampleTimes(start, window, MaxFanout)
           IN  /\ probed \in Seq(Nat) /\ Len(probed) \in 1 .. MaxFanout /\ probed[1] = start
               /\ \A i \in 1 .. Len(probed) : probed[i] \in start .. start + window
               /\ \A i, j \in 1 .. Len(probed) : probed[i] = probed[j] => i = j
  <1>1. PICK n \in Nat \ {0} : n = MaxFanout BY ForecastAssumption
  <1>2. CASE n <= 1 \/ window <= 0
    <2>1. SampleTimes(start, window, MaxFanout) = <<start>> BY <1>1, <1>2 DEF SampleTimes
    <2> QED BY <1>1, <2>1
  <1>3. CASE n > 1 /\ window > 0
    <2> DEFINE x(i) == window * (i - 1)
               k(i) == NearestWhole(x(i), n)
               probed == [i \in 1 .. n |-> start + k(i)]
    <2>1. SampleTimes(start, window, MaxFanout) = probed BY <1>1, <1>3 DEF SampleTimes
    <2>2. ASSUME NEW i \in 1 .. n PROVE x(i) \in Nat
      <3>1. PICK m \in Nat : m = i - 1 OBVIOUS
      <3>2. window * m \in Nat OBVIOUS
      <3> QED BY <3>1, <3>2
    <2>3. x(1) = 0 OBVIOUS
    <2>4. ASSUME NEW i \in 1 .. n, NEW j \in 1 .. n, i < j PROVE x(i) + window <= x(j)
      <3>1. PICK m \in Nat, y \in Nat : m = i - 1 /\ j - 1 = m + 1 + y BY <2>4, i - 1 \in Nat, j - 1 - i \in Nat
      <3>2. window * (m + 1 + y) = window * m + window + window * y /\ window * y \in Nat /\ window * m \in Nat OBVIOUS
      <3> QED BY <3>1, <3>2
    <2>5. ASSUME NEW i \in 1 .. n PROVE x(i) + window <= window * n
      <3>1. PICK m \in Nat, y \in Nat : m = i - 1 /\ n = m + 1 + y BY i - 1 \in Nat, n - i \in Nat
      <3>2. window * (m + 1 + y) = window * m + window + window * y /\ window * y \in Nat /\ window * m \in Nat OBVIOUS
      <3> QED BY <3>1, <3>2
    <2> HIDE DEF x
    <2>6. ASSUME NEW i \in 1 .. n PROVE k(i) \in Nat /\ 2 * (n * k(i)) <= 2 * x(i) + n /\ 2 * x(i) <= 2 * (n * k(i)) + n
      BY <2>2, NearestIs
    <2>7. k(1) = 0
      <3>1. 0 \div n = 0 /\ 0 % n = 0 BY <1>1
      <3> QED BY <2>3, <3>1 DEF NearestWhole
    <2> HIDE DEF k
    <2>8. ASSUME NEW i \in 1 .. n PROVE k(i) <= window
      <3>1. n * k(i) \in Nat /\ n * window = window * n /\ n * window \in Nat BY <2>6
      <3>2. x(i) \in Nat /\ x(i) + window <= n * window BY <2>2, <2>5, <3>1
      <3>3. n * k(i) < n * window BY <1>1, <1>3, <2>6, <3>1, <3>2
      <3>4. k(i) \in Nat BY <2>6
      <3> HIDE DEF k
      <3>5. k(i) < window BY <3>3, <3>4, Multiples
      <3> QED BY <3>4, <3>5
    <2>9. ASSUME NEW i \in 1 .. n, NEW j \in 1 .. n, i < j PROVE k(i) < k(j)
      <3>0. /\ k(i) \in Nat /\ 2 * (n * k(i)) <= 2 * x(i) + n /\ 2 * x(i) <= 2 * (n * k(i)) + n
            /\ k(j) \in Nat /\ 2 * (n * k(j)) <= 2 * x(j) + n /\ 2 * x(j) <= 2 * (n * k(j)) + n
            /\ x(i) \in Nat /\ x(j) \in Nat /\ x(i) + window <= x(j)
        BY <2>2, <2>4, <2>6, <2>9
      <3>1. PICK a \in Nat, b \in Nat : a = k(i) /\ b = k(j) BY <3>0
      <3>2. n * a \in Nat /\ n * b \in Nat OBVIOUS
      <3>3. n * a <= n * b BY <1>1, <3>0, <3>1, <3>2
      <3>4. ASSUME n * a = n * b PROVE FALSE
        <4>1. x(j) - x(i) <= n /\ x(j) - x(i) >= window BY <1>1, <3>0, <3>1, <3>2, <3>4
        <4>2. window = n BY <1>1, <3>0, <4>1
        <4>3. x(j) = x(i) + n /\ 2 * x(j) = 2 * (n * b) + n BY <1>1, <3>0, <3>1, <3>2, <3>4, <4>1, <4>2
        <4>4. PICK m \in Nat : x(j) = n * m
          <5>1. j - 1 \in Nat /\ x(j) = n * (j - 1) BY <4>2 DEF x
          <5> QED BY <5>1
        <4>5. 2 * (n * m) = 2 * (n * b) + n BY <4>3, <4>4
        <4>6. n * (2 * m) = n * (2 * b) + n /\ n * (2 * b + 1) = n * (2 * b) + n
          <5>1. n * (2 * m) = 2 * (n * m) /\ n * (2 * b) = 2 * (n * b) /\ n * (2 * b + 1) = n * (2 * b) + n OBVIOUS
          <5> QED BY <4>5, <5>1
        <4>7. 2 * m = 2 * b + 1
          <5>1. PICK u \in Nat, v \in Nat : u = 2 * m /\ v = 2 * b + 1 OBVIOUS
          <5>2. n * u = n * v BY <4>6, <5>1
          <5>3. n \in Nat \ {0} /\ n * u + 0 = n * v + 0 /\ 0 \in 0 .. n - 1 BY <5>2
          <5>4. u = v BY <5>3, PartsUnique
          <5> QED BY <5>1, <5>4
        <4> QED BY <4>7
      <3>5. n * a < n * b BY <3>2, <3>3, <3>4
      <3> QED BY <3>1, <3>5, Multiples
    <2>10. /\ probed \in [1 .. n -> Nat] /\ probed[1] = start
           /\ \A i \in 1 .. n : probed[i] = start + k(i)
      <3>1. \A i \in 1 .. n : k(i) \in Nat BY <2>6
      <3>2. 1 \in 1 .. n BY <1>3
      <3> QED BY <2>7, <3>1, <3>2
    <2> HIDE DEF probed
    <2>11. probed \in Seq(Nat) /\ Len(probed) = n BY <2>10, IsList
    <2>12. \A i \in 1 .. n : probed[i] \in start .. start + window
      <3> SUFFICES ASSUME NEW i \in 1 .. n PROVE probed[i] \in start .. start + window OBVIOUS
      <3>1. k(i) \in Nat /\ k(i) <= window BY <2>6, <2>8
      <3>2. probed[i] = start + k(i) BY <2>10
      <3> QED BY <3>1, <3>2
    <2>13. ASSUME NEW i \in 1 .. n, NEW j \in 1 .. n, probed[i] = probed[j] PROVE i = j
      <3>1. k(i) \in Nat /\ k(j) \in Nat /\ k(i) = k(j)
        <4>1. k(i) \in Nat /\ k(j) \in Nat BY <2>6
        <4> QED BY <2>10, <2>13, <4>1
      <3>2. ~(i < j) /\ ~(j < i) BY <2>9, <3>1
      <3> QED BY <3>2
    <2> QED BY <1>1, <1>3, <2>1, <2>10, <2>11, <2>12, <2>13
  <1> QED BY <1>2, <1>3

LEMMA QuarterIn == ASSUME NEW n \in Nat \ {0} PROVE (n - 1) \div 4 + 1 \in 1 .. n
  <1>1. PICK m \in Nat : n = m + 1 BY n - 1 \in Nat
  <1>2. m \div 4 \in Int /\ m = 4 * (m \div 4) + (m % 4) /\ 0 <= m % 4 /\ m % 4 < 4 /\ m % 4 \in Int BY Parts
  <1>3. m \div 4 \in 0 .. m BY <1>2
  <1> QED BY <1>1, <1>3

\* The one recommended arrives first of those as quick as the cutoff, so of those as quick as it.
LEMMA RecommendedIs ==
    ASSUME NEW S, Timetabled(S), NEW o \in Seq(S), MarkRecommended(o) # 0
    PROVE  LET best == MarkRecommended(o)
           IN  /\ best \in 1 .. Len(o)
               /\ \A i \in 1 .. Len(o) : Duration(o[i]) \in 1 .. Duration(o[best]) => o[i].arrive >= o[best].arrive
  <1> DEFINE T == {j \in {o[i] : i \in 1 .. Len(o)} : Duration(j) > 0}
             on == {i \in DOMAIN o : Duration(o[i]) > 0}
             timed == Picked(o, on)
             key == [i \in DOMAIN timed |-> <<Duration(timed[i]), 0>>]
             slower == SortedBy(timed, key)
             cutoff == Duration(slower[(Len(slower) - 1) \div 4 + 1])
             quick == {i \in DOMAIN o : Duration(o[i]) \in 1 .. cutoff}
             First(i) == \A k \in quick : \/ o[i].arrive < o[k].arrive
                                          \/ o[i].arrive = o[k].arrive /\ i <= k
  <1>1. MarkRecommended(o) = IF timed = <<>> THEN 0 ELSE CHOOSE i \in quick : First(i)
    BY Zenon DEF MarkRecommended, Where
  <1>2. /\ DOMAIN o = 1 .. Len(o) /\ Len(o) \in Nat
        /\ \A i \in 1 .. Len(o) : o[i] \in S /\ o[i].arrive \in Nat /\ o[i].depart \in Nat /\ Duration(o[i]) \in Int
    BY DEF Timetabled, Duration
  <1>3. timed \in Seq(T)
    <2>1. \A i \in 1 .. Len(o) : i \in on => o[i] \in T BY <1>2
    <2> HIDE DEF on, T
    <2> QED BY <2>1, KeptIn
  <1>4. timed # <<>> BY <1>1
  <1> HIDE DEF timed
  <1>5. DOMAIN timed = 1 .. Len(timed) /\ Len(timed) \in Nat \ {0}
    <2> HIDE DEF T
    <2> QED BY <1>3, <1>4
  <1>6. \A j \in T : Duration(j) \in Nat \ {0} BY <1>2
  <1>7. HasKeys(key, Len(timed))
    <2>1. \A i \in 1 .. Len(timed) : timed[i] \in T BY <1>3
    <2> HIDE DEF T
    <2>2. \A i \in 1 .. Len(timed) : key[i][1] = Duration(timed[i]) /\ key[i][2] = 0 BY <1>5
    <2> HIDE DEF key
    <2> QED BY <1>6, <2>1, <2>2 DEF HasKeys
  <1>8. slower \in Seq(T) /\ Len(slower) = Len(timed)
    <2> HIDE DEF T, key
    <2> QED BY <1>3, <1>7, SortedIs
  <1> HIDE DEF slower
  <1>9. (Len(slower) - 1) \div 4 + 1 \in 1 .. Len(slower)
    <2>1. PICK n \in Nat \ {0} : n = Len(timed) BY <1>5
    <2>2. (n - 1) \div 4 + 1 \in 1 .. n BY QuarterIn
    <2> QED BY <1>8, <2>1, <2>2
  <1>10. PICK x \in T : x = slower[(Len(slower) - 1) \div 4 + 1]
    <2> HIDE DEF T
    <2> QED BY <1>8, <1>9
  <1>11. quick # {} /\ quick \subseteq 1 .. Len(o)
    <2>1. PICK i \in 1 .. Len(o) : x = o[i] OBVIOUS
    <2>2. Duration(x) \in Nat \ {0} BY <1>6
    <2>3. Duration(o[i]) \in 1 .. cutoff BY <1>10, <2>1, <2>2
    <2> HIDE DEF cutoff
    <2> QED BY <1>2, <2>3
  <1>12. cutoff \in Int BY <1>6, <1>10
  <1> HIDE DEF cutoff
  <1>13. \A i \in 1 .. Len(o) : i \in quick <=> Duration(o[i]) \in 1 .. cutoff BY <1>2
  <1> HIDE DEF quick
  <1>14. \E i \in quick : First(i)
    <2> DEFINE arrivals == {o[i].arrive : i \in quick}
    <2>1. arrivals \in SUBSET Nat /\ arrivals # {} BY <1>2, <1>11
    <2>2. PICK a \in arrivals : \A n \in arrivals : a <= n
      <3> HIDE DEF arrivals
      <3> QED BY <2>1, MinOfNats
    <2> DEFINE those == {i \in quick : o[i].arrive = a}
    <2>3. those \in SUBSET Nat /\ those # {}
      <3>1. PICK i \in quick : o[i].arrive = a OBVIOUS
      <3>2. \A k \in quick : k \in Nat BY <1>2, <1>11
      <3> HIDE DEF arrivals
      <3> QED BY <3>1, <3>2
    <2>4. PICK i \in those : \A k \in those : i <= k
      <3> HIDE DEF those
      <3> QED BY <2>3, MinOfNats
    <2>5. ASSUME NEW k \in quick PROVE o[i].arrive < o[k].arrive \/ (o[i].arrive = o[k].arrive /\ i <= k)
      <3>1. a <= o[k].arrive /\ a \in Nat /\ o[k].arrive \in Nat BY <2>1, <2>2, <1>2, <1>11
      <3>2. CASE o[k].arrive = a BY <2>4, <3>2
      <3>3. CASE o[k].arrive # a BY <3>1, <3>3
      <3> QED BY <3>2, <3>3
    <2> QED BY <2>5
  <1> DEFINE best == CHOOSE i \in quick : First(i)
  <1>15. MarkRecommended(o) = best
    <2> HIDE DEF First
    <2> QED BY <1>1, <1>4, Zenon
  <1>16. best \in quick /\ First(best)
    <2> HIDE DEF First
    <2> QED BY <1>14
  <1> HIDE DEF best
  <1>17. ASSUME NEW i \in 1 .. Len(o), Duration(o[i]) \in 1 .. Duration(o[best]) PROVE o[i].arrive >= o[best].arrive
    <2>1. best \in 1 .. Len(o) /\ Duration(o[best]) \in 1 .. cutoff BY <1>11, <1>13, <1>16
    <2>2. Duration(o[i]) \in 1 .. cutoff BY <1>12, <1>17, <2>1
    <2>3. i \in quick BY <1>13, <2>2
    <2>4. o[best].arrive \in Nat /\ o[i].arrive \in Nat BY <1>2, <2>1
    <2> QED BY <1>16, <2>3, <2>4
  <1> QED BY <1>11, <1>15, <1>16, <1>17

\* The gap after an option reaches the next one; a note of a long one is where one is.
GapTold(o, gaps, notes, i) ==
    /\ o[i].depart + AtLeast(gaps[i], 0) = o[i + 1].depart
    /\ <<"long_gap", o[i].depart>> \in notes
         <=> o[i + 1].depart - o[i].depart >= LongGap
               \/ \E k \in DOMAIN o : o[k].depart = o[i].depart /\ gaps[k] >= LongGap
LEMMA GapsTold ==
    ASSUME NEW S, Timetabled(S), NEW o \in Seq(S), ByDeparture(o), NEW windowEnd, NEW serviceEnd,
           NEW i \in 1 .. Len(o) - 1
    PROVE  GapTold(o, AnnotateGaps(o), BuildNotes(o, windowEnd, serviceEnd), i)
  <1> DEFINE gaps == AnnotateGaps(o)
             notes == BuildNotes(o, windowEnd, serviceEnd)
             LongAt(d) == \E k \in DOMAIN o : o[k].depart = d /\ gaps[k] >= LongGap
  <1>1. DOMAIN o = 1 .. Len(o) /\ Len(o) \in Nat /\ \A k \in 1 .. Len(o) : o[k].depart \in Nat BY DEF Timetabled
  <1>2. i \in 1 .. Len(o) /\ i + 1 \in 1 .. Len(o) /\ i # Len(o) /\ i < i + 1
    <2>1. PICK n \in Nat : n = Len(o) OBVIOUS
    <2>2. i \in 1 .. n - 1 BY <2>1
    <2>3. i \in 1 .. n /\ i + 1 \in 1 .. n /\ i # n /\ i < i + 1 BY <2>2
    <2> QED BY <2>1, <2>3
  <1>3. gaps[i] = IF o[i + 1].depart <= o[i].depart THEN NoInstant ELSE o[i + 1].depart - o[i].depart
    BY <1>1, <1>2 DEF AnnotateGaps
  <1>4. o[i].depart <= o[i + 1].depart BY <1>2 DEF ByDeparture
  <1>5. ASSUME NEW d PROVE <<"long_gap", d>> \in notes <=> LongAt(d)
    <2>1. <<"long_gap", d>> \in notes <=> <<"long_gap", d>> \in {<<"long_gap", o[k].depart>> : k \in {k \in DOMAIN o : gaps[k] >= LongGap}}
      BY DEF BuildNotes
    <2> HIDE DEF gaps, notes
    <2> QED BY <2>1
  <1> HIDE DEF gaps, notes
  <1>6. PICK a \in Nat, b \in Nat : a = o[i].depart /\ b = o[i + 1].depart BY <1>1, <1>2
  <1>7. o[i].depart + AtLeast(gaps[i], 0) = o[i + 1].depart BY <1>3, <1>4, <1>6 DEF AtLeast, NoInstant
  <1>8. o[i + 1].depart - o[i].depart >= LongGap => gaps[i] >= LongGap
    <2>1. LongGap \in Nat \ {0} BY ForecastAssumption
    <2> QED BY <1>3, <1>4, <1>6, <2>1 DEF NoInstant
  <1>9. GapTold(o, gaps, notes, i) BY <1>1, <1>2, <1>5, <1>7, <1>8 DEF GapTold
  <1> QED BY <1>9 DEF gaps, notes

\* What the probes found.
FoundBy(q) ==
    UNION {Range(q.answers[t]) : t \in Range(SampleTimes(q.ask.start, q.ask.window, MaxFanout)) \cap DOMAIN q.answers}

LEMMA SeqWithin ==
    ASSUME NEW S, NEW T, S \subseteq T, NEW s \in Seq(S)
    PROVE  s \in Seq(T)
  <1>1. PICK n \in Nat : n = Len(s) OBVIOUS
  <1>2. s \in [1 .. n -> T] BY <1>1
  <1> QED BY <1>2, IsList

Probed(q) == Where(SampleTimes(q.ask.start, q.ask.window, MaxFanout), LAMBDA t : t \in DOMAIN q.answers)
PlansOf(q) == [i \in DOMAIN Probed(q) |-> q.answers[Probed(q)[i]]]
LEMMA PlansFound ==
    ASSUME NEW q \in ForecastQuestions
    PROVE  /\ Timetabled(FoundBy(q)) /\ PlansOf(q) \in Seq(Seq(FoundBy(q)))
           /\ \A j \in FoundBy(q) : \E i \in 1 .. Len(PlansOf(q)) : \E k \in 1 .. Len(PlansOf(q)[i]) : PlansOf(q)[i][k] = j
  <1> DEFINE probed == SampleTimes(q.ask.start, q.ask.window, MaxFanout)
             on == {i \in DOMAIN probed : probed[i] \in DOMAIN q.answers}
             times == Picked(probed, on)
             plans == [i \in DOMAIN times |-> q.answers[times[i]]]
             S == FoundBy(q)
             T == Range(probed) \cap DOMAIN q.answers
  <1>1. PlansOf(q) = plans BY Zenon DEF PlansOf, Probed, Where
  <1>2. \A t \in DOMAIN q.answers : /\ q.answers[t] \in Seq(Range(q.answers[t]))
                                    /\ \A j \in Range(q.answers[t]) : j.depart \in Nat /\ j.arrive \in Nat
    BY QuestionsAssumption DEF ForecastSound
  <1>3. probed \in Seq(Nat)
    <2>1. q.ask.start \in Nat /\ q.ask.window \in Nat /\ q.ask.window >= MaxFanout
      BY QuestionsAssumption DEF ForecastSound, Forecastable
    <2> QED BY <2>1, SampleTimesAre
  <1>4. S = UNION {Range(q.answers[t]) : t \in T} BY DEF FoundBy
  <1> HIDE DEF probed, S
  <1>5. \A t \in T : q.answers[t] \in Seq(S)
    <2> SUFFICES ASSUME NEW t \in T PROVE q.answers[t] \in Seq(S) OBVIOUS
    <2>1. Range(q.answers[t]) \subseteq S BY <1>4
    <2>2. q.answers[t] \in Seq(Range(q.answers[t])) BY <1>2
    <2> HIDE DEF T
    <2> QED BY <2>1, <2>2, SeqWithin
  <1>6. Timetabled(S)
    <2> SUFFICES ASSUME NEW j \in S PROVE j.depart \in Nat /\ j.arrive \in Nat BY DEF Timetabled
    <2>1. PICK t \in T : j \in Range(q.answers[t]) BY <1>4
    <2> QED BY <1>2, <2>1
  <1>7. times \in Seq(T)
    <2>1. \A i \in 1 .. Len(probed) : i \in on => probed[i] \in T BY <1>3 DEF Range
    <2> HIDE DEF T, on
    <2> QED BY <1>3, <2>1, KeptIn
  <1>8. PICK h : Traces(h, times, probed, on, Len(probed)) BY <1>3, PickedIs
  <1> HIDE DEF times
  <1>9. /\ DOMAIN times = 1 .. Len(times) /\ Len(times) \in Nat
        /\ \A i \in 1 .. Len(times) : times[i] \in T
    BY <1>7
  <1>10. plans \in Seq(Seq(S)) /\ Len(plans) = Len(times) /\ \A i \in 1 .. Len(times) : plans[i] = q.answers[times[i]]
    <2>1. \A i \in 1 .. Len(times) : plans[i] = q.answers[times[i]] BY <1>9
    <2>2. plans \in [1 .. Len(times) -> Seq(S)] BY <1>5, <1>9
    <2> HIDE DEF plans
    <2> QED BY <1>9, <2>1, <2>2, IsList
  <1> HIDE DEF plans
  <1>11. ASSUME NEW j \in S PROVE \E i \in 1 .. Len(plans) : \E k \in 1 .. Len(plans[i]) : plans[i][k] = j
    <2>1. PICK t \in T : j \in Range(q.answers[t]) BY <1>4
    <2>2. PICK n \in DOMAIN probed : probed[n] = t BY <2>1 DEF Range
    <2>3. n \in 1 .. Len(probed) /\ n \in on BY <1>3, <2>2
    <2>4. PICK i \in 1 .. Len(times) : h[i] = n /\ times[i] = probed[h[i]] BY <1>8, <2>3 DEF Traces
    <2>5. plans[i] = q.answers[t] /\ i \in 1 .. Len(plans) BY <1>10, <2>2, <2>4
    <2>6. PICK k \in DOMAIN q.answers[t] : q.answers[t][k] = j BY <2>1 DEF Range
    <2>7. q.answers[t] \in Seq(S) BY <1>5
    <2>8. k \in 1 .. Len(q.answers[t]) BY <2>6, <2>7
    <2> QED BY <2>5, <2>6, <2>8
  <1> QED BY <1>1, <1>6, <1>10, <1>11 DEF S

\* The window computed for a question is what ForecastHonest says of it.
WindowSound(q, w) ==
    LET probed == SampleTimes(q.ask.start, q.ask.window, MaxFanout)
    IN  /\ Len(probed) <= AtLeast(MaxFanout, 1) /\ OnlyOnce(probed) /\ probed[1] = q.ask.start
        /\ \A i \in DOMAIN probed : probed[i] \in q.ask.start .. q.ask.start + q.ask.window
        /\ Range(w.options) \subseteq FoundBy(q)
        /\ \A i, j \in DOMAIN w.options :
              <<w.options[i].rides, w.options[i].depart>> = <<w.options[j].rides, w.options[j].depart>> => i = j
        /\ Len(w.options) < q.ask.maxOptions =>
              \A j \in FoundBy(q) : \E i \in DOMAIN w.options :
                 w.options[i].rides = j.rides /\ w.options[i].depart = j.depart
        /\ \A i \in 1 .. Len(w.options) - 1 : ~q.ask.arriveBy =>
              /\ w.options[i].depart + AtLeast(w.gaps[i], 0) = w.options[i + 1].depart
              /\ <<"long_gap", w.options[i].depart>> \in w.notes
                   <=> w.options[i + 1].depart - w.options[i].depart >= LongGap
                         \/ \E k \in DOMAIN w.options : w.options[k].depart = w.options[i].depart /\ w.gaps[k] >= LongGap
        /\ w.recommended # 0 => \A i \in DOMAIN w.options :
              Duration(w.options[i]) \in 1 .. Duration(w.options[w.recommended])
                => w.options[i].arrive >= w.options[w.recommended].arrive

LEMMA ComputedSound ==
    ASSUME NEW q \in ForecastQuestions
    PROVE  WindowSound(q, Compute(q.answers, q.ask))
  <1> DEFINE probed == SampleTimes(q.ask.start, q.ask.window, MaxFanout)
             plans == PlansOf(q)
             S == FoundBy(q)
             o == BuildOptions(plans, q.ask.maxOptions, q.ask.arriveBy)
             gaps == AnnotateGaps(o)
             best == MarkRecommended(o)
             notes == BuildNotes(o, q.ask.start + q.ask.window, q.ask.serviceEnd)
             w == Compute(q.answers, q.ask)
  <1>1. /\ q.ask.start \in Nat /\ q.ask.window \in Nat /\ q.ask.window >= MaxFanout /\ q.ask.maxOptions \in Nat
        /\ q.ask.arriveBy \in BOOLEAN
    BY QuestionsAssumption DEF ForecastSound, Forecastable
  <1>2. w = [options |-> o, gaps |-> gaps, recommended |-> best, notes |-> notes] BY Zenon DEF Compute, PlansOf, Probed
  <1>3. /\ probed \in Seq(Nat) /\ Len(probed) \in 1 .. MaxFanout /\ probed[1] = q.ask.start
        /\ \A i \in 1 .. Len(probed) : probed[i] \in q.ask.start .. q.ask.start + q.ask.window
        /\ \A i, j \in 1 .. Len(probed) : probed[i] = probed[j] => i = j
    BY <1>1, SampleTimesAre
  <1>4. /\ Timetabled(S) /\ plans \in Seq(Seq(S))
        /\ \A j \in S : \E i \in 1 .. Len(plans) : \E k \in 1 .. Len(plans[i]) : plans[i][k] = j
    BY PlansFound
  <1> HIDE DEF plans, S
  <1>5. /\ o \in Seq(S) /\ EachTaken(o)
        /\ ~q.ask.arriveBy => ByDeparture(o)
        /\ Len(o) < q.ask.maxOptions => Holding(o, plans)
    BY <1>1, <1>4, OptionsAre
  <1> HIDE DEF o
  <1>6. ~q.ask.arriveBy => \A i \in 1 .. Len(o) - 1 : GapTold(o, gaps, notes, i)
    BY <1>4, <1>5, GapsTold
  <1>7. best # 0 => \A i \in 1 .. Len(o) : Duration(o[i]) \in 1 .. Duration(o[best]) => o[i].arrive >= o[best].arrive
    BY <1>4, <1>5, RecommendedIs
  <1>8. DOMAIN o = 1 .. Len(o) /\ DOMAIN probed = 1 .. Len(probed)
    <2> HIDE DEF probed
    <2> QED BY <1>3, <1>5
  <1> HIDE DEF gaps, best, notes, w, probed
  <1>9. w.options = o /\ w.gaps = gaps /\ w.recommended = best /\ w.notes = notes BY <1>2
  <1>10. Len(probed) <= AtLeast(MaxFanout, 1)
    <2>1. MaxFanout \in Nat \ {0} BY ForecastAssumption
    <2> QED BY <1>3, <2>1 DEF AtLeast
  <1>11. OnlyOnce(probed) BY <1>3, <1>8 DEF OnlyOnce
  <1>12. Range(o) \subseteq S BY <1>5 DEF Range
  <1>13. \A i, j \in DOMAIN o : <<o[i].rides, o[i].depart>> = <<o[j].rides, o[j].depart>> => i = j BY <1>5, <1>8 DEF EachTaken, Taken
  <1>14. Len(o) < q.ask.maxOptions => \A j \in S : \E i \in DOMAIN o : o[i].rides = j.rides /\ o[i].depart = j.depart
    <2> SUFFICES ASSUME Len(o) < q.ask.maxOptions, NEW j \in S
                 PROVE  \E i \in DOMAIN o : o[i].rides = j.rides /\ o[i].depart = j.depart
      OBVIOUS
    <2>0. PICK i \in 1 .. Len(plans) : \E k \in 1 .. Len(plans[i]) : plans[i][k] = j BY <1>4
    <2>1. PICK k \in 1 .. Len(plans[i]) : plans[i][k] = j BY <2>0
    <2>2. PICK n \in 1 .. Len(o) : Taken(o[n], plans[i][k]) BY <1>5 DEF Holding
    <2> QED BY <1>8, <2>1, <2>2 DEF Taken
  <1>15. \A i \in DOMAIN probed : probed[i] \in q.ask.start .. q.ask.start + q.ask.window BY <1>3, <1>8
  <1>16. WindowSound(q, w)
    <2>1. SampleTimes(q.ask.start, q.ask.window, MaxFanout) = probed BY DEF probed
    <2>2. S = FoundBy(q) BY DEF S
    <2> QED BY <1>3, <1>6, <1>7, <1>8, <1>9, <1>10, <1>11, <1>12, <1>13, <1>14, <1>15, <2>1, <2>2 DEF WindowSound, GapTold
  <1> QED BY <1>16 DEF w

\* What the cache holds, and what was answered from it or put there.
EntryOf(q) == [key |-> ForecastKey(q.ask), at |-> q.now, body |-> [window |-> Compute(q.answers, q.ask), of |-> q]]
Entries == {EntryOf(q) : q \in ForecastQuestions}
Serves(q, probed) == ForecastKey(q.ask) = ForecastKey(probed.ask) /\ probed.now - q.now < ForecastTtl
ForecastInv ==
    /\ forecasts \in Seq(Entries)
    /\ Is("forecast") => /\ question \in ForecastQuestions
                         /\ \E q \in ForecastQuestions : response = EntryOf(q).body /\ Serves(q, question)

LEMMA ForecastsFirst == QuestionsInit => ForecastInv
  BY DEF QuestionsInit, Silence, ForecastInv, Is

LEMMA PutIn ==
    ASSUME NEW S, NEW cache \in Seq(S), NEW key, NEW body, NEW now, [key |-> key, at |-> now, body |-> body] \in S
    PROVE  Put(cache, key, body, now) \in Seq(S)
  <1> DEFINE on == {i \in DOMAIN cache : cache[i].key # key}
             others == Picked(cache, on)
             kept == IF Len(others) >= CacheSize THEN Tail(others) ELSE others
  <1>1. Put(cache, key, body, now) = Append(kept, [key |-> key, at |-> now, body |-> body]) BY Zenon DEF Put, Where
  <1>2. others \in Seq(S) BY PickedIs
  <1> HIDE DEF others
  <1>3. kept \in Seq(S)
    <2>1. CacheSize \in Nat \ {0} BY ForecastAssumption
    <2>2. ASSUME Len(others) >= CacheSize PROVE Tail(others) \in Seq(S)
      <3>1. others # <<>> BY <2>1, <2>2
      <3> QED BY <1>2, <3>1
    <2> QED BY <1>2, <2>2
  <1> HIDE DEF kept
  <1> QED BY <1>1, <1>3

LEMMA ForecastKeeps == ASSUME ForecastInv, AskForecast PROVE ForecastInv'
  <1>1. PICK q \in ForecastQuestions :
          LET hit  == Cached(forecasts, ForecastKey(q.ask), q.now)
              body == [window |-> Compute(q.answers, q.ask), of |-> q]
          IN  /\ question' = q
              /\ response' = IF hit # <<>> THEN hit[1].body ELSE body
              /\ forecasts' = IF hit # <<>> THEN forecasts ELSE Put(forecasts, ForecastKey(q.ask), body, q.now)
    BY DEF AskForecast
  <1> DEFINE on == {i \in DOMAIN forecasts : forecasts[i].key = ForecastKey(q.ask) /\ q.now - forecasts[i].at < ForecastTtl}
             hit == Picked(forecasts, on)
  <1>2. Cached(forecasts, ForecastKey(q.ask), q.now) = hit BY Zenon DEF Cached, Where
  <1>3. forecasts \in Seq(Entries) BY DEF ForecastInv
  <1>4. hit \in Seq(Entries) BY <1>3, PickedIs
  <1>5. PICK h : Traces(h, hit, forecasts, on, Len(forecasts)) BY <1>3, PickedIs
  <1> HIDE DEF hit
  <1>6. q.now \in Nat BY QuestionsAssumption DEF ForecastSound
  <1>7. CASE hit # <<>>
    <2>1. response' = hit[1].body /\ forecasts' = forecasts /\ question' = q BY <1>1, <1>2, <1>7
    <2>2. 1 \in 1 .. Len(hit) /\ hit[1] \in Entries
      <3>1. Len(hit) \in Nat /\ Len(hit) # 0 BY <1>4, <1>7
      <3>2. 1 \in 1 .. Len(hit) BY <3>1
      <3> QED BY <1>4, <3>2
    <2>3. hit[1] = forecasts[h[1]] /\ h[1] \in on BY <1>5, <2>2 DEF Traces
    <2>4. hit[1].key = ForecastKey(q.ask) /\ q.now - hit[1].at < ForecastTtl BY <2>3
    <2>5. PICK of \in ForecastQuestions : hit[1] = EntryOf(of) BY <2>2 DEF Entries
    <2>6. Serves(of, q) BY <2>4, <2>5 DEF Serves, EntryOf
    <2>7. response' = EntryOf(of).body /\ Serves(of, question') BY <2>1, <2>5, <2>6
    <2> QED BY <1>3, <2>1, <2>7 DEF ForecastInv
  <1>8. CASE hit = <<>>
    <2>1. /\ response' = [window |-> Compute(q.answers, q.ask), of |-> q]
          /\ question' = q
          /\ forecasts' = Put(forecasts, ForecastKey(q.ask), [window |-> Compute(q.answers, q.ask), of |-> q], q.now)
      BY <1>1, <1>2, <1>8
    <2>2. EntryOf(q) \in Entries BY DEF Entries
    <2>3. forecasts' \in Seq(Entries)
      <3>1. [key |-> ForecastKey(q.ask), at |-> q.now, body |-> [window |-> Compute(q.answers, q.ask), of |-> q]] \in Entries
        BY <2>2 DEF EntryOf
      <3> QED BY <1>3, <2>1, <3>1, PutIn
    <2>4. Serves(q, q)
      <3>1. ForecastTtl \in Nat \ {0} BY ForecastAssumption
      <3> QED BY <1>6, <3>1 DEF Serves
    <2>5. EntryOf(q).body = [window |-> Compute(q.answers, q.ask), of |-> q] BY DEF EntryOf
    <2>6. response' = EntryOf(q).body /\ Serves(q, question') BY <2>1, <2>4, <2>5
    <2> QED BY <2>1, <2>3, <2>6 DEF ForecastInv
  <1> QED BY <1>7, <1>8

LEMMA ForecastsNext == ASSUME ForecastInv, [QuestionsNext]_questions PROVE ForecastInv'
  <1>1. CASE UNCHANGED questions BY <1>1 DEF questions, ForecastInv, Is
  <1>2. CASE AskForecast BY <1>2, ForecastKeeps
  <1>3. ASSUME question'.kind # "forecast", UNCHANGED forecasts PROVE ForecastInv' BY <1>3 DEF ForecastInv, Is
  <1> QED BY <1>1, <1>2, <1>3, AskedKinds, OtherQuestions

LEMMA SameButWheelchair ==
    ASSUME NEW a \in Forecastable, NEW b \in Forecastable, ForecastKey(a) = ForecastKey(b)
    PROVE  [a EXCEPT !.wheelchair = b.wheelchair] = b
  <1>1. /\ a.start = b.start /\ a.window = b.window /\ a.maxOptions = b.maxOptions /\ a.arriveBy = b.arriveBy
        /\ a.serviceEnd = b.serviceEnd
    <2>1. [a EXCEPT !.wheelchair = FALSE] = [b EXCEPT !.wheelchair = FALSE] BY DEF ForecastKey
    <2> QED BY <2>1 DEF Forecastable
  <1> QED BY <1>1 DEF Forecastable

\* forecast.py: whatever was asked when and whatever the probes found, the window shown
\* is of them, in time and of the same question but for its wheelchair flag; its
\* options are each journey once, its gaps and its notes are those of its options.
THEOREM ForecastsAreHonest == QuestionsSpec => []ForecastHonest
  <1>1. ASSUME ForecastInv, Is("forecast") PROVE ForecastHonest
    <2>1. PICK q \in ForecastQuestions : response = EntryOf(q).body /\ Serves(q, question)
      BY <1>1 DEF ForecastInv
    <2>2. response.window = Compute(q.answers, q.ask) /\ response.of = q BY <2>1 DEF EntryOf
    <2>3. WindowSound(response.of, response.window) BY <2>2, ComputedSound
    <2>4. question \in ForecastQuestions BY <1>1 DEF ForecastInv
    <2>5. [q.ask EXCEPT !.wheelchair = question.ask.wheelchair] = question.ask
      <3>1. q.ask \in Forecastable /\ question.ask \in Forecastable BY <2>4, QuestionsAssumption DEF ForecastSound
      <3> QED BY <2>1, <3>1, SameButWheelchair DEF Serves
    <2>6. question.now - q.now < ForecastTtl BY <2>1 DEF Serves
    <2> QED BY <2>2, <2>3, <2>5, <2>6, Zenon DEF ForecastHonest, WindowSound, FoundBy
  <1>2. ForecastInv => ForecastHonest BY <1>1 DEF ForecastHonest
  <1> QED BY ForecastsFirst, ForecastsNext, <1>2, PTL DEF QuestionsSpec

-----------------------------------------------------------------------------
(***************************************************************************)
(* What a trip costs.  Roundings, sums and the tiers of a car park grow    *)
(* with what they are of.                                                  *)
(***************************************************************************)
LEMMA Scaled ==
    ASSUME NEW d \in Nat, NEW a \in Int, NEW b \in Int, a <= b
    PROVE  d * a <= d * b
  <1>1. PICK z \in Nat : b = a + z BY b - a \in Nat
  <1>2. d * (a + z) = d * a + d * z /\ d * z \in Nat /\ d * a \in Int OBVIOUS
  <1> QED BY <1>1, <1>2

LEMMA DivGrows ==
    ASSUME NEW d \in Nat \ {0}, NEW x \in Int, NEW y \in Int, x <= y
    PROVE  x \div d <= y \div d /\ (x \div d = y \div d => x % d <= y % d)
  <1>1. PICK a \in Int, r \in Int : a = x \div d /\ r = x % d /\ 0 <= r /\ r < d /\ x = d * a + r BY Parts
  <1>2. PICK b \in Int, s \in Int : b = y \div d /\ s = y % d /\ 0 <= s /\ s < d /\ y = d * b + s BY Parts
  <1>3. a <= b
    <2> SUFFICES ASSUME b + 1 <= a PROVE FALSE OBVIOUS
    <2>1. d * (b + 1) <= d * a BY Scaled
    <2>2. d * (b + 1) = d * b + d /\ d * b \in Int /\ d * a \in Int OBVIOUS
    <2> QED BY <1>1, <1>2, <2>1, <2>2
  <1>4. ASSUME a = b PROVE r <= s
    <2>1. d * a \in Int OBVIOUS
    <2> QED BY <1>1, <1>2, <1>4, <2>1
  <1> QED BY <1>1, <1>2, <1>3, <1>4

LEMMA RoundedGrows ==
    ASSUME NEW d \in Nat \ {0}, NEW unit \in Nat \ {0}, NEW x \in Int, NEW y \in Int, x <= y
    PROVE  Rounded(x, d, unit) \in Int /\ Rounded(x, d, unit) <= Rounded(y, d, unit)
  <1> DEFINE e == d * unit
             Whole(n) == IF 2 * (n % e) < e \/ (2 * (n % e) = e /\ (n \div e) % 2 = 0) THEN n \div e ELSE n \div e + 1
  <1>1. e \in Nat \ {0}
    <2>1. d * 1 <= d * unit BY Scaled
    <2> QED BY <2>1
  <1>2. \A n \in Int : Rounded(n, d, unit) = unit * Whole(n) BY DEF Rounded
  <1> HIDE DEF e
  <1>3. \A n \in Int : /\ Whole(n) \in Int /\ n \div e <= Whole(n) /\ Whole(n) <= n \div e + 1 BY <1>1, Parts
  <1>4. Whole(x) <= Whole(y)
    <2>1. PICK a \in Int, r \in Int : a = x \div e /\ r = x % e BY <1>1, Parts
    <2>2. PICK b \in Int, s \in Int : b = y \div e /\ s = y % e BY <1>1, Parts
    <2>3. a <= b /\ (a = b => r <= s) BY <1>1, <2>1, <2>2, DivGrows
    <2>4. CASE a = b
      <3>1. r <= s /\ e \in Nat BY <1>1, <2>3, <2>4
      <3>2. /\ Whole(x) = IF 2 * r < e \/ (2 * r = e /\ a % 2 = 0) THEN a ELSE a + 1
            /\ Whole(y) = IF 2 * s < e \/ (2 * s = e /\ a % 2 = 0) THEN a ELSE a + 1
        BY <2>1, <2>2, <2>4
      <3> HIDE DEF Whole
      <3> QED BY <3>1, <3>2
    <2>5. CASE a < b
      <3> HIDE DEF Whole
      <3> QED BY <1>3, <2>1, <2>2, <2>5
    <2> QED BY <2>3, <2>4, <2>5
  <1> HIDE DEF Whole
  <1>5. unit * Whole(x) <= unit * Whole(y) /\ unit * Whole(x) \in Int BY <1>3, <1>4, Scaled
  <1> QED BY <1>2, <1>5

\* A multiple of the unit stays what it is; what is rounded is one.
LEMMA RoundedWhole ==
    ASSUME NEW d \in Nat \ {0}, NEW unit \in Nat \ {0}, NEW k \in Int
    PROVE  Rounded(d * (unit * k), d, unit) = unit * k
  <1> DEFINE e == d * unit
  <1>1. e \in Nat \ {0}
    <2>1. d * 1 <= d * unit BY Scaled
    <2> QED BY <2>1
  <1>2. d * (unit * k) = e * k OBVIOUS
  <1> HIDE DEF e
  <1>3. (e * k) \div e = k /\ (e * k) % e = 0
    <2>1. (e * k + 0) \div e = k /\ (e * k + 0) % e = 0 BY <1>1, DivisionOf
    <2>2. e * k + 0 = e * k BY <1>1
    <2> QED BY <2>1, <2>2
  <1>4. 2 * 0 < e BY <1>1
  <1> QED BY <1>2, <1>3, <1>4 DEF Rounded, e

LEMMA RoundedIs ==
    ASSUME NEW d \in Nat \ {0}, NEW unit \in Nat \ {0}, NEW x \in Int
    PROVE  \E k \in Int : Rounded(x, d, unit) = unit * k
  <1> DEFINE e == d * unit
             Whole(n) == IF 2 * (n % e) < e \/ (2 * (n % e) = e /\ (n \div e) % 2 = 0) THEN n \div e ELSE n \div e + 1
  <1>1. e \in Nat \ {0}
    <2>1. d * 1 <= d * unit BY Scaled
    <2> QED BY <2>1
  <1>2. Rounded(x, d, unit) = unit * Whole(x) BY DEF Rounded
  <1> HIDE DEF e
  <1>3. Whole(x) \in Int BY <1>1, Parts
  <1> QED BY <1>2, <1>3

LEMMA RoundedNat ==
    ASSUME NEW d \in Nat \ {0}, NEW unit \in Nat \ {0}, NEW x \in Nat
    PROVE  Rounded(x, d, unit) \in Nat
  <1>1. Rounded(d * (unit * 0), d, unit) = unit * 0 BY RoundedWhole
  <1>2. d * (unit * 0) = 0 /\ unit * 0 = 0 OBVIOUS
  <1>3. Rounded(0, d, unit) <= Rounded(x, d, unit) /\ Rounded(x, d, unit) \in Int BY RoundedGrows
  <1> QED BY <1>1, <1>2, <1>3

\* A sum is what the loop that adds leaves.
Adds(f, s) == /\ f \in [0 .. Len(s) -> Nat] /\ f[0] = 0
              /\ \A i \in 1 .. Len(s) : f[i] = f[i - 1] + s[i]
LEMMA SumsUp ==
    ASSUME NEW s \in Seq(Nat)
    PROVE  SumOf(s) \in Nat /\ \E f : Adds(f, s) /\ SumOf(s) = f[Len(s)]
  <1> DEFINE n == Len(s)
             Ok(f) == f = [i \in 0 .. n |-> IF i = 0 THEN 0 ELSE f[i - 1] + s[i]]
             g == [i \in 1 .. n |-> [r \in Nat |-> r + s[i]]]
  <1>1. n \in Nat /\ 0 \in Nat /\ \A i \in 1 .. n : s[i] \in Nat OBVIOUS
  <1>2. g \in [1 .. n -> [Nat -> Nat]] BY <1>1
  <1>3. \E f : Ok(f)
    <2>1. PICK f \in [0 .. n -> Nat] : IsLoop(f, 0, g, n)
      <3> HIDE DEF g, n
      <3> QED BY <1>1, <1>2, LoopExists
    <2>2. ASSUME NEW i \in 0 .. n, i # 0 PROVE i \in 1 .. n /\ f[i - 1] \in Nat
      <3>1. i \in 1 .. n /\ i - 1 \in 0 .. n BY <1>1, <2>2
      <3> QED BY <3>1
    <2>3. \A i \in 0 .. n : i # 0 => g[i][f[i - 1]] = f[i - 1] + s[i] BY <2>2
    <2> HIDE DEF g
    <2>4. [i \in 0 .. n |-> IF i = 0 THEN 0 ELSE g[i][f[i - 1]]] = [i \in 0 .. n |-> IF i = 0 THEN 0 ELSE f[i - 1] + s[i]]
      BY <2>3
    <2>5. Ok(f) BY <2>1, <2>4 DEF IsLoop
    <2> QED BY <2>5
  <1> DEFINE f == CHOOSE x : Ok(x)
  <1>4. SumOf(s) = f[n] BY DEF SumOf
  <1>5. Ok(f) BY <1>3, Zenon
  <1> HIDE DEF f
  <1>6. f[0] = 0 /\ \A i \in 1 .. n : f[i] = f[i - 1] + s[i]
    <2>1. f = [i \in 0 .. n |-> IF i = 0 THEN 0 ELSE f[i - 1] + s[i]] BY <1>5
    <2> HIDE DEF n
    <2>2. 0 \in 0 .. n /\ \A i \in 1 .. n : i \in 0 .. n /\ i # 0 BY <1>1
    <2> QED BY <2>1, <2>2
  <1>7. \A i \in 0 .. n : f[i] \in Nat
    <2>1. \A i \in 1 .. n : f[i - 1] \in Nat => f[i] = g[i][f[i - 1]] BY <1>1, <1>6
    <2> HIDE DEF g, n
    <2> QED BY <1>1, <1>2, <1>6, <2>1, LoopStays
  <1>8. f \in [0 .. n -> Nat]
    <2>1. DOMAIN f = 0 .. n
      <3>1. f = [i \in 0 .. n |-> IF i = 0 THEN 0 ELSE f[i - 1] + s[i]] BY <1>5
      <3> QED BY <3>1, Zenon
    <2>2. f = [i \in 0 .. n |-> f[i]]
      <3>1. f = [i \in 0 .. n |-> IF i = 0 THEN 0 ELSE f[i - 1] + s[i]] BY <1>5
      <3> QED BY <2>1, <3>1
    <2> QED BY <1>7, <2>2
  <1>9. Adds(f, s) BY <1>6, <1>8 DEF Adds
  <1>10. f[n] \in Nat
    <2>1. n \in 0 .. n BY <1>1
    <2> QED BY <1>7, <2>1
  <1> QED BY <1>4, <1>9, <1>10

LEMMA SumGrows ==
    ASSUME NEW s \in Seq(Nat), NEW t \in Seq(Nat), Len(s) = Len(t), \A i \in 1 .. Len(s) : s[i] <= t[i]
    PROVE  SumOf(s) <= SumOf(t)
  <1>1. PICK f : Adds(f, s) /\ SumOf(s) = f[Len(s)] BY SumsUp
  <1>2. PICK h : Adds(h, t) /\ SumOf(t) = h[Len(t)] BY SumsUp
  <1>3. PICK n \in Nat : n = Len(s) /\ n = Len(t) OBVIOUS
  <1>4. /\ f \in [0 .. n -> Nat] /\ f[0] = 0 /\ \A i \in 1 .. n : f[i] = f[i - 1] + s[i]
        /\ h \in [0 .. n -> Nat] /\ h[0] = 0 /\ \A i \in 1 .. n : h[i] = h[i - 1] + t[i]
    BY <1>1, <1>2, <1>3, Zenon DEF Adds
  <1>8. \A i \in 1 .. n : s[i] \in Nat /\ t[i] \in Nat BY <1>3
  <1> DEFINE Q == {m \in Nat : m <= n => f[m] <= h[m]}
  <1>5. 0 \in Q BY <1>4
  <1>6. ASSUME NEW m \in Nat, m \in Q PROVE m + 1 \in Q
    <2> SUFFICES ASSUME m + 1 <= n PROVE f[m + 1] <= h[m + 1] OBVIOUS
    <2>1. m + 1 \in 1 .. n /\ (m + 1) - 1 = m /\ m \in 0 .. n BY <1>3
    <2>2. f[m] <= h[m] /\ f[m] \in Nat /\ h[m] \in Nat BY <1>4, <1>6, <2>1
    <2>3. f[m + 1] = f[m] + s[m + 1] /\ h[m + 1] = h[m] + t[m + 1] BY <1>4, <2>1
    <2>4. s[m + 1] \in Nat /\ t[m + 1] \in Nat /\ s[m + 1] <= t[m + 1] BY <1>3, <1>8, <2>1
    <2> QED BY <2>2, <2>3, <2>4
  <1> HIDE DEF Q
  <1>7. n \in Q BY <1>5, <1>6, Induction
  <1> QED BY <1>1, <1>2, <1>3, <1>7 DEF Q

-----------------------------------------------------------------------------
(***************************************************************************)
(* The taximeter, and who is recommended.                                  *)
(***************************************************************************)
TariffSound(t) == /\ t \in Tariff(t.surcharges, t.zones) /\ ListOf(t.surcharges)
                  /\ \A x \in Range(t.surcharges) : x.amount \in Nat

LEMMA ChargedFor ==
    ASSUME NEW t, TariffSound(t), NEW ride
    PROVE  LET applied == ApplicableSurcharges(t, ride)
               amounts == [i \in DOMAIN applied |-> applied[i].amount]
           IN  amounts \in Seq(Nat)
  <1> DEFINE S == Range(t.surcharges)
             on == {i \in DOMAIN t.surcharges : Applies(t, t.surcharges[i], ride)}
             applied == ApplicableSurcharges(t, ride)
             amounts == [i \in DOMAIN applied |-> applied[i].amount]
  <1>1. t.surcharges \in Seq(S) /\ \A x \in S : x.amount \in Nat BY DEF TariffSound, ListOf
  <1>2. applied = Picked(t.surcharges, on) BY Zenon DEF ApplicableSurcharges, Where
  <1> HIDE DEF S, on
  <1>3. applied \in Seq(S) BY <1>1, <1>2, PickedIs
  <1> HIDE DEF applied
  <1>4. \A i \in 1 .. Len(applied) : applied[i].amount \in Nat BY <1>1, <1>3
  <1>5. amounts \in [1 .. Len(applied) -> Nat] BY <1>3, <1>4
  <1>6. Len(applied) \in Nat BY <1>3
  <1> HIDE DEF amounts
  <1>7. amounts \in Seq(Nat) BY <1>5, <1>6, IsList
  <1> QED BY <1>7 DEF amounts, applied

LEMMA MeterGrows ==
    ASSUME NEW t, TariffSound(t), NEW points, NEW wanted, NEW ride \in RideOf(points, wanted)
    PROVE  LET further == [ride EXCEPT !.metres = @ + 1]
           IN  /\ Metered(t, ride) \in Nat /\ Metered(t, further) \in Nat
               /\ Metered(t, ride) <= Metered(t, further)
  <1> DEFINE further == [ride EXCEPT !.metres = @ + 1]
             waited == (ride.seconds * t.waitingPct) \div (100 * t.unitSeconds)
             Units(m) == CeilDiv(m, t.unitMetres) + waited
             Meter(m) == Rounded(AtLeast(t.flagFall + Units(m) * t.unitPrice, t.minimum), 1, t.rounding)
  <1>1. /\ t.flagFall \in Nat /\ t.minimum \in Nat /\ t.unitPrice \in Nat /\ t.unitMetres \in Nat \ {0}
        /\ t.unitSeconds \in Nat \ {0} /\ t.waitingPct \in Nat /\ t.rounding \in Nat \ {0}
    BY DEF TariffSound, Tariff
  <1>2. ride.metres \in Nat /\ ride.seconds \in Nat BY DEF RideOf
  <1>3. further.metres = ride.metres + 1 /\ further.seconds = ride.seconds BY DEF RideOf
  <1> HIDE DEF further
  <1>4. Metered(t, ride) = Meter(ride.metres) BY DEF Metered, MeterUnits
  <1>5. Metered(t, further) = Meter(ride.metres + 1) BY <1>3 DEF Metered, MeterUnits
  <1>6. waited \in Nat
    <2>1. 100 * t.unitSeconds \in Nat \ {0}
      <3>1. 100 * 1 <= 100 * t.unitSeconds BY <1>1, Scaled
      <3> QED BY <1>1, <3>1
    <2>2. ride.seconds * t.waitingPct \in Nat
      <3>1. PICK a \in Nat, b \in Nat : a = ride.seconds /\ b = t.waitingPct BY <1>1, <1>2
      <3>2. a * 0 <= a * b BY Scaled
      <3>3. a * b \in Int /\ a * 0 = 0 OBVIOUS
      <3> QED BY <3>1, <3>2, <3>3
    <2>3. 0 \div (100 * t.unitSeconds) = 0 BY <2>1
    <2>4. 0 \div (100 * t.unitSeconds) <= waited
      <3>1. 0 <= ride.seconds * t.waitingPct BY <2>2
      <3>2. 0 \in Int /\ ride.seconds * t.waitingPct \in Int BY <2>2
      <3> QED BY <2>1, <3>1, <3>2, DivGrows
    <2>5. waited \in Int BY <2>1, <2>2, Parts
    <2> QED BY <2>3, <2>4, <2>5
  <1> HIDE DEF waited
  <1>7. Units(ride.metres) \in Nat /\ Units(ride.metres + 1) \in Nat /\ Units(ride.metres) <= Units(ride.metres + 1)
    <2>1. PICK d \in Nat \ {0}, m \in Nat : d = t.unitMetres /\ m = ride.metres BY <1>1, <1>2
    <2>2. (m + d - 1) \div d <= (m + 1 + d - 1) \div d /\ (m + d - 1) \div d \in Int /\ (m + 1 + d - 1) \div d \in Int
      <3>1. m + d - 1 \in Int /\ m + 1 + d - 1 \in Int /\ m + d - 1 <= m + 1 + d - 1 OBVIOUS
      <3> QED BY <3>1, DivGrows, Parts
    <2>3. 0 <= (m + d - 1) \div d
      <3>1. 0 \in Int /\ m + d - 1 \in Int /\ 0 <= m + d - 1 OBVIOUS
      <3>2. 0 \div d <= (m + d - 1) \div d BY <3>1, DivGrows
      <3>3. 0 \div d = 0 OBVIOUS
      <3> QED BY <3>2, <3>3
    <2> QED BY <1>6, <2>1, <2>2, <2>3 DEF CeilDiv
  <1> HIDE DEF Units
  <1>8. PICK u \in Nat, v \in Nat : u = Units(ride.metres) /\ v = Units(ride.metres + 1) /\ u <= v BY <1>7
  <1> DEFINE Cost(k) == AtLeast(t.flagFall + k * t.unitPrice, t.minimum)
  <1>9. Cost(u) \in Nat /\ Cost(v) \in Nat /\ Cost(u) <= Cost(v)
    <2>1. PICK p \in Nat, a \in Nat, b \in Nat : p = t.unitPrice /\ a = t.flagFall /\ b = t.minimum BY <1>1
    <2>2. p * 0 <= p * u /\ p * u <= p * v /\ p * u \in Int /\ p * v \in Int /\ p * 0 = 0 BY <1>8, Scaled
    <2>3. u * p = p * u /\ v * p = p * v OBVIOUS
    <2>4. PICK x \in Nat, y \in Nat : x = p * u /\ y = p * v /\ x <= y BY <2>2
    <2> QED BY <2>1, <2>3, <2>4 DEF AtLeast
  <1> HIDE DEF Cost
  <1>10. 1 \in Nat \ {0} OBVIOUS
  <1>11. /\ Rounded(Cost(u), 1, t.rounding) \in Nat /\ Rounded(Cost(v), 1, t.rounding) \in Nat
         /\ Rounded(Cost(u), 1, t.rounding) <= Rounded(Cost(v), 1, t.rounding)
    <2>1. Cost(u) \in Int /\ Cost(v) \in Int BY <1>9
    <2> QED BY <1>1, <1>9, <1>10, <2>1, RoundedNat, RoundedGrows
  <1>12. Metered(t, ride) = Rounded(Cost(u), 1, t.rounding) /\ Metered(t, further) = Rounded(Cost(v), 1, t.rounding)
    BY <1>4, <1>5, <1>8 DEF Cost
  <1> QED BY <1>11, <1>12 DEF further

\* What is said of the meter: its band holds it, and a longer ride is never cheaper.
LEMMA EstimateIs ==
    ASSUME NEW t, TariffSound(t), NEW points, NEW wanted, NEW ride \in RideOf(points, wanted)
    PROVE  LET meter   == Estimate(t, ride)
               further == Estimate(t, [ride EXCEPT !.metres = @ + 1])
           IN  /\ meter.amount \in Nat
               /\ meter.min <= meter.amount /\ meter.amount <= meter.max
               /\ meter.amount <= further.amount
  <1> DEFINE longer == [ride EXCEPT !.metres = @ + 1]
             applied == ApplicableSurcharges(t, ride)
             amounts == [i \in DOMAIN applied |-> applied[i].amount]
             total == Rounded(Metered(t, ride) + SumOf(amounts), 1, t.rounding)
             more == Rounded(Metered(t, longer) + SumOf(amounts), 1, t.rounding)
  <1>1. t.rounding \in Nat \ {0} /\ t.bandPct \in Nat BY DEF TariffSound, Tariff
  <1>2. ApplicableSurcharges(t, longer) = applied
    <2> DEFINE on(r) == {i \in DOMAIN t.surcharges : Applies(t, t.surcharges[i], r)}
    <2>1. \A r : ApplicableSurcharges(t, r) = Picked(t.surcharges, on(r)) BY Zenon DEF ApplicableSurcharges, Where
    <2>2. /\ longer.wanted = ride.wanted /\ longer.minute = ride.minute /\ longer.sunday = ride.sunday
          /\ longer.holiday = ride.holiday /\ longer.points = ride.points
      BY DEF RideOf
    <2> HIDE DEF longer
    <2>3. ZonesTouched(t, longer.points) = ZonesTouched(t, ride.points) BY <2>2
    <2>4. \A s : Applies(t, s, longer) = Applies(t, s, ride) BY <2>2, <2>3, Zenon DEF Applies
    <2>5. on(longer) = on(ride) BY <2>4, Zenon
    <2> HIDE DEF on
    <2> QED BY <2>1, <2>5
  <1>3. /\ Estimate(t, ride).amount = total
        /\ Estimate(t, ride).min = Rounded(total * (100 - t.bandPct), 100, t.rounding)
        /\ Estimate(t, ride).max = Rounded(total * (100 + t.bandPct), 100, t.rounding)
    BY DEF Estimate
  <1>4. Estimate(t, longer).amount = more
    <2> HIDE DEF longer
    <2> QED BY <1>2 DEF Estimate
  <1>5. amounts \in Seq(Nat) BY ChargedFor
  <1> HIDE DEF amounts
  <1>6. SumOf(amounts) \in Nat BY <1>5, SumsUp
  <1>7. Metered(t, ride) \in Nat /\ Metered(t, longer) \in Nat /\ Metered(t, ride) <= Metered(t, longer) BY MeterGrows
  <1> HIDE DEF longer
  <1>8. 1 \in Nat \ {0} /\ 100 \in Nat \ {0} OBVIOUS
  <1>9. /\ Metered(t, ride) + SumOf(amounts) \in Nat /\ Metered(t, longer) + SumOf(amounts) \in Nat
        /\ Metered(t, ride) + SumOf(amounts) <= Metered(t, longer) + SumOf(amounts)
    BY <1>6, <1>7
  <1>10. total \in Nat BY <1>1, <1>8, <1>9, RoundedNat
  <1>11. total <= more BY <1>1, <1>8, <1>9, RoundedGrows
  <1>12. PICK k \in Int : total = t.rounding * k
    <2>1. Metered(t, ride) + SumOf(amounts) \in Int BY <1>9
    <2> QED BY <1>1, <1>8, <2>1, RoundedIs
  <1>13. Rounded(100 * total, 100, t.rounding) = total BY <1>1, <1>8, <1>12, RoundedWhole
  <1> HIDE DEF total
  <1>14. PICK n \in Nat, b \in Nat : n = total /\ b = t.bandPct BY <1>1, <1>10
  <1>15. n * (100 - b) <= 100 * n /\ 100 * n <= n * (100 + b) /\ n * (100 - b) \in Int /\ n * (100 + b) \in Int
    <2>1. n * (100 - b) <= n * 100 /\ n * 100 <= n * (100 + b) BY Scaled
    <2> QED BY <2>1
  <1>16. /\ Rounded(n * (100 - b), 100, t.rounding) <= Rounded(100 * n, 100, t.rounding)
         /\ Rounded(100 * n, 100, t.rounding) <= Rounded(n * (100 + b), 100, t.rounding)
    <2>1. 100 * n \in Int OBVIOUS
    <2> QED BY <1>1, <1>8, <1>15, <2>1, RoundedGrows
  <1> QED BY <1>3, <1>4, <1>10, <1>11, <1>13, <1>14, <1>16 DEF longer

PricedRight(quotes) == \A i \in 1 .. Len(quotes) : quotes[i].price \in Nat \cup {Unpriced}

\* The cheapest of those with a price, whoever they are.
LEMMA CheapestIs ==
    ASSUME NEW S, NEW quotes \in Seq(S), PricedRight(quotes)
    PROVE  /\ \A i \in Priced(quotes) : /\ Recommended(quotes) \in Priced(quotes)
                                        /\ quotes[Recommended(quotes)].price <= quotes[i].price
           /\ quotes # <<>> => Recommended(quotes) \in 1 .. Len(quotes)
  <1> DEFINE P == Priced(quotes)
             prices == {quotes[i].price : i \in P}
             Best(i) == \A j \in P : \/ quotes[i].price < quotes[j].price
                                     \/ quotes[i].price = quotes[j].price /\ i <= j
  <1>1. P \subseteq 1 .. Len(quotes) /\ \A i \in P : quotes[i].price \in Nat BY DEF Priced, PricedRight
  <1>2. P = {} => Recommended(quotes) = 1 BY DEF Recommended
  <1>3. P # {} => Recommended(quotes) = CHOOSE i \in P : Best(i) BY DEF Recommended
  <1> HIDE DEF P
  <1>4. ASSUME P # {} PROVE \E i \in P : Best(i)
    <2>1. prices \in SUBSET Nat /\ prices # {} BY <1>1, <1>4
    <2>2. PICK p \in prices : \A c \in prices : p <= c
      <3> HIDE DEF prices
      <3> QED BY <2>1, MinOfNats
    <2> DEFINE lowest == {i \in P : quotes[i].price = p}
    <2>3. lowest \in SUBSET Nat /\ lowest # {} BY <1>1, <2>2
    <2>4. PICK i \in lowest : \A j \in lowest : i <= j
      <3> HIDE DEF lowest
      <3> QED BY <2>3, MinOfNats
    <2>5. ASSUME NEW j \in P PROVE \/ quotes[i].price < quotes[j].price
                                   \/ quotes[i].price = quotes[j].price /\ i <= j
      <3>1. p \in Nat /\ quotes[j].price \in Nat /\ p <= quotes[j].price BY <1>1, <2>1, <2>2
      <3>2. CASE p = quotes[j].price BY <2>4, <3>2
      <3>3. CASE p # quotes[j].price BY <2>4, <3>1, <3>3
      <3> QED BY <3>2, <3>3
    <2> QED BY <2>4, <2>5
  <1>5. ASSUME P # {} PROVE Recommended(quotes) \in P /\ Best(Recommended(quotes)) BY <1>3, <1>4, <1>5
  <1>6. ASSUME NEW i \in P PROVE quotes[Recommended(quotes)].price <= quotes[i].price
    <2>1. Recommended(quotes) \in P /\ Best(Recommended(quotes)) BY <1>5, <1>6
    <2>2. PICK a \in Nat, b \in Nat : a = quotes[Recommended(quotes)].price /\ b = quotes[i].price BY <1>1, <2>1
    <2>3. a < b \/ a = b BY <2>1, <2>2
    <2> QED BY <2>2, <2>3
  <1>7. quotes # <<>> => 1 \in 1 .. Len(quotes)
    <2>1. Len(quotes) \in Nat /\ (quotes # <<>> => Len(quotes) # 0) OBVIOUS
    <2> QED BY <2>1
  <1>8. quotes # <<>> => Recommended(quotes) \in 1 .. Len(quotes) BY <1>1, <1>2, <1>5, <1>7
  <1> QED BY <1>5, <1>6, <1>8 DEF P

\* Whoever is offered quotes what the meter says, or nothing.
LEMMA QuotesAre ==
    ASSUME NEW S, NEW configured \in Seq(S), \A p \in S : p.order \in Int /\ p.id \in Int,
           NEW tariffs, \A t \in Range(tariffs) : TariffSound(t),
           NEW points, NEW wanted, NEW ride \in RideOf(points, wanted)
    PROVE  LET quotes == QuotesFor(configured, tariffs, ride)
           IN  /\ quotes \in Seq({QuoteProvider(p, tariffs, ride) : p \in S})
               /\ PricedRight(quotes)
  <1> DEFINE on == {i \in DOMAIN configured : configured[i].enabled}
             enabled == Picked(configured, on)
             key == [i \in DOMAIN enabled |-> <<enabled[i].order, enabled[i].id>>]
             ps == SortedBy(enabled, key)
             quotes == QuotesFor(configured, tariffs, ride)
             Q == {QuoteProvider(p, tariffs, ride) : p \in S}
  <1>1. enabled \in Seq(S) BY PickedIs
  <1>2. Offered(configured) = ps BY Zenon DEF Offered, Where
  <1> HIDE DEF enabled
  <1>3. HasKeys(key, Len(enabled))
    <2>1. \A i \in 1 .. Len(enabled) : key[i] = <<enabled[i].order, enabled[i].id>> BY <1>1
    <2>2. \A i \in 1 .. Len(enabled) : enabled[i] \in S BY <1>1
    <2> HIDE DEF key
    <2> QED BY <2>1, <2>2 DEF HasKeys
  <1> HIDE DEF key
  <1>4. ps \in Seq(S) BY <1>1, <1>3, SortedIs
  <1>5. quotes = [i \in DOMAIN ps |-> QuoteProvider(ps[i], tariffs, ride)] BY <1>2 DEF QuotesFor
  <1> HIDE DEF ps, quotes
  <1>6. Len(ps) \in Nat /\ DOMAIN ps = 1 .. Len(ps) /\ \A i \in 1 .. Len(ps) : ps[i] \in S BY <1>4
  <1>7. quotes \in [1 .. Len(ps) -> Q] BY <1>5, <1>6
  <1>8. quotes \in Seq(Q) /\ Len(quotes) = Len(ps)
    <2> HIDE DEF Q
    <2> QED BY <1>6, <1>7, IsList
  <1>9. ASSUME NEW i \in 1 .. Len(quotes) PROVE quotes[i].price \in Nat \cup {Unpriced}
    <2>1. quotes[i].price = IF ps[i].tariff \in DOMAIN tariffs THEN Estimate(tariffs[ps[i].tariff], ride).amount ELSE Unpriced
      <3>1. quotes[i] = QuoteProvider(ps[i], tariffs, ride) BY <1>5, <1>6, <1>8
      <3> QED BY <3>1 DEF QuoteProvider
    <2>2. ASSUME ps[i].tariff \in DOMAIN tariffs PROVE Estimate(tariffs[ps[i].tariff], ride).amount \in Nat
      <3>1. tariffs[ps[i].tariff] \in Range(tariffs) BY <2>2 DEF Range
      <3>2. TariffSound(tariffs[ps[i].tariff]) BY <3>1
      <3> QED BY <3>2, EstimateIs
    <2> QED BY <2>1, <2>2
  <1>10. PricedRight(quotes) BY <1>9 DEF PricedRight
  <1> QED BY <1>8, <1>10 DEF quotes

-----------------------------------------------------------------------------
(***************************************************************************)
(* The car park: a longer stay is never cheaper.                           *)
(***************************************************************************)
LEMMA TierGrows ==
    ASSUME NEW tier \in RateTier, NEW m \in Nat
    PROVE  TierCost(tier, m) \in Nat /\ TierCost(tier, m + 1) \in Nat /\ TierCost(tier, m) <= TierCost(tier, m + 1)
  <1> DEFINE Span(n) == AtMost(n, tier.to) - tier.from
             unit == IF tier.unit = "session" THEN 1 ELSE MinutesOf(tier.unit)
             whole == 10080 \div unit
             Charge(n) == IF tier.unit = "session" THEN tier.rate ELSE tier.rate * Span(n)
             Capped(n) == tier.maximum # Unpriced /\ tier.maximum * unit < Charge(n)
  <1>1. /\ tier.from \in Nat /\ tier.to \in Nat /\ tier.rate \in Nat /\ tier.maximum \in Nat \cup {Unpriced}
        /\ tier.unit \in {"minute", "hour", "day", "week", "session"}
    BY DEF RateTier
  <1>2. unit \in {1, 60, 1440, 10080}
    <2>1. MinutesOf("minute") = 1 /\ MinutesOf("hour") = 60 /\ MinutesOf("day") = 1440 /\ MinutesOf("week") = 10080
      BY DEF MinutesOf
    <2> QED BY <1>1, <2>1
  <1>3. ASSUME NEW n \in Nat
        PROVE  TierCost(tier, n) = IF Span(n) <= 0 THEN 0 ELSE IF Capped(n) THEN tier.maximum * 10080 ELSE Charge(n) * whole
    <2>1. TierFee(tier, n) = IF Span(n) <= 0 THEN <<0, 1>> ELSE IF Capped(n) THEN <<tier.maximum, 1>> ELSE <<Charge(n), unit>>
      <3>1. (IF tier.unit = "session" THEN <<tier.rate, 1>> ELSE <<tier.rate * Span(n), MinutesOf(tier.unit)>>) = <<Charge(n), unit>>
        OBVIOUS
      <3> HIDE DEF unit, Charge
      <3> QED BY <3>1 DEF TierFee
    <2>2. 10080 \div 1 = 10080 OBVIOUS
    <2> HIDE DEF unit, Charge, Capped, Span
    <2>3. CASE Span(n) <= 0 BY <2>1, <2>2, <2>3 DEF TierCost, Common
    <2>4. CASE ~(Span(n) <= 0) /\ Capped(n) BY <2>1, <2>2, <2>4 DEF TierCost, Common
    <2>5. CASE ~(Span(n) <= 0) /\ ~Capped(n) BY <2>1, <2>5 DEF TierCost, Common
    <2> QED BY <2>3, <2>4, <2>5
  <1>4. ASSUME NEW n \in Nat PROVE Span(n) \in Int /\ Span(n) <= Span(n + 1) BY <1>1 DEF AtMost
  <1>5. Span(m) \in Int /\ Span(m + 1) \in Int /\ Span(m) <= Span(m + 1)
    <2>1. m + 1 \in Nat OBVIOUS
    <2> QED BY <1>4, <2>1
  <1> HIDE DEF Span
  <1>6. PICK a \in Int, b \in Int : a = Span(m) /\ b = Span(m + 1) /\ a <= b BY <1>5
  <1>7. PICK r \in Nat : r = tier.rate BY <1>1
  <1>8. r * a <= r * b /\ r * a \in Int /\ r * b \in Int /\ (a > 0 => r * a >= 0) /\ (b > 0 => r * b >= 0)
    <2>1. r * a <= r * b BY <1>6, Scaled
    <2>2. a > 0 => r * 0 <= r * a BY Scaled
    <2>3. b > 0 => r * 0 <= r * b BY Scaled
    <2> QED BY <2>1, <2>2, <2>3
  <1>9. PICK x \in Int, y \in Int : x = Charge(m) /\ y = Charge(m + 1) /\ x <= y /\ (a > 0 => x >= 0) /\ (b > 0 => y >= 0)
    BY <1>6, <1>7, <1>8
  <1> HIDE DEF Charge
  <1>10. unit * whole = 10080 /\ whole \in {10080, 168, 7, 1}
    <2>1. 10080 \div 1 = 10080 /\ 10080 \div 60 = 168 /\ 10080 \div 1440 = 7 /\ 10080 \div 10080 = 1 OBVIOUS
    <2> HIDE DEF unit
    <2> QED BY <1>2, <2>1
  <1>11. /\ TierCost(tier, m) = IF a <= 0 THEN 0 ELSE IF tier.maximum # Unpriced /\ tier.maximum * unit < x THEN tier.maximum * 10080 ELSE x * whole
         /\ TierCost(tier, m + 1) = IF b <= 0 THEN 0 ELSE IF tier.maximum # Unpriced /\ tier.maximum * unit < y THEN tier.maximum * 10080 ELSE y * whole
    BY <1>3, <1>6, <1>9
  <1> HIDE DEF unit, whole
  <1>12. PICK c \in Nat \cup {-1} : c = tier.maximum BY <1>1 DEF Unpriced
  <1>13. ASSUME NEW u \in {1, 60, 1440, 10080}, NEW k \in {10080, 168, 7, 1}, u * k = 10080, NEW fee, NEW more,
                fee = IF a <= 0 THEN 0 ELSE IF c # -1 /\ c * u < x THEN c * 10080 ELSE x * k,
                more = IF b <= 0 THEN 0 ELSE IF c # -1 /\ c * u < y THEN c * 10080 ELSE y * k
         PROVE  fee \in Nat /\ more \in Nat /\ fee <= more
    <2>1. (u = 1 /\ k = 10080) \/ (u = 60 /\ k = 168) \/ (u = 1440 /\ k = 7) \/ (u = 10080 /\ k = 1) BY <1>13
    <2>2. CASE u = 1 /\ k = 10080 BY <1>6, <1>9, <1>13, <2>2
    <2>3. CASE u = 60 /\ k = 168 BY <1>6, <1>9, <1>13, <2>3
    <2>4. CASE u = 1440 /\ k = 7 BY <1>6, <1>9, <1>13, <2>4
    <2>5. CASE u = 10080 /\ k = 1 BY <1>6, <1>9, <1>13, <2>5
    <2> QED BY <2>1, <2>2, <2>3, <2>4, <2>5
  <1> QED BY <1>2, <1>10, <1>11, <1>12, <1>13 DEF Unpriced

RulesSound(rules) == ListOf(rules) /\ \A r \in Range(rules) : r.tiers \in Seq(RateTier)
LEMMA StayGrows ==
    ASSUME NEW rules, RulesSound(rules), NEW m \in Nat
    PROVE  /\ ParkingFee(rules, m) \in Nat \cup {Unpriced}
           /\ ParkingFee(rules, m) # Unpriced => ParkingFee(rules, m) <= ParkingFee(rules, m + 1)
  <1> DEFINE on == {i \in DOMAIN rules : rules[i].activity = "parking" /\ rules[i].tiers # <<>>}
             priced == ParkingRules(rules)
             rates == priced[1].tiers
             key == [i \in DOMAIN rates |-> <<rates[i].from, 0>>]
             tiers == InTurn(rates)
             costs(n) == [i \in DOMAIN tiers |-> TierCost(tiers[i], n)]
  <1>1. priced = Picked(rules, on) BY Zenon DEF ParkingRules, Where
  <1> HIDE DEF on
  <1>2. priced \in Seq(Range(rules)) BY <1>1, PickedIs DEF RulesSound, ListOf
  <1> HIDE DEF priced
  <1>3. CASE priced = <<>>
    <2>1. ParkingFee(rules, m) = Unpriced BY <1>3, Zenon DEF ParkingFee, priced
    <2> QED BY <2>1
  <1>4. CASE priced # <<>>
    <2>1. rates \in Seq(RateTier)
      <3>1. Len(priced) \in Nat /\ Len(priced) # 0 BY <1>2, <1>4
      <3>2. 1 \in 1 .. Len(priced) BY <3>1
      <3>3. priced[1] \in Range(rules) BY <1>2, <3>2
      <3> QED BY <3>3 DEF RulesSound
    <2> HIDE DEF rates
    <2>2. HasKeys(key, Len(rates))
      <3>1. \A i \in 1 .. Len(rates) : key[i] = <<rates[i].from, 0>> BY <2>1
      <3>2. ASSUME NEW i \in 1 .. Len(rates) PROVE rates[i].from \in Int
        <4>1. rates[i] \in RateTier BY <2>1
        <4> QED BY <4>1 DEF RateTier
      <3> HIDE DEF key
      <3> QED BY <3>1, <3>2 DEF HasKeys
    <2>3. tiers \in Seq(RateTier)
      <3>1. tiers = SortedBy(rates, key) BY Zenon DEF InTurn
      <3> HIDE DEF key, tiers
      <3> QED BY <2>1, <2>2, <3>1, SortedIs
    <2>4. ASSUME NEW n \in Nat PROVE ParkingFee(rules, n) = Rounded(SumOf(costs(n)), Common, 1)
      <3>1. ParkingFee(rules, n) = StayFee(tiers, n)
        <4> HIDE DEF tiers
        <4> QED BY <1>4, Zenon DEF ParkingFee, priced, rates, tiers
      <3>2. StayFee(tiers, n) = Rounded(SumOf(costs(n)), Common, 1)
        <4> HIDE DEF tiers
        <4> QED BY Zenon DEF StayFee
      <3> QED BY <3>1, <3>2
    <2> HIDE DEF tiers
    <2>5. PICK k \in Nat : k = Len(tiers) /\ DOMAIN tiers = 1 .. k /\ \A i \in 1 .. k : tiers[i] \in RateTier BY <2>3
    <2>6. \A i \in 1 .. k : TierCost(tiers[i], m) \in Nat /\ TierCost(tiers[i], m + 1) \in Nat /\ TierCost(tiers[i], m) <= TierCost(tiers[i], m + 1)
      BY <2>5, TierGrows
    <2>7. costs(m) \in [1 .. k -> Nat] /\ costs(m + 1) \in [1 .. k -> Nat] BY <2>5, <2>6
    <2>8. \A i \in 1 .. k : costs(m)[i] <= costs(m + 1)[i] BY <2>5, <2>6
    <2> HIDE DEF costs
    <2>9. costs(m) \in Seq(Nat) /\ Len(costs(m)) = k /\ costs(m + 1) \in Seq(Nat) /\ Len(costs(m + 1)) = k
      BY <2>7, IsList
    <2>10. SumOf(costs(m)) \in Nat /\ SumOf(costs(m + 1)) \in Nat /\ SumOf(costs(m)) <= SumOf(costs(m + 1))
      BY <2>8, <2>9, SumGrows, SumsUp
    <2>11. Common \in Nat \ {0} /\ 1 \in Nat \ {0} BY DEF Common
    <2>12. Rounded(SumOf(costs(m)), Common, 1) \in Nat BY <2>10, <2>11, RoundedNat
    <2>13. Rounded(SumOf(costs(m)), Common, 1) <= Rounded(SumOf(costs(m + 1)), Common, 1)
      <3>1. SumOf(costs(m)) \in Int /\ SumOf(costs(m + 1)) \in Int BY <2>10
      <3> QED BY <2>10, <2>11, <3>1, RoundedGrows
    <2>14. m + 1 \in Nat OBVIOUS
    <2> QED BY <2>4, <2>12, <2>13, <2>14
  <1> QED BY <1>3, <1>4

-----------------------------------------------------------------------------
(***************************************************************************)
(* The city's fare.  The loop over the boardings knows the last base fare. *)
(***************************************************************************)
\* b is the last base fare of those charged up to i.
LastBase(charged, b, i) ==
    b \in 1 .. i /\ charged[b] = "base" /\ \A c \in b + 1 .. i : charged[c] # "base"
Due(fares, starts, charged, i, b) ==
    charged[i] = "transfer" <=> starts[i] - starts[b] <= fares.window /\ i - b <= fares.maxTransfers
\* What is known once the i-th boarding is charged.
Charged(fares, starts, lines, since, used, i) ==
    /\ lines \in Seq({"base", "transfer"}) /\ Len(lines) = i
    /\ i = 0 => since = NoWindow
    /\ i # 0 => /\ lines[1] = "base"
                /\ \E b \in 1 .. i : LastBase(lines, b, i) /\ since = starts[b] /\ used = i - b
    /\ \A j \in 2 .. i : \E b \in 1 .. j - 1 : LastBase(lines, b, j - 1) /\ Due(fares, starts, lines, j, b)
Passenger(fares, starts, acc, i) ==
    /\ acc = [since |-> acc.since, used |-> acc.used, lines |-> acc.lines]
    /\ Charged(fares, starts, acc.lines, acc.since, acc.used, i)

LEMMA LastBaseKept ==
    ASSUME NEW s \in Seq({"base", "transfer"}), NEW x \in {"base", "transfer"}, NEW i \in 0 .. Len(s), NEW b, LastBase(s, b, i)
    PROVE  LastBase(Append(s, x), b, i)
  <1>1. \A j \in 1 .. Len(s) : Append(s, x)[j] = s[j] BY AppendProperties
  <1>2. b \in 1 .. i /\ i \in Nat /\ i <= Len(s) BY DEF LastBase
  <1>3. \A c \in b .. i : Append(s, x)[c] = s[c]
    <2>1. \A c \in b .. i : c \in 1 .. Len(s) BY <1>2
    <2> QED BY <1>1, <2>1
  <1>4. \A c \in b + 1 .. i : c \in b .. i BY <1>2
  <1>5. b \in b .. i BY <1>2
  <1> QED BY <1>3, <1>4, <1>5 DEF LastBase

LEMMA BoardKeeps ==
    ASSUME NEW fares \in CityFare, NEW starts \in Seq(Nat), NEW i \in Nat, i + 1 <= Len(starts),
           NEW acc, Passenger(fares, starts, acc, i)
    PROVE  Passenger(fares, starts, Board(fares, acc, starts[i + 1]), i + 1)
  <1> DEFINE start == starts[i + 1]
             inside == /\ acc.since # NoWindow
                       /\ start - acc.since <= fares.window
                       /\ acc.used < fares.maxTransfers
             next == Board(fares, acc, start)
             x == IF inside THEN "transfer" ELSE "base"
  <1>0. /\ acc = [since |-> acc.since, used |-> acc.used, lines |-> acc.lines]
        /\ Charged(fares, starts, acc.lines, acc.since, acc.used, i)
    BY DEF Passenger
  <1>1. i + 1 \in 1 .. Len(starts) /\ start \in Nat /\ fares.window \in Nat /\ fares.maxTransfers \in Nat BY DEF CityFare
  <1>2. /\ next.lines = Append(acc.lines, x)
        /\ next.since = (IF inside THEN acc.since ELSE start)
        /\ next.used = (IF inside THEN acc.used + 1 ELSE 0)
        /\ next = [since |-> next.since, used |-> next.used, lines |-> next.lines]
    <2>1. CASE inside
      <3>1. next = [acc EXCEPT !.used = @ + 1, !.lines = Append(@, "transfer")] BY <2>1 DEF Board
      <3>2. next = [since |-> acc.since, used |-> acc.used + 1, lines |-> Append(acc.lines, "transfer")] BY <1>0, <3>1
      <3> HIDE DEF next, inside
      <3> QED BY <2>1, <3>2
    <2>2. CASE ~inside
      <3>1. next = [since |-> start, used |-> 0, lines |-> Append(acc.lines, "base")] BY <2>2 DEF Board
      <3> HIDE DEF next, inside
      <3> QED BY <2>2, <3>1
    <2> QED BY <2>1, <2>2
  <1> HIDE DEF next
  <1> DEFINE old == acc.lines
             new == Append(acc.lines, x)
  <1>3. old \in Seq({"base", "transfer"}) /\ Len(old) = i /\ x \in {"base", "transfer"} BY <1>0 DEF Charged
  <1> HIDE DEF x
  <1>4. new \in Seq({"base", "transfer"}) /\ Len(new) = i + 1 /\ new[i + 1] = x /\ \A j \in 1 .. i : new[j] = old[j]
    BY <1>3, AppendProperties
  <1>5. \A j \in 0 .. i : \A b : LastBase(old, b, j) => LastBase(new, b, j) BY <1>3, LastBaseKept
  <1> HIDE DEF new
  <1>6. CASE i = 0
    <2>1. x = "base" BY <1>0, <1>6 DEF Charged, x
    <2>2. ~inside BY <1>0, <1>6 DEF Charged
    <2>3. new[1] = "base" /\ 1 \in 1 .. i + 1 BY <1>4, <1>6, <2>1
    <2>4. LastBase(new, 1, i + 1) BY <1>6, <2>3 DEF LastBase
    <2>5. next.since = starts[1] /\ next.used = (i + 1) - 1 BY <1>2, <1>6, <2>2
    <2>6. 2 .. i + 1 = {} BY <1>6
    <2>7. Charged(fares, starts, new, next.since, next.used, i + 1)
      <3>1. i + 1 # 0 BY <1>6
      <3>2. \E b \in 1 .. i + 1 : LastBase(new, b, i + 1) /\ next.since = starts[b] /\ next.used = (i + 1) - b
        BY <2>3, <2>4, <2>5
      <3>3. \A j \in 2 .. i + 1 : FALSE BY <2>6
      <3> HIDE DEF inside, start
      <3> QED BY <1>4, <2>3, <3>1, <3>2, <3>3, Zenon DEF Charged
    <2> QED BY <1>2, <2>7 DEF Passenger, next, new
  <1>7. CASE i > 0
    <2>1. PICK b \in 1 .. i : LastBase(old, b, i) /\ acc.since = starts[b] /\ acc.used = i - b BY <1>0, <1>7 DEF Charged
    <2>2. old[1] = "base" /\ new[1] = "base"
      <3>1. 1 \in 1 .. i /\ i # 0 BY <1>7
      <3>2. old[1] = "base" BY <1>0, <3>1, Zenon DEF Charged
      <3> QED BY <1>4, <3>1, <3>2
    <2>3. starts[b] \in Nat
      <3>1. b \in 1 .. Len(starts) BY <1>1
      <3> QED BY <3>1
    <2>4. inside <=> start - starts[b] <= fares.window /\ (i + 1) - b <= fares.maxTransfers
      <3>1. acc.since # NoWindow BY <2>1, <2>3 DEF NoWindow
      <3>2. acc.used < fares.maxTransfers <=> (i + 1) - b <= fares.maxTransfers BY <1>1, <2>1
      <3> QED BY <2>1, <3>1, <3>2
    <2>5. LastBase(new, b, i)
      <3>1. i \in 0 .. i OBVIOUS
      <3> QED BY <1>5, <2>1, <3>1
    <2>6. Due(fares, starts, new, i + 1, b)
      <3>1. new[i + 1] = "transfer" <=> inside BY <1>4 DEF x
      <3> HIDE DEF inside
      <3> QED BY <2>4, <3>1 DEF Due
    <2>7. ASSUME NEW j \in 2 .. i + 1 PROVE \E c \in 1 .. j - 1 : LastBase(new, c, j - 1) /\ Due(fares, starts, new, j, c)
      <3>1. CASE j = i + 1 BY <2>5, <2>6, <3>1
      <3>2. CASE j # i + 1
        <4>1. j \in 2 .. i /\ j \in 1 .. i /\ j - 1 \in 0 .. i BY <3>2
        <4>2. PICK c \in 1 .. j - 1 : LastBase(old, c, j - 1) /\ Due(fares, starts, old, j, c) BY <1>0, <4>1 DEF Charged
        <4>3. LastBase(new, c, j - 1) BY <1>5, <4>1, <4>2
        <4>4. Due(fares, starts, new, j, c) BY <1>4, <4>1, <4>2 DEF Due
        <4> QED BY <4>3, <4>4
      <3> QED BY <3>1, <3>2
    <2>8. \E c \in 1 .. i + 1 : LastBase(new, c, i + 1) /\ next.since = starts[c] /\ next.used = (i + 1) - c
      <3>1. CASE inside
        <4>1. new[i + 1] # "base" BY <1>4, <3>1 DEF x
        <4>2. b \in 1 .. i + 1 /\ \A c \in b + 1 .. i + 1 : c = i + 1 \/ c \in b + 1 .. i OBVIOUS
        <4>3. LastBase(new, b, i + 1) BY <2>5, <4>1, <4>2 DEF LastBase
        <4>4. next.since = starts[b] /\ next.used = (i + 1) - b BY <1>2, <2>1, <3>1
        <4> QED BY <4>2, <4>3, <4>4
      <3>2. CASE ~inside
        <4>1. new[i + 1] = "base" BY <1>4, <3>2 DEF x
        <4>2. i + 1 \in 1 .. i + 1 /\ (i + 1) + 1 .. i + 1 = {} BY <1>7
        <4>3. LastBase(new, i + 1, i + 1) BY <4>1, <4>2 DEF LastBase
        <4>4. next.since = starts[i + 1] /\ next.used = (i + 1) - (i + 1) BY <1>2, <3>2
        <4> QED BY <4>2, <4>3, <4>4
      <3> QED BY <3>1, <3>2
    <2>9. Charged(fares, starts, new, next.since, next.used, i + 1)
      <3>1. i + 1 # 0 BY <1>7
      <3> HIDE DEF inside, start
      <3> QED BY <1>4, <2>2, <2>7, <2>8, <3>1, Zenon DEF Charged
    <2> QED BY <1>2, <2>9 DEF Passenger, next, new
  <1> QED BY <1>6, <1>7

LEMMA LastBaseIs ==
    ASSUME NEW charged, NEW i \in Nat, NEW b, LastBase(charged, b, i)
    PROVE  BaseBefore(charged, i) = b
  <1> DEFINE S == {c \in 1 .. i : charged[c] = "base"}
  <1>1. b \in S /\ \A c \in S : c <= b
    <2>1. b \in 1 .. i /\ charged[b] = "base" BY DEF LastBase
    <2>2. ASSUME NEW c \in S PROVE c <= b
      <3>1. c \notin b + 1 .. i BY <2>2 DEF LastBase
      <3> QED BY <2>1, <3>1
    <2> QED BY <2>1, <2>2
  <1>2. BaseBefore(charged, i) = Max(S) BY DEF BaseBefore
  <1>3. S \subseteq Nat OBVIOUS
  <1> HIDE DEF S
  <1>4. \A c \in S : (\A x \in S : c >= x) => c = b BY <1>1, <1>3
  <1>5. \A x \in S : b >= x BY <1>1, <1>3
  <1> QED BY <1>1, <1>2, <1>4, <1>5 DEF Max

LEMMA BoardingsAre ==
    ASSUME NEW q, NEW f \in CityFare, q.fares = <<f>>, q.starts \in Seq(Nat)
    PROVE  BoardingsAgree(q) /\ Boardings(f, q.starts) \in Seq({"base", "transfer"})
  <1> DEFINE starts == q.starts
             n == Len(starts)
             nobody == [since |-> NoWindow, used |-> 0, lines |-> <<>>]
             Ok(a) == a = [i \in 0 .. n |-> IF i = 0 THEN nobody ELSE Board(f, a[i - 1], starts[i])]
             T == [since : Int, used : Int, lines : Seq({"base", "transfer"})]
             g == [i \in 1 .. n |-> [acc \in T |-> Board(f, acc, starts[i])]]
  <1>0. f.window \in Nat /\ f.maxTransfers \in Nat BY DEF CityFare
  <1>1. n \in Nat /\ \A i \in 1 .. n : starts[i] \in Nat OBVIOUS
  <1>2. nobody \in T BY DEF NoWindow
  <1>3. g \in [1 .. n -> [T -> T]]
    <2> SUFFICES ASSUME NEW i \in 1 .. n, NEW acc \in T PROVE Board(f, acc, starts[i]) \in T OBVIOUS
    <2> DEFINE start == starts[i]
    <2>1. start \in Nat BY <1>1
    <2> HIDE DEF start
    <2>2. Append(acc.lines, "transfer") \in Seq({"base", "transfer"}) /\ Append(acc.lines, "base") \in Seq({"base", "transfer"})
      OBVIOUS
    <2>3. acc = [since |-> acc.since, used |-> acc.used, lines |-> acc.lines] OBVIOUS
    <2>4. [since |-> start, used |-> 0, lines |-> Append(acc.lines, "base")] \in T BY <2>1, <2>2
    <2>5. [acc EXCEPT !.used = @ + 1, !.lines = Append(@, "transfer")] \in T
      <3>1. acc.used + 1 \in Int OBVIOUS
      <3>2. [acc EXCEPT !.used = @ + 1, !.lines = Append(@, "transfer")]
              = [since |-> acc.since, used |-> acc.used + 1, lines |-> Append(acc.lines, "transfer")]
        <4> HIDE DEF T
        <4> SUFFICES ASSUME NEW x, x = [acc EXCEPT !.used = @ + 1, !.lines = Append(@, "transfer")]
                     PROVE  x = [since |-> acc.since, used |-> acc.used + 1, lines |-> Append(acc.lines, "transfer")]
          OBVIOUS
        <4> QED BY <2>3
      <3> QED BY <2>2, <3>1, <3>2
    <2> HIDE DEF T
    <2>6. Board(f, acc, start) \in T BY <2>4, <2>5 DEF Board
    <2> QED BY <2>6 DEF start
  <1>4. \E a : Ok(a)
    <2>1. PICK a \in [0 .. n -> T] : IsLoop(a, nobody, g, n)
      <3> HIDE DEF g, n, T, nobody
      <3> QED BY <1>1, <1>2, <1>3, LoopExists
    <2>2. ASSUME NEW i \in 0 .. n, i # 0 PROVE g[i][a[i - 1]] = Board(f, a[i - 1], starts[i])
      <3>1. i \in 1 .. n /\ i - 1 \in 0 .. n BY <1>1, <2>2
      <3>2. a[i - 1] \in T
        <4> HIDE DEF T, n
        <4> QED BY <3>1
      <3> HIDE DEF T, n
      <3> QED BY <3>1, <3>2
    <2> HIDE DEF g, nobody
    <2>3. [i \in 0 .. n |-> IF i = 0 THEN nobody ELSE g[i][a[i - 1]]]
            = [i \in 0 .. n |-> IF i = 0 THEN nobody ELSE Board(f, a[i - 1], starts[i])]
      BY <2>2
    <2> QED BY <2>1, <2>3 DEF IsLoop
  <1> DEFINE a == CHOOSE x : Ok(x)
  <1>5. Boardings(f, starts) = a[n].lines BY DEF Boardings
  <1>6. Ok(a) BY <1>4, Zenon
  <1> HIDE DEF a
  <1>7. a[0] = nobody /\ \A i \in 1 .. n : a[i] = Board(f, a[i - 1], starts[i])
    <2> HIDE DEF nobody
    <2>1. a = [i \in 0 .. n |-> IF i = 0 THEN nobody ELSE Board(f, a[i - 1], starts[i])] BY <1>6
    <2> HIDE DEF n
    <2>2. 0 \in 0 .. n /\ \A i \in 1 .. n : i \in 0 .. n /\ i # 0 BY <1>1
    <2> QED BY <2>1, <2>2
  <1> DEFINE Q == {m \in Nat : m <= n => Passenger(f, starts, a[m], m)}
  <1>8. 0 \in Q
    <2>1. nobody = [since |-> nobody.since, used |-> nobody.used, lines |-> nobody.lines] OBVIOUS
    <2>2. nobody.since = NoWindow /\ nobody.lines = <<>> OBVIOUS
    <2>3. 2 .. 0 = {} /\ <<>> \in Seq({"base", "transfer"}) /\ Len(<<>>) = 0 OBVIOUS
    <2> HIDE DEF nobody
    <2>4. Charged(f, starts, nobody.lines, nobody.since, nobody.used, 0) BY <2>2, <2>3 DEF Charged
    <2> QED BY <1>7, <2>1, <2>4 DEF Passenger
  <1>9. ASSUME NEW m \in Nat, m \in Q PROVE m + 1 \in Q
    <2> SUFFICES ASSUME m + 1 <= n PROVE Passenger(f, starts, a[m + 1], m + 1) OBVIOUS
    <2>1. m + 1 \in 1 .. n /\ (m + 1) - 1 = m /\ Passenger(f, starts, a[m], m) BY <1>1, <1>9
    <2>2. a[m + 1] = Board(f, a[m], starts[m + 1]) BY <1>7, <2>1
    <2> QED BY <2>1, <2>2, BoardKeeps
  <1> HIDE DEF Q
  <1>10. n \in Q BY <1>1, <1>8, <1>9, Induction
  <1> DEFINE charged == a[n].lines
  <1>11. Charged(f, starts, charged, a[n].since, a[n].used, n)
    <2>1. n <= n BY <1>1
    <2> QED BY <1>10, <2>1 DEF Q, Passenger
  <1> HIDE DEF charged
  <1>12. charged \in Seq({"base", "transfer"}) /\ Len(charged) = n BY <1>11, Zenon DEF Charged
  <1>13. n # 0 => charged[1] = "base" BY <1>11, Zenon DEF Charged
  <1>14. ASSUME NEW i \in 2 .. Len(charged)
         PROVE  LET b == BaseBefore(charged, i - 1)
                IN  charged[i] = "transfer" <=> /\ starts[i] - starts[b] <= f.window
                                                /\ i - b <= f.maxTransfers
    <2>1. i \in 2 .. n BY <1>12
    <2>2. PICK b \in 1 .. i - 1 : LastBase(charged, b, i - 1) /\ Due(f, starts, charged, i, b)
      <3> HIDE DEF n
      <3> QED BY <1>11, <2>1, Zenon DEF Charged
    <2>3. i - 1 \in Nat OBVIOUS
    <2>4. BaseBefore(charged, i - 1) = b BY <2>2, <2>3, LastBaseIs
    <2> QED BY <2>2, <2>4 DEF Due
  <1>15. q.fares[1] = f OBVIOUS
  <1>16. charged # <<>> => n # 0 BY <1>12
  <1>17. Boardings(q.fares[1], q.starts) = charged BY <1>5, <1>15 DEF charged
  <1>18. BoardingsAgree(q)
    <2> HIDE DEF Ok, T, g
    <2> QED BY <1>12, <1>13, <1>14, <1>15, <1>16, <1>17, Zenon DEF BoardingsAgree
  <1> QED BY <1>12, <1>15, <1>17, <1>18

-----------------------------------------------------------------------------
(***************************************************************************)
(* The lines of the fare, and its note.                                    *)
(***************************************************************************)
LEMMA PickedShorter ==
    ASSUME NEW S, NEW s \in Seq(S), NEW on, NEW i \in 1 .. Len(s), i \notin on
    PROVE  Len(Picked(s, on)) < Len(s)
  <1>1. PICK r \in Seq(S) : r = Picked(s, on) BY PickedIs
  <1>2. PICK h : Traces(h, r, s, on, Len(s)) BY <1>1, PickedIs
  <1>3. PICK n \in Nat, m \in Nat : n = Len(r) /\ m = Len(s) OBVIOUS
  <1>4. /\ h \in [1 .. n -> (1 .. m) \ {i}]
        /\ \A k, l \in 1 .. n : k < l => h[k] < h[l]
    BY <1>2, <1>3 DEF Traces
  <1>5. \A k, l \in 1 .. n : h[k] = h[l] => k = l
    <2> SUFFICES ASSUME NEW k \in 1 .. n, NEW l \in 1 .. n, h[k] = h[l] PROVE k = l OBVIOUS
    <2>1. h[k] \in 1 .. m BY <1>4
    <2>2. ~(k < l) /\ ~(l < k) BY <1>4, <2>1
    <2> QED BY <2>2
  <1>6. h \in Injection(1 .. n, (1 .. m) \ {i}) BY <1>4, <1>5 DEF Injection, IsInjective
  <1>7. 1 \in Int /\ n \in Int /\ m \in Int BY <1>3
  <1>8. /\ IsFiniteSet(1 .. m)
        /\ Cardinality(1 .. m) = (IF 1 > m THEN 0 ELSE m - 1 + 1)
        /\ Cardinality(1 .. n) = (IF 1 > n THEN 0 ELSE n - 1 + 1)
    BY <1>7, FS_Interval
  <1>9. i \in 1 .. m BY <1>3
  <1>10. IsFiniteSet((1 .. m) \ {i}) /\ Cardinality((1 .. m) \ {i}) = Cardinality(1 .. m) - 1
    BY <1>8, <1>9, FS_RemoveElement
  <1>11. Cardinality(1 .. n) <= Cardinality((1 .. m) \ {i}) BY <1>6, <1>10, FS_Injection
  <1>12. n < m BY <1>3, <1>8, <1>9, <1>10, <1>11
  <1> QED BY <1>1, <1>3, <1>12

Bill == {Line(kind, amount) : kind \in {"transit", "rental", "ondemand", "parking"}, amount \in Int}
TransitFirst(lines, n) == n \in 0 .. Len(lines) /\ \A i \in 1 .. Len(lines) : lines[i].kind = "transit" <=> i <= n
LEMMA MoreLines ==
    ASSUME NEW s \in Seq(Bill), NEW n, TransitFirst(s, n), NEW t \in Seq(Bill), \A i \in 1 .. Len(t) : t[i].kind # "transit"
    PROVE  s \o t \in Seq(Bill) /\ TransitFirst(s \o t, n)
  <1>1. PICK l \in Nat, k \in Nat : l = Len(s) /\ k = Len(t) OBVIOUS
  <1> DEFINE x == s \o t
  <1>2. /\ x \in Seq(Bill) /\ Len(x) = l + k
        /\ \A i \in 1 .. l + k : x[i] = IF i <= l THEN s[i] ELSE t[i - l]
    BY <1>1, ConcatProperties
  <1> HIDE DEF x
  <1>3. n \in 0 .. l /\ \A i \in 1 .. l : s[i].kind = "transit" <=> i <= n BY <1>1 DEF TransitFirst
  <1>4. ASSUME NEW i \in 1 .. l + k PROVE x[i].kind = "transit" <=> i <= n
    <2>1. CASE i <= l
      <3>1. i \in 1 .. l BY <2>1
      <3> QED BY <1>2, <1>3, <2>1, <3>1
    <2>2. CASE ~(i <= l)
      <3>1. i - l \in 1 .. k BY <1>1, <2>2
      <3>2. x[i] = t[i - l] BY <1>2, <2>2
      <3>3. ~(i <= n) BY <1>3, <2>2
      <3> QED BY <1>1, <3>1, <3>2, <3>3
    <2> QED BY <2>1, <2>2
  <1>5. TransitFirst(x, n) BY <1>2, <1>3, <1>4 DEF TransitFirst
  <1> QED BY <1>2, <1>5 DEF x

LEMMA LineIs ==
    ASSUME NEW kind \in {"transit", "rental", "ondemand", "parking"}, NEW amount \in Int
    PROVE  Line(kind, amount) \in Bill /\ Line(kind, amount).kind = kind
  BY DEF Line, Bill

RentalsSound(rentals) == ListOf(rentals) /\ \A r \in Range(rentals) : r.price \in Int /\ r.perMinute \in BOOLEAN

LEMMA HiredIn ==
    ASSUME NEW rentals, RentalsSound(rentals)
    PROVE  ChargedRentals(rentals) \in Seq(Range(rentals))
  <1> DEFINE on == {i \in DOMAIN rentals : rentals[i].price # Unpriced /\ rentals[i].price # 0}
             priced == Where(rentals, LAMBDA r : r.price # Unpriced /\ r.price # 0)
             first == {i \in DOMAIN priced : priced[i].perMinute \/ \A j \in 1 .. (i - 1) : priced[j].network # priced[i].network}
  <1>1. priced = Picked(rentals, on) BY Zenon DEF Where
  <1>2. priced \in Seq(Range(rentals)) BY <1>1, PickedIs DEF RentalsSound, ListOf
  <1>3. ChargedRentals(rentals) = Picked(priced, first) BY Zenon DEF ChargedRentals
  <1> HIDE DEF priced, first
  <1> QED BY <1>2, <1>3, PickedIs

\* Every boarding has a line, before all the others; the note is there for what has no price.
FareFits(fare, fares, starts) ==
    /\ fares # <<>> => {i \in DOMAIN fare.lines : fare.lines[i].kind = "transit"} = 1 .. Len(starts)
    /\ fare.note <=> \E i \in DOMAIN fare.lines : fare.lines[i].amount = Unpriced

LEMMA FareIs ==
    ASSUME NEW fares, fares = <<>> \/ \E f \in CityFare : fares = <<f>>, NEW starts \in Seq(Nat),
           NEW charged, fares # <<>> => charged = Boardings(fares[1], starts) /\ charged \in Seq({"base", "transfer"})
                                        /\ Len(charged) = Len(starts),
           NEW rentals, RentalsSound(rentals),
           NEW S, NEW quotes \in Seq(S), PricedRight(quotes), NEW parking \in Nat \cup {Unpriced}
    PROVE  FareFits(EstimateFare(fares, starts, rentals, <<quotes>>, parking), fares, starts)
  <1> DEFINE boarded == IF fares = <<>> THEN <<>> ELSE Boardings(fares[1], starts)
             hired   == ChargedRentals(rentals)
             offered == Where(<<quotes>>, LAMBDA x : x # <<>>)
             parked  == IF parking = Unpriced THEN <<>> ELSE <<Line("parking", parking)>>
             carried == [i \in DOMAIN boarded |-> Line("transit", IF boarded[i] = "base" THEN fares[1].base ELSE fares[1].transfer)]
             rented  == [i \in DOMAIN hired |-> Line("rental", hired[i].price)]
             taken   == [i \in DOMAIN offered |-> Line("ondemand", offered[i][Recommended(offered[i])].price)]
             lines   == carried \o rented \o taken \o parked
             paid    == Where(lines, LAMBDA l : l.amount # Unpriced)
             fare    == EstimateFare(fares, starts, rentals, <<quotes>>, parking)
  <1>1. fare.lines = lines /\ fare.note = (Len(paid) < Len(lines))
    <2>1. <<quotes>> # <<>> OBVIOUS
    <2>2. fare = [amount |-> SumOf([i \in DOMAIN paid |-> paid[i].amount]), lines |-> lines, note |-> Len(paid) < Len(lines)]
      BY <2>1, Zenon DEF EstimateFare
    <2> HIDE DEF lines, paid, fare
    <2> QED BY <2>2
  <1>2. carried \in Seq(Bill) /\ Len(carried) = Len(boarded) /\ \A i \in 1 .. Len(boarded) : carried[i].kind = "transit"
    <2>1. CASE fares = <<>>
      <3>1. boarded = <<>> BY <2>1
      <3> HIDE DEF boarded
      <3>2. carried = <<>> /\ Len(boarded) = 0 BY <3>1
      <3> QED BY <3>1, <3>2
    <2>2. CASE fares # <<>>
      <3>1. boarded = charged /\ charged \in Seq({"base", "transfer"}) BY <2>2
      <3>2. fares[1] \in CityFare BY <2>2
      <3>3. fares[1].base \in Int /\ fares[1].transfer \in Int BY <3>2 DEF CityFare
      <3> HIDE DEF boarded
      <3>4. PICK n \in Nat : n = Len(boarded) /\ DOMAIN boarded = 1 .. n BY <3>1
      <3>5. \A i \in 1 .. n : carried[i] \in Bill /\ carried[i].kind = "transit"
        <4>1. \A i \in 1 .. n : carried[i] = Line("transit", IF boarded[i] = "base" THEN fares[1].base ELSE fares[1].transfer)
          BY <3>4
        <4> HIDE DEF carried
        <4> QED BY <3>3, <4>1, LineIs
      <3>6. carried = [i \in 1 .. n |-> carried[i]] BY <3>4
      <3> HIDE DEF carried, Bill
      <3>7. carried \in Seq(Bill) /\ Len(carried) = n BY <3>5, <3>6, IsList
      <3> QED BY <3>4, <3>5, <3>7
    <2> QED BY <2>1, <2>2
  <1>3. fares # <<>> => Len(boarded) = Len(starts) OBVIOUS
  <1> HIDE DEF boarded, carried
  <1>4. rented \in Seq(Bill) /\ \A i \in 1 .. Len(rented) : rented[i].kind # "transit"
    <2>1. hired \in Seq(Range(rentals)) BY HiredIn
    <2> HIDE DEF hired
    <2>2. PICK n \in Nat : n = Len(hired) /\ DOMAIN hired = 1 .. n BY <2>1
    <2>3. \A i \in 1 .. n : hired[i].price \in Int BY <2>1, <2>2 DEF RentalsSound
    <2>4. \A i \in 1 .. n : rented[i] \in Bill /\ rented[i].kind = "rental"
      <3>1. \A i \in 1 .. n : rented[i] = Line("rental", hired[i].price) BY <2>2
      <3> HIDE DEF rented
      <3> QED BY <2>3, <3>1, LineIs
    <2>5. rented = [i \in 1 .. n |-> rented[i]] BY <2>2
    <2> HIDE DEF rented
    <2>6. rented \in Seq(Bill) /\ Len(rented) = n BY <2>4, <2>5, IsList
    <2> QED BY <2>4, <2>6
  <1>5. taken \in Seq(Bill) /\ \A i \in 1 .. Len(taken) : taken[i].kind # "transit"
    <2> DEFINE on == {i \in DOMAIN <<quotes>> : <<quotes>>[i] # <<>>}
    <2>1. offered = Picked(<<quotes>>, on) BY Zenon DEF Where
    <2>2. <<quotes>> \in Seq({quotes}) /\ \A i \in on : <<quotes>>[i] = quotes /\ quotes # <<>> OBVIOUS
    <2> HIDE DEF on
    <2>3. offered \in Seq({quotes}) BY <2>1, <2>2, PickedIs
    <2>4. PICK h : Traces(h, offered, <<quotes>>, on, Len(<<quotes>>)) BY <2>1, <2>2, PickedIs
    <2> HIDE DEF offered
    <2>5. PICK n \in Nat : n = Len(offered) /\ DOMAIN offered = 1 .. n BY <2>3
    <2>6. ASSUME NEW i \in 1 .. n PROVE offered[i][Recommended(offered[i])].price \in Int
      <3>1. offered[i] = quotes BY <2>3, <2>5
      <3>2. quotes # <<>>
        <4>1. h[i] \in on BY <2>4, <2>5 DEF Traces
        <4> QED BY <2>2, <4>1
      <3>3. Recommended(quotes) \in 1 .. Len(quotes) BY <3>2, CheapestIs
      <3> QED BY <3>1, <3>3 DEF PricedRight, Unpriced
    <2>7. \A i \in 1 .. n : taken[i] \in Bill /\ taken[i].kind = "ondemand"
      <3>1. \A i \in 1 .. n : taken[i] = Line("ondemand", offered[i][Recommended(offered[i])].price) BY <2>5
      <3> HIDE DEF taken
      <3> QED BY <2>6, <3>1, LineIs
    <2>8. taken = [i \in 1 .. n |-> taken[i]] BY <2>5
    <2> HIDE DEF taken
    <2>9. taken \in Seq(Bill) /\ Len(taken) = n BY <2>7, <2>8, IsList
    <2> QED BY <2>7, <2>9
  <1>6. parked \in Seq(Bill) /\ \A i \in 1 .. Len(parked) : parked[i].kind # "transit"
    <2>1. CASE parking = Unpriced BY <2>1
    <2>2. CASE parking # Unpriced
      <3>1. Line("parking", parking) \in Bill BY <2>2 DEF Bill
      <3>2. Line("parking", parking).kind = "parking" BY Zenon DEF Line
      <3>3. parked = <<Line("parking", parking)>> BY <2>2
      <3> HIDE DEF parked
      <3>4. parked \in Seq(Bill) /\ Len(parked) = 1 /\ parked[1] = Line("parking", parking) BY <3>1, <3>3
      <3> QED BY <3>2, <3>4
    <2> QED BY <2>1, <2>2
  <1> HIDE DEF rented, taken, parked
  <1> DEFINE n == Len(boarded)
  <1>7. TransitFirst(carried, n)
    <2>1. n = Len(carried) /\ n \in Nat BY <1>2
    <2> QED BY <1>2, <2>1 DEF TransitFirst
  <1> HIDE DEF n
  <1>8. carried \o rented \in Seq(Bill) /\ TransitFirst(carried \o rented, n) BY <1>2, <1>4, <1>7, MoreLines
  <1>9. carried \o rented \o taken \in Seq(Bill) /\ TransitFirst(carried \o rented \o taken, n) BY <1>5, <1>8, MoreLines
  <1>10. lines \in Seq(Bill) /\ TransitFirst(lines, n) BY <1>6, <1>9, MoreLines
  <1> DEFINE on == {i \in DOMAIN lines : lines[i].amount # Unpriced}
  <1>11. paid = Picked(lines, on) BY Zenon DEF Where
  <1> HIDE DEF lines, paid
  <1>12. DOMAIN lines = 1 .. Len(lines) BY <1>10
  <1>13. (Len(paid) < Len(lines)) <=> \E i \in DOMAIN lines : lines[i].amount = Unpriced
    <2>1. ASSUME NEW i \in DOMAIN lines, lines[i].amount = Unpriced PROVE Len(paid) < Len(lines)
      <3>1. i \in 1 .. Len(lines) /\ i \notin on BY <1>12, <2>1
      <3> HIDE DEF on
      <3> QED BY <1>10, <1>11, <3>1, PickedShorter
    <2>2. ASSUME ~\E i \in DOMAIN lines : lines[i].amount = Unpriced PROVE ~(Len(paid) < Len(lines))
      <3>1. \A i \in 1 .. Len(lines) : i \in on BY <1>12, <2>2
      <3> HIDE DEF on
      <3>2. paid = lines BY <1>10, <1>11, <3>1, PickedAll
      <3> QED BY <1>10, <3>2
    <2> QED BY <2>1, <2>2
  <1>14. fares # <<>> => {i \in DOMAIN lines : lines[i].kind = "transit"} = 1 .. Len(starts)
    <2> SUFFICES ASSUME fares # <<>> PROVE {i \in DOMAIN lines : lines[i].kind = "transit"} = 1 .. Len(starts) OBVIOUS
    <2>1. n = Len(starts) BY <1>3 DEF n
    <2> QED BY <1>10, <1>12, <2>1 DEF TransitFirst
  <1> HIDE DEF fare
  <1>15. FareFits(fare, fares, starts) BY <1>1, <1>13, <1>14, Zenon DEF FareFits
  <1> QED BY <1>15 DEF fare

-----------------------------------------------------------------------------
(***************************************************************************)
(* Rentals.  A list picked of a list is picked of what that is picked of.  *)
(***************************************************************************)
LEMMA TracesEqual ==
    ASSUME NEW S, NEW s \in Seq(S), NEW on, NEW r \in Seq(S), NEW h, Traces(h, r, s, on, Len(s)),
           NEW t \in Seq(S), NEW k, Traces(k, t, s, on, Len(s))
    PROVE  r = t
  <1>1. PICK m \in Nat, n \in Nat, l \in Nat : m = Len(s) /\ n = Len(r) /\ l = Len(t) OBVIOUS
  <1>2. /\ \A i \in 1 .. n : h[i] \in 1 .. m /\ h[i] \in on /\ r[i] = s[h[i]]
        /\ \A i, j \in 1 .. n : i < j => h[i] < h[j]
        /\ \A x \in 1 .. m : x \in on => \E i \in 1 .. n : h[i] = x
    BY <1>1 DEF Traces
  <1>3. /\ \A i \in 1 .. l : k[i] \in 1 .. m /\ k[i] \in on /\ t[i] = s[k[i]]
        /\ \A i, j \in 1 .. l : i < j => k[i] < k[j]
        /\ \A x \in 1 .. m : x \in on => \E i \in 1 .. l : k[i] = x
    BY <1>1 DEF Traces
  <1> DEFINE Q == {i \in Nat : \A j \in 1 .. i : j <= n \/ j <= l => j <= n /\ j <= l /\ h[j] = k[j]}
  <1>4. 0 \in Q OBVIOUS
  <1>5. ASSUME NEW i \in Nat, i \in Q PROVE i + 1 \in Q
    <2>1. \A j \in 1 .. i : j <= n \/ j <= l => j <= n /\ j <= l /\ h[j] = k[j] BY <1>5
    <2> SUFFICES ASSUME i + 1 <= n \/ i + 1 <= l PROVE i + 1 <= n /\ i + 1 <= l /\ h[i + 1] = k[i + 1] BY <2>1
    <2>2. \A j \in 1 .. i : j <= n /\ j <= l /\ h[j] = k[j] BY <2>1
    <2>3. ASSUME i + 1 <= n PROVE i + 1 <= l /\ k[i + 1] <= h[i + 1]
      <3>1. i + 1 \in 1 .. n /\ h[i + 1] \in 1 .. m /\ h[i + 1] \in on BY <1>2, <2>3
      <3>2. PICK a \in 1 .. l : k[a] = h[i + 1] BY <1>3, <3>1
      <3>3. ~(a <= i)
        <4> SUFFICES ASSUME a <= i PROVE FALSE OBVIOUS
        <4>1. a \in 1 .. i /\ a \in 1 .. n /\ a < i + 1 BY <2>2
        <4>2. h[a] < h[i + 1] BY <1>2, <3>1, <4>1
        <4>3. h[a] = h[i + 1] BY <2>2, <3>2, <4>1
        <4> QED BY <3>1, <4>2, <4>3
      <3>4. i + 1 \in 1 .. l /\ (a = i + 1 \/ i + 1 < a) BY <3>2, <3>3
      <3>5. k[i + 1] \in 1 .. m /\ (i + 1 < a => k[i + 1] < k[a]) BY <1>3, <3>4
      <3>6. CASE a = i + 1 BY <3>1, <3>2, <3>4, <3>6
      <3>7. CASE i + 1 < a BY <3>1, <3>2, <3>4, <3>5, <3>7
      <3> QED BY <3>4, <3>6, <3>7
    <2>4. ASSUME i + 1 <= l PROVE i + 1 <= n /\ h[i + 1] <= k[i + 1]
      <3>1. i + 1 \in 1 .. l /\ k[i + 1] \in 1 .. m /\ k[i + 1] \in on BY <1>3, <2>4
      <3>2. PICK a \in 1 .. n : h[a] = k[i + 1] BY <1>2, <3>1
      <3>3. ~(a <= i)
        <4> SUFFICES ASSUME a <= i PROVE FALSE OBVIOUS
        <4>1. a \in 1 .. i /\ a \in 1 .. l /\ a < i + 1 BY <2>2
        <4>2. k[a] < k[i + 1] BY <1>3, <3>1, <4>1
        <4>3. k[a] = k[i + 1] BY <2>2, <3>2, <4>1
        <4> QED BY <3>1, <4>2, <4>3
      <3>4. i + 1 \in 1 .. n /\ (a = i + 1 \/ i + 1 < a) BY <3>2, <3>3
      <3>5. h[i + 1] \in 1 .. m /\ (i + 1 < a => h[i + 1] < h[a]) BY <1>2, <3>4
      <3>6. CASE a = i + 1 BY <3>1, <3>2, <3>4, <3>6
      <3>7. CASE i + 1 < a BY <3>1, <3>2, <3>4, <3>5, <3>7
      <3> QED BY <3>4, <3>6, <3>7
    <2>5. i + 1 <= n /\ i + 1 <= l BY <2>3, <2>4
    <2>6. h[i + 1] \in Int /\ k[i + 1] \in Int
      <3>1. i + 1 \in 1 .. n /\ i + 1 \in 1 .. l BY <2>5
      <3>2. h[i + 1] \in 1 .. m /\ k[i + 1] \in 1 .. m BY <1>2, <1>3, <3>1
      <3> QED BY <3>2
    <2> QED BY <2>3, <2>4, <2>5, <2>6
  <1> HIDE DEF Q
  <1>6. Nat \subseteq Q BY <1>4, <1>5, Induction
  <1>7. n + l \in Q BY <1>6
  <1>8. \A j \in 1 .. n + l : j <= n \/ j <= l => j <= n /\ j <= l /\ h[j] = k[j] BY <1>7 DEF Q
  <1>9. n = l
    <2>1. n <= l
      <3>1. CASE n = 0 BY <3>1
      <3>2. CASE n # 0
        <4>1. n \in 1 .. n + l BY <3>2
        <4> QED BY <1>8, <4>1
      <3> QED BY <3>1, <3>2
    <2>2. l <= n
      <3>1. CASE l = 0 BY <3>1
      <3>2. CASE l # 0
        <4>1. l \in 1 .. n + l BY <3>2
        <4> QED BY <1>8, <4>1
      <3> QED BY <3>1, <3>2
    <2> QED BY <2>1, <2>2
  <1>10. \A i \in 1 .. n : r[i] = t[i]
    <2>1. \A i \in 1 .. n : i \in 1 .. n + l /\ i \in 1 .. l BY <1>9
    <2>2. \A i \in 1 .. n : h[i] = k[i] BY <1>8, <2>1
    <2> SUFFICES ASSUME NEW i \in 1 .. n PROVE r[i] = t[i] OBVIOUS
    <2>3. r[i] = s[h[i]] BY <1>2
    <2>4. t[i] = s[k[i]] BY <1>3, <2>1
    <2>5. h[i] = k[i] BY <2>2
    <2> QED BY <2>3, <2>4, <2>5
  <1> QED BY <1>1, <1>9, <1>10, SeqEqual

LEMMA TracesThrough ==
    ASSUME NEW S, NEW s \in Seq(S), NEW r \in Seq(S), NEW t \in Seq(S),
           NEW a, NEW first, Traces(a, r, s, first, Len(s)), NEW b, NEW then, Traces(b, t, r, then, Len(r)),
           NEW both, \A n \in 1 .. Len(r) : n \in then <=> a[n] \in both, \A i \in 1 .. Len(s) : i \in both => i \in first
    PROVE  \E c : Traces(c, t, s, both, Len(s))
  <1>1. PICK m \in Nat, n \in Nat, l \in Nat : m = Len(s) /\ n = Len(r) /\ l = Len(t) OBVIOUS
  <1>2. /\ a \in [1 .. n -> Nat] /\ \A i \in 1 .. n : a[i] \in 1 .. m /\ a[i] \in first /\ r[i] = s[a[i]]
        /\ \A i, j \in 1 .. n : i < j => a[i] < a[j]
        /\ \A x \in 1 .. m : x \in first => \E i \in 1 .. n : a[i] = x
    BY <1>1 DEF Traces
  <1>3. /\ \A i \in 1 .. l : b[i] \in 1 .. n /\ b[i] \in then /\ t[i] = r[b[i]]
        /\ \A i, j \in 1 .. l : i < j => b[i] < b[j]
        /\ \A x \in 1 .. n : x \in then => \E i \in 1 .. l : b[i] = x
    BY <1>1 DEF Traces
  <1> DEFINE c == [i \in 1 .. l |-> a[b[i]]]
  <1>4. \A i \in 1 .. l : c[i] = a[b[i]] OBVIOUS
  <1>5. c \in [1 .. l -> Nat] BY <1>2, <1>3
  <1> HIDE DEF c
  <1>6. \A i \in 1 .. l : c[i] \in 1 .. m /\ c[i] \in both /\ t[i] = s[c[i]]
    <2> SUFFICES ASSUME NEW i \in 1 .. l PROVE c[i] \in 1 .. m /\ c[i] \in both /\ t[i] = s[c[i]] OBVIOUS
    <2>1. b[i] \in 1 .. n /\ b[i] \in then /\ t[i] = r[b[i]] BY <1>3
    <2>2. a[b[i]] \in 1 .. m /\ r[b[i]] = s[a[b[i]]] BY <1>2, <2>1
    <2>3. a[b[i]] \in both BY <1>1, <2>1
    <2> QED BY <1>4, <2>1, <2>2, <2>3
  <1>7. \A i, j \in 1 .. l : i < j => c[i] < c[j]
    <2> SUFFICES ASSUME NEW i \in 1 .. l, NEW j \in 1 .. l, i < j PROVE c[i] < c[j] OBVIOUS
    <2>1. b[i] \in 1 .. n /\ b[j] \in 1 .. n /\ b[i] < b[j] BY <1>3
    <2>2. a[b[i]] < a[b[j]] BY <1>2, <2>1
    <2> QED BY <1>4, <2>2
  <1>8. ASSUME NEW x \in 1 .. m, x \in both PROVE \E i \in 1 .. l : c[i] = x
    <2>1. x \in first BY <1>1, <1>8
    <2>2. PICK y \in 1 .. n : a[y] = x BY <1>2, <2>1
    <2>3. y \in then BY <1>1, <1>8, <2>2
    <2>4. PICK i \in 1 .. l : b[i] = y BY <1>3, <2>3
    <2> QED BY <1>4, <2>2, <2>4
  <1>9. Traces(c, t, s, both, m) BY <1>1, <1>5, <1>6, <1>7, <1>8 DEF Traces
  <1> QED BY <1>1, <1>9

\* features.py: a network without minutes to pay is charged once, a ride by the minute always.
LEMMA RentalsAre ==
    ASSUME NEW rentals, RentalsSound(rentals)
    PROVE  RentalsAgree(rentals)
  <1> DEFINE S == Range(rentals)
             Due1(r) == r.price # Unpriced /\ r.price # 0
             on == {i \in DOMAIN rentals : Due1(rentals[i])}
             priced == Where(rentals, LAMBDA r : r.price # Unpriced /\ r.price # 0)
             first == {i \in DOMAIN priced : priced[i].perMinute \/ \A j \in 1 .. (i - 1) : priced[j].network # priced[i].network}
             charged == ChargedRentals(rentals)
             Minute(r) == r.perMinute /\ r.price \notin {Unpriced, 0}
  <1>1. rentals \in Seq(S) /\ DOMAIN rentals = 1 .. Len(rentals) /\ Len(rentals) \in Nat BY DEF RentalsSound, ListOf
  <1> HIDE DEF S
  <1>2. priced = Picked(rentals, on) BY Zenon DEF Where
  <1>3. priced \in Seq(S) /\ \E h : Traces(h, priced, rentals, on, Len(rentals)) BY <1>1, <1>2, PickedIs
  <1>4. charged = Picked(priced, first) BY Zenon DEF ChargedRentals
  <1> HIDE DEF priced, charged
  <1>5. charged \in Seq(S) /\ \E h : Traces(h, charged, priced, first, Len(priced)) BY <1>3, <1>4, PickedIs
  <1>6. PICK a : Traces(a, priced, rentals, on, Len(rentals)) BY <1>3
  <1>7. PICK b : Traces(b, charged, priced, first, Len(priced)) BY <1>5, Zenon
  <1>8. PICK m \in Nat, n \in Nat, l \in Nat : m = Len(rentals) /\ n = Len(priced) /\ l = Len(charged)
    <2> HIDE DEF on, first, Due1
    <2>1. Len(priced) \in Nat BY <1>3
    <2>2. Len(charged) \in Nat BY <1>5
    <2> QED BY <1>1, <2>1, <2>2, Zenon
  <1>9. /\ \A i \in 1 .. n : a[i] \in 1 .. m /\ a[i] \in on /\ priced[i] = rentals[a[i]]
        /\ \A x \in 1 .. m : x \in on => \E i \in 1 .. n : a[i] = x
    BY <1>6, <1>8 DEF Traces
  <1>10. /\ \A i \in 1 .. l : b[i] \in 1 .. n /\ b[i] \in first /\ charged[i] = priced[b[i]]
         /\ \A i, j \in 1 .. l : i < j => b[i] < b[j]
         /\ \A x \in 1 .. n : x \in first => \E i \in 1 .. l : b[i] = x
    BY <1>7, <1>8 DEF Traces
  <1>11. DOMAIN priced = 1 .. n /\ DOMAIN charged = 1 .. l BY <1>3, <1>5, <1>8
  <1>12. \A i \in 1 .. n : Due1(priced[i]) BY <1>9
  <1>13. ASSUME NEW x \in {i \in DOMAIN rentals : rentals[i].price \notin {Unpriced, 0}},
                \A i \in DOMAIN rentals : rentals[i].network = rentals[x].network => ~rentals[i].perMinute
         PROVE  \E i \in DOMAIN charged : \A k \in DOMAIN charged : charged[k].network = rentals[x].network <=> k = i
    <2> DEFINE net == rentals[x].network
               here == {j \in 1 .. n : priced[j].network = net}
    <2>1. here # {}
      <3>1. x \in 1 .. m /\ x \in on BY <1>1, <1>8
      <3>2. PICK j \in 1 .. n : a[j] = x BY <1>9, <3>1
      <3>3. priced[j] = rentals[x] BY <1>9, <3>2
      <3> QED BY <3>3
    <2>2. \A j \in here : ~priced[j].perMinute
      <3> SUFFICES ASSUME NEW j \in here PROVE ~priced[j].perMinute OBVIOUS
      <3>1. a[j] \in DOMAIN rentals /\ priced[j] = rentals[a[j]] BY <1>1, <1>8, <1>9
      <3> QED BY <1>13, <3>1
    <2>3. here \in SUBSET Nat OBVIOUS
    <2>4. PICK j \in here : \A k \in here : j <= k
      <3> HIDE DEF here
      <3> QED BY <2>1, <2>3, MinOfNats
    <2>5. j \in first
      <3>1. ASSUME NEW k \in 1 .. (j - 1) PROVE priced[k].network # priced[j].network
        <4>1. k \in 1 .. n /\ ~(j <= k) OBVIOUS
        <4>2. k \notin here BY <2>4, <4>1
        <4> QED BY <4>1, <4>2
      <3> QED BY <1>11, <3>1
    <2>6. PICK i \in 1 .. l : b[i] = j BY <1>10, <2>5
    <2>7. charged[i].network = net BY <1>10, <2>6
    <2>8. ASSUME NEW k \in 1 .. l, charged[k].network = net PROVE k = i
      <3>1. b[k] \in here /\ b[k] \in first BY <1>10, <2>8
      <3>2. \A y \in 1 .. (b[k] - 1) : priced[y].network # priced[b[k]].network BY <2>2, <3>1
      <3>3. ~(j < b[k])
        <4> SUFFICES ASSUME j < b[k] PROVE FALSE OBVIOUS
        <4>1. j \in 1 .. (b[k] - 1) BY <3>1
        <4> QED BY <3>1, <3>2, <4>1
      <3>4. b[k] = j BY <2>4, <3>1, <3>3
      <3>5. ~(k < i) /\ ~(i < k) BY <1>10, <2>6, <3>4
      <3> QED BY <3>5
    <2> QED BY <1>11, <2>6, <2>7, <2>8
  <1>14. ByTheMinute(charged) = ByTheMinute(rentals)
    <2> DEFINE ofCharged == {i \in DOMAIN charged : Minute(charged[i])}
               ofPriced == {i \in DOMAIN priced : Minute(priced[i])}
               ofRentals == {i \in DOMAIN rentals : Minute(rentals[i])}
               x == Picked(charged, ofCharged)
               y == Picked(rentals, ofRentals)
    <2>1. ByTheMinute(charged) = x /\ ByTheMinute(rentals) = y BY Zenon DEF ByTheMinute, Where
    <2>2. \A i \in 1 .. Len(priced) : i \in ofPriced => i \in first BY <1>11
    <2>3. \A i \in 1 .. Len(charged) : i \in ofCharged <=> b[i] \in ofPriced
      <3> SUFFICES ASSUME NEW i \in 1 .. l PROVE i \in ofCharged <=> b[i] \in ofPriced BY <1>8
      <3>1. b[i] \in 1 .. n /\ charged[i] = priced[b[i]] BY <1>10
      <3> HIDE DEF Minute
      <3> QED BY <1>11, <3>1
    <2>4. \A i \in 1 .. Len(rentals) : i \in ofRentals => i \in on OBVIOUS
    <2>5. \A i \in 1 .. Len(priced) : i \in ofPriced <=> a[i] \in ofRentals
      <3> SUFFICES ASSUME NEW i \in 1 .. n PROVE i \in ofPriced <=> a[i] \in ofRentals BY <1>8
      <3>1. a[i] \in DOMAIN rentals /\ priced[i] = rentals[a[i]] BY <1>1, <1>8, <1>9
      <3> HIDE DEF Minute
      <3> QED BY <1>11, <3>1
    <2> HIDE DEF ofCharged, ofPriced, ofRentals, on, first
    <2>6. x \in Seq(S) /\ \E h : Traces(h, x, charged, ofCharged, Len(charged)) BY <1>5, PickedIs
    <2>7. y \in Seq(S) /\ \E h : Traces(h, y, rentals, ofRentals, Len(rentals)) BY <1>1, PickedIs
    <2> HIDE DEF x, y
    <2>8. \E h : Traces(h, x, priced, ofPriced, Len(priced)) BY <1>3, <1>5, <1>7, <2>2, <2>3, <2>6, TracesThrough
    <2>9. \E h : Traces(h, x, rentals, ofRentals, Len(rentals)) BY <1>1, <1>3, <1>6, <2>4, <2>5, <2>6, <2>8, TracesThrough
    <2>10. x = y BY <1>1, <2>6, <2>7, <2>9, TracesEqual
    <2> QED BY <2>1, <2>10
  <1> QED BY <1>13, <1>14 DEF RentalsAgree, charged

(***************************************************************************)
(* The answer to a question about a fare is the record the handler builds, *)
(* of a question the tables can hold.                                      *)
(***************************************************************************)
FareAnswer(q) ==
    [fare    |-> EstimateFare(q.fares, q.starts, q.rentals,
                              <<QuotesFor(q.configured, q.tariffs, q.ride)>>, ParkingFee(q.rules, q.minutes)),
     meter   |-> Estimate(q.tariffs["street"], q.ride),
     further |-> Estimate(q.tariffs["street"], [q.ride EXCEPT !.metres = @ + 1]),
     stay    |-> [m \in 1 .. q.minutes |-> ParkingFee(q.rules, m)]]
FareInv == Is("fare") => question \in FareQuestions /\ response = FareAnswer(question)

LEMMA FaresFirst == QuestionsInit => FareInv
  BY DEF QuestionsInit, Silence, FareInv, Is

LEMMA FareAsked == AskFare => question' \in FareQuestions /\ response' = FareAnswer(question')
  BY Zenon DEF AskFare, Answering, FareAnswer

LEMMA FaresNext == ASSUME FareInv, [QuestionsNext]_questions PROVE FareInv'
  <1>1. CASE UNCHANGED questions BY <1>1 DEF questions, FareInv, FareAnswer, Is
  <1>2. CASE AskFare BY <1>2, FareAsked DEF FareInv, FareAnswer
  <1>3. ASSUME question'.kind # "fare" PROVE FareInv' BY <1>3 DEF FareInv, Is
  <1> QED BY <1>1, <1>2, <1>3, AskedKinds, OtherQuestions

\* What a question whose tables are sound is answered.
FareSays(q, r) ==
    LET lines == r.fare.lines
        quotes == QuotesFor(q.configured, q.tariffs, q.ride)
    IN  /\ q.fares # <<>> => BoardingsAgree(q) /\ {i \in DOMAIN lines : lines[i].kind = "transit"} = 1 .. Len(q.starts)
        /\ RentalsAgree(q.rentals)
        /\ r.fare.note <=> \E i \in DOMAIN lines : lines[i].amount = Unpriced
        /\ r.meter.min <= r.meter.amount /\ r.meter.amount <= r.meter.max
        /\ r.meter.amount <= r.further.amount
        /\ \A m \in 1 .. q.minutes - 1 : r.stay[m] # Unpriced => r.stay[m] <= r.stay[m + 1]
        /\ \A i \in Priced(quotes) : /\ Recommended(quotes) \in Priced(quotes)
                                     /\ quotes[Recommended(quotes)].price <= quotes[i].price

LEMMA FareSaid == ASSUME NEW q, FareSound(q) PROVE FareSays(q, FareAnswer(q))
  <1> DEFINE r == FareAnswer(q)
             quotes == QuotesFor(q.configured, q.tariffs, q.ride)
             parking == ParkingFee(q.rules, q.minutes)
             charged == Boardings(q.fares[1], q.starts)
             configured == q.configured
             tariffs == q.tariffs
             ride == q.ride
  <1>1. /\ q.minutes \in Nat /\ q.starts \in Seq(Nat)
        /\ RentalsSound(q.rentals) /\ RulesSound(q.rules)
        /\ q.configured \in Seq(Range(q.configured)) /\ \A p \in Range(q.configured) : p.order \in Int /\ p.id \in Int
        /\ "street" \in DOMAIN q.tariffs /\ \A t \in Range(q.tariffs) : TariffSound(t)
        /\ q.ride \in RideOf(q.ride.points, q.ride.wanted)
    BY DEF FareSound, RentalsSound, RulesSound, TariffSound, ListOf
  <1>2. q.fares = <<>> \/ \E f \in CityFare : q.fares = <<f>> BY DEF FareSound
  <1>3. /\ r.fare = EstimateFare(q.fares, q.starts, q.rentals, <<quotes>>, parking)
        /\ r.meter = Estimate(q.tariffs["street"], q.ride)
        /\ r.further = Estimate(q.tariffs["street"], [q.ride EXCEPT !.metres = @ + 1])
        /\ r.stay = [m \in 1 .. q.minutes |-> ParkingFee(q.rules, m)]
    BY DEF FareAnswer
  <1> HIDE DEF r
  <1>4. /\ quotes \in Seq({QuoteProvider(p, q.tariffs, q.ride) : p \in Range(q.configured)})
        /\ PricedRight(quotes)
    BY <1>1, QuotesAre
  <1>5. parking \in Nat \cup {Unpriced} BY <1>1, StayGrows
  <1>6. q.fares # <<>> => BoardingsAgree(q) /\ charged \in Seq({"base", "transfer"}) /\ Len(charged) = Len(q.starts)
    <2> SUFFICES ASSUME q.fares # <<>>
                 PROVE  BoardingsAgree(q) /\ charged \in Seq({"base", "transfer"}) /\ Len(charged) = Len(q.starts) OBVIOUS
    <2>1. PICK f \in CityFare : q.fares = <<f>> BY <1>2
    <2>2. q.fares[1] = f BY <2>1
    <2>3. BoardingsAgree(q) /\ Boardings(f, q.starts) \in Seq({"base", "transfer"}) BY <1>1, <2>1, BoardingsAre
    <2>4. Len(charged) = Len(q.starts) BY <2>3 DEF BoardingsAgree
    <2> QED BY <2>2, <2>3, <2>4
  <1>7. RentalsAgree(q.rentals) BY <1>1, RentalsAre
  <1>8. \A m \in 1 .. q.minutes - 1 : r.stay[m] # Unpriced => r.stay[m] <= r.stay[m + 1]
    <2> SUFFICES ASSUME NEW m \in 1 .. q.minutes - 1 PROVE r.stay[m] # Unpriced => r.stay[m] <= r.stay[m + 1] OBVIOUS
    <2>1. m \in Nat /\ m \in 1 .. q.minutes /\ m + 1 \in 1 .. q.minutes BY <1>1
    <2>2. r.stay[m] = ParkingFee(q.rules, m) /\ r.stay[m + 1] = ParkingFee(q.rules, m + 1) BY <1>3, <2>1
    <2> QED BY <1>1, <2>1, <2>2, StayGrows
  <1>9. q.tariffs["street"] \in Range(q.tariffs) BY <1>1 DEF Range
  <1> HIDE DEF quotes, parking, charged
  <1>10. /\ r.meter.min <= r.meter.amount /\ r.meter.amount <= r.meter.max
         /\ r.meter.amount <= r.further.amount
    <2>1. TariffSound(q.tariffs["street"]) BY <1>1, <1>9
    <2> QED BY <1>1, <1>3, <2>1, EstimateIs
  <1>11. /\ q.fares # <<>> => {i \in DOMAIN r.fare.lines : r.fare.lines[i].kind = "transit"} = 1 .. Len(q.starts)
         /\ r.fare.note <=> \E i \in DOMAIN r.fare.lines : r.fare.lines[i].amount = Unpriced
    <2>1. q.fares # <<>> => charged = Boardings(q.fares[1], q.starts) /\ charged \in Seq({"base", "transfer"})
                            /\ Len(charged) = Len(q.starts)
      BY <1>6 DEF charged
    <2> DEFINE fares == q.fares
               starts == q.starts
               rentals == q.rentals
               S == {QuoteProvider(p, q.tariffs, q.ride) : p \in Range(q.configured)}
               fare == EstimateFare(fares, starts, rentals, <<quotes>>, parking)
    <2>2. fares = <<>> \/ \E f \in CityFare : fares = <<f>> BY <1>2
    <2>3. starts \in Seq(Nat) /\ RentalsSound(rentals) BY <1>1
    <2>4. quotes \in Seq(S) /\ PricedRight(quotes) BY <1>4
    <2>5. fares # <<>> => charged = Boardings(fares[1], starts) /\ charged \in Seq({"base", "transfer"})
                          /\ Len(charged) = Len(starts)
      BY <2>1
    <2>6. r.fare = fare BY <1>3
    <2> HIDE DEF fares, starts, rentals, S
    <2>7. FareFits(fare, fares, starts) BY <1>5, <2>2, <2>3, <2>4, <2>5, FareIs
    <2> HIDE DEF fare
    <2> QED BY <2>6, <2>7, Zenon DEF FareFits, fares, starts
  <1>12. \A i \in Priced(quotes) : /\ Recommended(quotes) \in Priced(quotes)
                                   /\ quotes[Recommended(quotes)].price <= quotes[i].price
    BY <1>4, CheapestIs
  <1> QED BY <1>6, <1>7, <1>8, <1>10, <1>11, <1>12, Zenon DEF FareSays, quotes, r

\* features.py:22, tariff.py, openmobility.py: whatever the city's fare, its tariffs and
\* its rules, each boarding is a transfer exactly when the last base fare is recent and has
\* transfers left, a pass is paid once, the meter's band holds its estimate, a longer
\* ride or stay is never cheaper, and nobody is cheaper than who is recommended.
THEOREM FaresAreAgreed == QuestionsSpec => []FaresAgree
  <1>1. ASSUME FareInv, Is("fare") PROVE FaresAgree
    <2>1. question \in FareQuestions /\ response = FareAnswer(question) BY <1>1 DEF FareInv
    <2>2. FareSays(question, response) BY <2>1, FareSaid, QuestionsAssumption
    <2> QED BY <2>2, Zenon DEF FareSays, FaresAgree
  <1>2. FareInv => FaresAgree BY <1>1 DEF FaresAgree
  <1> QED BY FaresFirst, FaresNext, <1>2, PTL DEF QuestionsSpec
=============================================================================

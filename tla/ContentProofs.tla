---------------------------- MODULE ContentProofs ---------------------------
(***************************************************************************)
(* What a post says: its times are never taken for "publish now"; while it *)
(* carries the marker tag the row that says so is here; what the user has  *)
(* decided about its resources stands.                                     *)
(***************************************************************************)
EXTENDS MCServices, DataProofs

-----------------------------------------------------------------------------
(* Publication times (schedule).                                           *)

USE ScheduleAssumption

(* What the wire's milliseconds and the floor's whole seconds do to a time.*)
LEMMA IsoZCuts ==
  ASSUME NEW t \in Nat
  PROVE  IsoZ(t) \in Nat /\ IsoZ(t) <= t /\ t < IsoZ(t) + 1000 /\ IsoZ(t) % 1000 = 0
<1>1. t % 1000 \in 0 .. 999 /\ t % 1000 <= t
  OBVIOUS
<1>2. IsoZ(t) = 1000 * (t \div 1000)
  BY DEF IsoZ
<1>3. \A n \in Nat : (1000 * n) % 1000 = 0
  OBVIOUS
<1> QED
  BY <1>1, <1>2, <1>3 DEF IsoZ

LEMMA IsoZPlusWhole ==
  ASSUME NEW a \in Nat, NEW b \in Nat, b % 1000 = 0
  PROVE  IsoZ(a + b) = IsoZ(a) + b
<1>1. b = 1000 * (b \div 1000) /\ a = 1000 * (a \div 1000) + (a % 1000)
  OBVIOUS
<1>2. PICK m \in Nat, n \in Nat, r \in 0 .. 999 : a = 1000 * n + r /\ b = 1000 * m
  BY <1>1
<1>3. (1000 * (n + m) + r) % 1000 = r /\ (1000 * n + r) % 1000 = r
  OBVIOUS
<1> QED
  BY <1>2, <1>3 DEF IsoZ

(* All that is used of a minute's length. *)
LEMMA Minutes ==
  /\ Minute \in Nat /\ Minute > 1000
  /\ \A n \in Nat : n * Minute \in Nat /\ (n * Minute) % 1000 = 0
  BY SMT DEF Minute

LEMMA SecondIsWhole ==
  ASSUME NEW t \in Nat
  PROVE  /\ SpreadFloor(t) \in Nat /\ SpreadFloor(t) >= EarliestDispatch(t)
         /\ SpreadFloor(t) % 1000 = 0
  BY SMT DEF SpreadFloor, EarliestDispatch, Dispatch, Minute

LEMMA MoreHeadroom ==
  ASSUME NEW t \in Nat
  PROVE  /\ EarliestDispatch(t) \in Nat /\ EarliestPublish(t) \in Nat
         /\ EarliestDispatch(t) = EarliestPublish(t) + Headroom * Minute
         /\ EarliestDispatch(t) >= EarliestPublish(t)
  BY SMT DEF EarliestDispatch, EarliestPublish, Dispatch, Minute

-----------------------------------------------------------------------------

(* What is on its way was far enough ahead when it was sent, and it was    *)
(* sent no longer ago than a request travels.                              *)
InFlight ==
  call # NoCall =>
    /\ call.stamp >= EarliestDispatch(call.sent)
    /\ call.sent <= clock /\ clock <= call.sent + Transit

ScheduleInv == ScheduleTypeOK /\ InFlight

LEMMA Plans == \A o \in Nat, t \in Nat : Relative(o) \in Plan /\ Absolute(t) \in Plan
  BY DEF Relative, Absolute, NoPlan, Plan

LEMMA StampTyped ==
  ASSUME NEW when \in Nat, NEW t \in Nat, NEW relative \in BOOLEAN
  PROVE  OutboundStamp(when, t, relative) \in Nat
<1>1. RoundedUp(when) \in Nat
  BY DEF RoundedUp
<1> QED
  BY <1>1, IsoZCuts DEF OutboundStamp

LEMMA ResolvedTyped ==
  ASSUME NEW plan \in Plan, NEW t \in Nat
  PROVE  Resolved(plan, t) \in Nat \cup {NoTime}
<1>1. CASE plan.relative /\ plan.offset # NoTime
  <2>1. plan.offset \in Nat
    BY <1>1 DEF Plan
  <2> QED
    BY <1>1, <2>1 DEF Resolved, Later, EarliestDispatch, Dispatch, Minute
<1>2. CASE ~(plan.relative /\ plan.offset # NoTime)
  BY <1>2 DEF Resolved, Plan
<1> QED
  BY <1>1, <1>2

(* A relative plan is raised to a floor that the wire does not cut below.  *)
LEMMA FloorSurvives ==
  ASSUME NEW o \in Nat, NEW t \in Nat, NEW when, when = Later(t + o * Minute, EarliestDispatch(t))
  PROVE  OutboundStamp(when, t, TRUE) >= EarliestDispatch(t)
<1> DEFINE floor == EarliestDispatch(t)
<1>1. when \in Nat /\ floor \in Nat /\ when >= floor
  BY DEF Later, EarliestDispatch, Dispatch, Minute
<1>2. CASE when = floor
  <2>1. CASE when % 1000 = 0
    BY <1>1, <1>2, <2>1 DEF OutboundStamp, IsoZ
  <2>2. CASE when % 1000 # 0
    <3>1. RoundedUp(when) \in Nat /\ RoundedUp(when) > when /\ RoundedUp(when) % 1000 = 0
      BY <1>1 DEF RoundedUp
    <3>2. IsoZ(RoundedUp(when)) = RoundedUp(when)
      BY <3>1 DEF IsoZ
    <3> QED
      BY <1>1, <1>2, <2>2, <3>1, <3>2 DEF OutboundStamp
  <2> QED
    BY <2>1, <2>2
<1>3. CASE when > floor
  <2>1. when = t + o * Minute /\ floor = t + (Lead + Headroom) * Minute
    BY <1>3 DEF Later, EarliestDispatch, Dispatch
  <2>2. o >= Lead + Headroom + 1
    BY <1>3, <2>1 DEF Minute
  <2>3. when >= floor + Minute
    BY <2>1, <2>2 DEF Minute
  <2>4. IsoZ(when) > when - 1000 /\ IsoZ(when) \in Nat
    BY <1>1, IsoZCuts
  <2>5. IsoZ(when) >= floor
    BY <1>1, <2>3, <2>4 DEF Minute
  <2> QED
    BY <1>1, <1>3, <2>5 DEF OutboundStamp
<1>4. when = floor \/ when > floor
  BY <1>1
<1> QED
  BY <1>2, <1>3, <1>4

(* Every relative plan may be sent as it comes out of resolve and          *)
(* outbound_stamp, whatever part of a millisecond the clock shows; only    *)
(* one that is too far ahead is refused (schedule.resolve, outbound_stamp).*)
THEOREM RelativeAlwaysSent == ASSUME clock \in Nat PROVE RelativeIsSent
<1> SUFFICES ASSUME NEW o \in Offsets
             PROVE  LET stamp == OutboundStamp(Resolved(Relative(o), clock), clock, TRUE)
                    IN  ValidDispatch(stamp, clock) \/ stamp > LatestPublish(clock)
  BY DEF RelativeIsSent
<1> DEFINE when == Resolved(Relative(o), clock)
           stamp == OutboundStamp(when, clock, TRUE)
<1>1. when = Later(clock + o * Minute, EarliestDispatch(clock))
  BY DEF Resolved, Relative, NoPlan
<1>2. o \in Nat /\ clock \in Nat
  OBVIOUS
<1>3. stamp >= EarliestDispatch(clock)
  BY <1>1, <1>2, FloorSurvives
<1>4. when \in Nat
  BY <1>1, <1>2, Minutes DEF Later, EarliestDispatch, Dispatch
<1>5. stamp \in Nat
  BY <1>2, <1>4, StampTyped
<1>6. EarliestDispatch(clock) >= EarliestPublish(clock)
  BY <1>2, MoreHeadroom
<1> HIDE DEF when, stamp
<1>7. ValidDispatch(stamp, clock) \/ stamp > LatestPublish(clock)
  BY <1>2, <1>3, <1>5, <1>6, MoreHeadroom DEF ValidDispatch, Valid, LatestPublish
<1> QED
  BY <1>7 DEF when, stamp

(* Every slot of a spread could be sent as it is stored, and the slots     *)
(* keep the distance that was asked for (schedule.spread).                 *)
THEOREM SpreadAlwaysSent == ASSUME clock \in Nat PROVE SpreadIsSent
<1> SUFFICES ASSUME NEW start \in Clocks, NEW i \in Intervals
             PROVE  \A n \in {0, 1} :
                      LET slot == IsoZ(Slot(start, i, n, clock)) IN
                      /\ slot >= EarliestDispatch(clock)
                      /\ n = 1 => slot - IsoZ(Slot(start, i, 0, clock)) = i * Minute
  BY DEF SpreadIsSent
<1> DEFINE first == Later(start, SpreadFloor(clock))
           floor == EarliestDispatch(clock)
<1>1. i \in Nat /\ start \in Nat /\ clock \in Nat /\ floor \in Nat
  BY MoreHeadroom
<1>2. first \in Nat /\ SpreadFloor(clock) >= floor /\ SpreadFloor(clock) \in Nat
  BY <1>1, SecondIsWhole DEF Later
<1>3. IsoZ(first) >= floor
  <2>1. IsoZ(SpreadFloor(clock)) >= floor
    <3>1. SpreadFloor(clock) % 1000 = 0
      BY <1>1, <1>2, SecondIsWhole
    <3> QED
      BY <1>2, <3>1 DEF IsoZ
  <2>2. CASE first = SpreadFloor(clock)
    BY <2>1, <2>2
  <2>3. CASE first = start /\ start > SpreadFloor(clock)
    <3>1. SpreadFloor(clock) % 1000 = 0
      BY <1>1, <1>2, SecondIsWhole
    <3>2. IsoZ(start) >= SpreadFloor(clock)
      BY <1>1, <1>2, <2>3, <3>1 DEF IsoZ
    <3>3. IsoZ(start) \in Nat
      BY <1>1, IsoZCuts
    <3> QED
      BY <1>1, <1>2, <2>3, <3>2, <3>3
  <2> QED
    BY <1>1, <1>2, <2>2, <2>3 DEF Later
<1>4. i * Minute \in Nat /\ (i * Minute) % 1000 = 0
  BY <1>1, Minutes
<1>5. IsoZ(first + i * Minute) = IsoZ(first) + i * Minute
  BY <1>2, <1>4, IsoZPlusWhole
<1>6. Slot(start, i, 0, clock) = first /\ Slot(start, i, 1, clock) = first + i * Minute
  BY <1>1, <1>2, Minutes DEF Slot
<1>7. IsoZ(first) \in Nat
  BY <1>2, IsoZCuts
<1> HIDE DEF first, floor
<1>8. IsoZ(first) + i * Minute >= floor /\ (IsoZ(first) + i * Minute) - IsoZ(first) = i * Minute
  BY <1>1, <1>3, <1>4, <1>7
<1> QED
  BY <1>3, <1>5, <1>6, <1>8 DEF floor

-----------------------------------------------------------------------------

LEMMA ScheduleStart == ScheduleInit => ScheduleInv
<1> SUFFICES ASSUME ScheduleInit PROVE ScheduleInv
  OBVIOUS
<1>1. NoPlan \in Plan
  BY DEF NoPlan, Plan
<1> QED
  BY <1>1 DEF ScheduleInit, ScheduleInv, ScheduleTypeOK, InFlight

(* A call that is sent is typed, far enough ahead and has not travelled.   *)
LEMMA SendKeeps ==
  ASSUME ScheduleInv, NEW p \in Planned, NEW stamp \in Nat, NEW push \in BOOLEAN,
         ValidDispatch(stamp, clock), Send(p, stamp, push), clock' = clock
  PROVE  call' \in Call /\ InFlight'
<1>1. call' = [post |-> p, stamp |-> stamp, sent |-> clock, push |-> push]
  BY DEF Send
<1>2. clock \in Nat
  BY DEF ScheduleInv, ScheduleTypeOK
<1>3. stamp >= EarliestDispatch(clock)
  BY DEF ValidDispatch
<1>4. InFlight'
  <2>1. call'.stamp = stamp /\ call'.sent = clock /\ clock' = clock
    BY <1>1
  <2>2. call'.stamp >= EarliestDispatch(call'.sent)
    BY <1>3, <2>1
  <2>3. call'.sent <= clock' /\ clock' <= call'.sent + Transit
    BY <1>2, <2>1
  <2> QED
    BY <2>2, <2>3 DEF InFlight
<1> QED
  BY <1>1, <1>2, <1>4 DEF Call

LEMMA PatchKeeps ==
  ASSUME ScheduleInv, NEW p \in Planned, NEW plan \in Plan, Patch(p, plan)
  PROVE  ScheduleInv'
  BY DEF ScheduleInv, ScheduleTypeOK, InFlight, Patch

LEMMA RescheduleKeeps ==
  ASSUME ScheduleInv, NEW p \in Planned, NEW plan \in Plan, Reschedule(p, plan)
  PROVE  ScheduleInv'
<1> DEFINE when == Resolved(plan, clock)
           stamp == OutboundStamp(when, clock, plan.relative)
<1>1. clock \in Nat /\ plan.relative \in BOOLEAN
  BY DEF ScheduleInv, ScheduleTypeOK, Plan
<1>2. when # NoTime /\ ValidDispatch(stamp, clock)
  BY DEF Reschedule
<1>3. stamp \in Nat
  BY <1>1, <1>2, ResolvedTyped, StampTyped
<1> HIDE DEF when, stamp
<1>4. plans' \in [Planned -> Plan]
  <2>1. Absolute(stamp) \in Plan
    BY <1>3 DEF Absolute, Plan
  <2>2. plans' = [plans EXCEPT ![p] = IF plan.relative THEN plan ELSE Absolute(stamp)]
    BY DEF Reschedule, stamp, when
  <2> QED
    BY <2>1, <2>2 DEF ScheduleInv, ScheduleTypeOK
<1>5. (call' = NoCall \/ call' \in Call) /\ InFlight'
  <2>1. CASE p \in remote
    <3>1. Send(p, stamp, FALSE) /\ clock' = clock
      BY <2>1 DEF Reschedule, stamp, when
    <3> QED
      BY <1>2, <1>3, <3>1, SendKeeps
  <2>2. CASE p \notin remote
    BY <2>2 DEF Reschedule, ScheduleInv, ScheduleTypeOK, InFlight
  <2> QED
    BY <2>1, <2>2
<1> QED
  BY <1>4, <1>5 DEF Reschedule, ScheduleInv, ScheduleTypeOK

LEMMA ApplyKeeps ==
  ASSUME ScheduleInv, NEW p \in Planned, ApplyPublish(p)
  PROVE  ScheduleInv'
<1> DEFINE when == Resolved(plans[p], clock)
           stamp == OutboundStamp(when, clock, plans[p].relative)
<1>1. clock \in Nat /\ plans[p] \in Plan /\ plans[p].relative \in BOOLEAN
  BY DEF ScheduleInv, ScheduleTypeOK, Plan
<1>2. when # NoTime /\ ValidDispatch(stamp, clock) /\ Send(p, stamp, TRUE) /\ clock' = clock
  BY DEF ApplyPublish
<1>3. stamp \in Nat
  BY <1>1, <1>2, ResolvedTyped, StampTyped
<1> HIDE DEF when, stamp
<1>4. call' \in Call /\ InFlight'
  BY <1>2, <1>3, SendKeeps
<1> QED
  BY <1>4 DEF ApplyPublish, ScheduleInv, ScheduleTypeOK

(* The place of a post of a spread counts from zero.                       *)
LEMMA PlaceTyped ==
  ASSUME NEW posts \in Orders, NEW p \in Range(posts)
  PROVE  (CHOOSE n \in DOMAIN posts : posts[n] = p) - 1 \in Nat
<1>1. \E n \in DOMAIN posts : posts[n] = p
  BY DEF Range
<1>2. (CHOOSE n \in DOMAIN posts : posts[n] = p) \in DOMAIN posts
  BY <1>1
<1>3. DOMAIN posts \subseteq {1, 2}
  BY DEF Orders
<1> QED
  BY <1>2, <1>3

LEMMA SpreadRelativeKeeps ==
  ASSUME ScheduleInv, NEW posts \in Orders, NEW o \in Nat, NEW i \in Nat,
         SpreadRelative(posts, o, i)
  PROVE  ScheduleInv'
<1>1. \A n \in Nat : Relative(Later(o, Dispatch) + n * i) \in Plan
  <2>1. \A n \in Nat : Later(o, Dispatch) + n * i \in Nat
    BY DEF Later, Dispatch
  <2> QED
    BY <2>1, Plans
<1>2. plans' \in [Planned -> Plan]
  <2>1. PICK known \in SUBSET {p \in Range(posts) : Locked(p)} :
          plans' = [p \in Planned |->
            IF p \in Range(posts) \ known
            THEN Relative(Later(o, Dispatch) + ((CHOOSE n \in DOMAIN posts : posts[n] = p) - 1) * i)
            ELSE plans[p]]
    BY DEF SpreadRelative, Taken
  <2> QED
    BY <1>1, <2>1, PlaceTyped DEF ScheduleInv, ScheduleTypeOK
<1> QED
  BY <1>2 DEF SpreadRelative, Taken, ScheduleInv, ScheduleTypeOK, InFlight

LEMMA SpreadAbsoluteKeeps ==
  ASSUME ScheduleInv, NEW posts \in Orders, NEW start \in Nat, NEW i \in Nat,
         SpreadAbsolute(posts, start, i)
  PROVE  ScheduleInv'
<1>1. clock \in Nat
  BY DEF ScheduleInv, ScheduleTypeOK
<1>2. Later(start, SpreadFloor(clock)) \in Nat
  BY <1>1, SecondIsWhole DEF Later
<1>3. \A n \in Nat : Absolute(IsoZ(Slot(start, i, n, clock))) \in Plan
  <2> SUFFICES ASSUME NEW n \in Nat PROVE Absolute(IsoZ(Slot(start, i, n, clock))) \in Plan
    OBVIOUS
  <2>1. n * i \in Nat
    OBVIOUS
  <2>2. Slot(start, i, n, clock) \in Nat
    BY <1>2, <2>1, Minutes DEF Slot
  <2>3. IsoZ(Slot(start, i, n, clock)) \in Nat
    BY <2>2, IsoZCuts
  <2> QED
    BY <2>3 DEF Absolute, Plan
<1>4. plans' \in [Planned -> Plan]
  BY <1>3, PlaceTyped DEF SpreadAbsolute, Taken, ScheduleInv, ScheduleTypeOK
<1> QED
  BY <1>4 DEF SpreadAbsolute, Taken, ScheduleInv, ScheduleTypeOK, InFlight

LEMMA ArriveKeeps ==
  ASSUME ScheduleInv, Arrive
  PROVE  ScheduleInv'
<1>1. call \in Call /\ call.post \in Planned /\ call.stamp \in Nat /\ clock \in Nat
  BY DEF Arrive, ScheduleInv, ScheduleTypeOK, Call
<1>2. Held(call.post, call.stamp) \in Nat \cup {NoTime}
  BY <1>1 DEF Held, ScheduleInv, ScheduleTypeOK
<1>3. site' \in [Planned -> Nat \cup {NoTime}] /\ site'[call.post] \in Nat \cup {NoTime}
  BY <1>1, <1>2 DEF Arrive, ScheduleInv, ScheduleTypeOK
<1>4. pinned' \in [Planned -> Nat \cup {NoTime}]
  BY <1>1, <1>3 DEF Arrive, ScheduleInv, ScheduleTypeOK
<1> QED
  BY <1>3, <1>4 DEF Arrive, ScheduleInv, ScheduleTypeOK, InFlight

LEMMA PassKeeps ==
  ASSUME ScheduleInv, NEW t \in Clocks, Pass(t)
  PROVE  ScheduleInv'
<1>1. clock' = t /\ t > clock /\ clock \in Nat /\ call' = call
  BY DEF Pass, ScheduleInv, ScheduleTypeOK
<1>2. InFlight'
  <2> SUFFICES ASSUME call # NoCall
               PROVE  /\ call.stamp >= EarliestDispatch(call.sent)
                      /\ call.sent <= t /\ t <= call.sent + Transit
    BY <1>1 DEF InFlight
  <2>1. call \in Call /\ call.sent \in Nat
    BY DEF ScheduleInv, ScheduleTypeOK, Call
  <2>2. call.sent <= t
    BY <1>1, <2>1 DEF ScheduleInv, InFlight
  <2> QED
    BY <2>2 DEF ScheduleInv, InFlight, Pass
<1> QED
  BY <1>1, <1>2 DEF Pass, ScheduleInv, ScheduleTypeOK

LEMMA ScheduleStep == ScheduleInv /\ [ScheduleNext]_scheduleVars => ScheduleInv'
<1> SUFFICES ASSUME ScheduleInv, [ScheduleNext]_scheduleVars PROVE ScheduleInv'
  OBVIOUS
<1> Offsets \subseteq Nat /\ Clocks \subseteq Nat /\ Intervals \subseteq Nat
  OBVIOUS
<1>1. ASSUME NEW t \in Clocks, Pass(t) PROVE ScheduleInv'
  BY <1>1, PassKeeps
<1>2. ASSUME NEW p \in Planned, NEW o \in Offsets, Patch(p, Relative(o)) \/ Reschedule(p, Relative(o))
      PROVE  ScheduleInv'
  <2>1. Relative(o) \in Plan
    BY DEF Relative, NoPlan, Plan
  <2> QED
    BY <1>2, <2>1, PatchKeeps, RescheduleKeeps
<1>3. ASSUME NEW p \in Planned, NEW t \in Clocks, Patch(p, Absolute(t)) \/ Reschedule(p, Absolute(t))
      PROVE  ScheduleInv'
  <2>1. Absolute(t) \in Plan
    BY DEF Absolute, Plan
  <2> QED
    BY <1>3, <2>1, PatchKeeps, RescheduleKeeps
<1>4. ASSUME NEW p \in Planned, Created(p) \/ FoundPublishTime(p) PROVE ScheduleInv'
  BY <1>4 DEF Created, FoundPublishTime, ScheduleInv, ScheduleTypeOK, InFlight
<1>5. ASSUME NEW p \in Planned, ApplyPublish(p) PROVE ScheduleInv'
  BY <1>5, ApplyKeeps
<1>6. ASSUME NEW posts \in Orders, NEW i \in Intervals, NEW o \in Offsets, SpreadRelative(posts, o, i)
      PROVE  ScheduleInv'
  BY <1>6, SpreadRelativeKeeps
<1>7. ASSUME NEW posts \in Orders, NEW i \in Intervals, NEW t \in Clocks, SpreadAbsolute(posts, t, i)
      PROVE  ScheduleInv'
  BY <1>7, SpreadAbsoluteKeeps
<1>8. CASE Arrive
  BY <1>8, ArriveKeeps
<1>9. CASE Lost
  BY <1>9 DEF Lost, ScheduleInv, ScheduleTypeOK, InFlight
<1>10. CASE UNCHANGED scheduleVars
  BY <1>10 DEF scheduleVars, ScheduleInv, ScheduleTypeOK, InFlight
<1> QED
  BY <1>1, <1>2, <1>3, <1>4, <1>5, <1>6, <1>7, <1>8, <1>9, <1>10 DEF ScheduleNext

(* The state of the schedule is typed, and a request on its way was far    *)
(* enough ahead when it was sent: inductive, for any clock and any plans.  *)
THEOREM ScheduleInvariant == ScheduleSpec => []ScheduleInv
  BY ScheduleStart, ScheduleStep, PTL DEF ScheduleSpec

(* A relative plan is always sent as it comes (RelativeAlwaysSent), at     *)
(* every instant the program can be at.                                    *)
THEOREM RelativeSent == ScheduleSpec => []RelativeIsSent
<1>1. ScheduleInv => RelativeIsSent
  BY RelativeAlwaysSent DEF ScheduleInv, ScheduleTypeOK
<1> QED
  BY <1>1, ScheduleInvariant, PTL

(* So are the slots of a spread.                                           *)
THEOREM SpreadSent == ScheduleSpec => []SpreadIsSent
<1>1. ScheduleInv => SpreadIsSent
  BY SpreadAlwaysSent DEF ScheduleInv, ScheduleTypeOK
<1> QED
  BY <1>1, ScheduleInvariant, PTL

(* If no request travels longer than the headroom, CivitAI takes none of   *)
(* them for "publish now" (schedule.validate_dispatch).                    *)
THEOREM NothingAtOnce ==
  ASSUME Transit <= Headroom * Minute
  PROVE  ScheduleSpec => NeverAtOnce
<1>1. ASSUME ScheduleInv, ScheduleNext, NEW p \in Planned, site'[p] # site[p]
      PROVE  call # NoCall /\ site'[p] = call.stamp
  <2>1. Arrive
    BY <1>1 DEF ScheduleNext, Pass, Patch, Reschedule, Created, ApplyPublish, FoundPublishTime,
                SpreadRelative, SpreadAbsolute, Taken, Lost
  <2>2. call \in Call /\ call.post = p /\ site'[p] = Held(p, call.stamp) /\ call # NoCall
    BY <1>1, <2>1 DEF Arrive, ScheduleInv, ScheduleTypeOK, Call
  <2>3. call.stamp \in Nat /\ call.sent \in Nat /\ clock \in Nat
    BY <1>1, <2>2 DEF Call, ScheduleInv, ScheduleTypeOK
  <2>4. call.stamp >= EarliestDispatch(call.sent) /\ clock <= call.sent + Transit
    BY <1>1, <2>2 DEF ScheduleInv, InFlight
  <2>5. call.stamp >= EarliestPublish(clock)
    BY <2>3, <2>4, SMT DEF EarliestDispatch, EarliestPublish, Dispatch, Minute
  <2>6. ~(call.stamp < EarliestPublish(clock))
    BY <2>3, <2>5, MoreHeadroom
  <2> QED
    BY <1>1, <2>2, <2>6 DEF Held
<1>2. ScheduleInv /\ [ScheduleNext]_scheduleVars =>
        [\A p \in Planned : site'[p] # site[p] => call # NoCall /\ site'[p] = call.stamp]_scheduleVars
  BY <1>1
<1> QED
  BY <1>2, ScheduleInvariant, PTL DEF ScheduleSpec, NeverAtOnce

HIDE ScheduleAssumption

-----------------------------------------------------------------------------
(* The text and the tags (push_text, push_tags, sync).                     *)

USE WordingAssumption

Marked == Marker \in NamesOf(labels)

(* Of the data only the shape matters: the tag rows are rows, and what is  *)
(* being sent is a record.                                                 *)
Rows ==
  /\ labels \subseteq Label
  /\ retag = [on |-> retag.on, known |-> retag.known, names |-> retag.names]
  /\ retag.known \subseteq Label
  /\ retag.names \subseteq TagNames
Sendings ==
  /\ sending = [w \in Senders |-> sending[w]]
  /\ \A w \in Senders :
       sending[w] = [at |-> sending[w].at, text |-> sending[w].text,
                     listed |-> sending[w].listed, todo |-> sending[w].todo]

(* There is a post on the site as soon as somebody is past its creation.   *)
Site ==
  \/ remoteText # NoSite
  \/ phase \in {"created", "live"} \/ sending["text"].at # "idle"
  \/ sending["push"].at \in {"tags", "clear", "drop", "add"}
There == Site => remoteText = [text |-> remoteText.text, tags |-> remoteText.tags]
Known == Site /\ Marker \in remoteText.tags => Marked

(* The marker's row is committed before the call that creates the post     *)
(* under it, and goes only after CivitAI has given up the tag.             *)
RowFirst == sending["push"].at = "create" => Marked
TagFirst == sending["push"].at = "drop" => Marker \notin remoteText.tags

MarkerInv == Rows /\ Sendings /\ There /\ RowFirst /\ TagFirst /\ Known

LEMMA Fresh ==
  ASSUME NEW names \in SUBSET (TagNames \cup {Marker})
  PROVE  Unlearned(names) \subseteq Label
<1> SUFFICES ASSUME NEW n \in names PROVE [name |-> n, learned |-> FALSE] \in Label
  BY DEF Unlearned
<1> QED
  BY DEF Label

LEMMA MarkerStart == WordingInit => MarkerInv
<1> SUFFICES ASSUME WordingInit PROVE MarkerInv
  OBVIOUS
<1>1. Rows
  <2>1. labels \subseteq Label
    BY Fresh DEF WordingInit
  <2> QED
    BY <2>1 DEF WordingInit, Rows, NoRetag
<1>2. Sendings
  BY DEF WordingInit, Sendings, Resting
<1>3. There /\ RowFirst /\ TagFirst /\ Known
  BY DEF WordingInit, Resting, There, Site, RowFirst, TagFirst, Known, Senders
<1> QED
  BY <1>1, <1>2, <1>3 DEF MarkerInv

(* What an edit of the tags, an addition and an answer make of the rows.   *)
LEMMA RowFacts ==
  ASSUME Rows, NEW n
  PROVE  /\ Replaced(labels, retag.known, retag.names) \subseteq Label
         /\ Marked => Marker \in NamesOf(Replaced(labels, retag.known, retag.names))
         /\ Learn(labels, n) \subseteq Label
         /\ Marked => Marker \in NamesOf(Learn(labels, n))
         /\ labels \cup Unlearned({Marker}) \subseteq Label
         /\ Marker \in NamesOf(labels \cup Unlearned({Marker}))
         /\ Plain(labels) \subseteq Label
<1>1. \A r \in labels : LET q == IF r.name = n THEN [r EXCEPT !.learned = TRUE] ELSE r
                        IN q \in Label /\ q.name = r.name
  BY DEF Rows, Label
<1>2. Learn(labels, n) \subseteq Label /\ (Marked => Marker \in NamesOf(Learn(labels, n)))
  BY <1>1 DEF Learn, NamesOf, Marked
<1>3. Replaced(labels, retag.known, retag.names) \subseteq Label
  <2>1. Unlearned(retag.names \ NamesOf(retag.known)) \subseteq Label
    BY Fresh DEF Rows
  <2> QED
    BY <2>1 DEF Rows, Replaced
<1>4. Marked => Marker \in NamesOf(Replaced(labels, retag.known, retag.names))
  BY DEF Replaced, Plain, NamesOf, Marked
<1>5. labels \cup Unlearned({Marker}) \subseteq Label /\ Plain(labels) \subseteq Label
  BY Fresh DEF Rows, Plain
<1>6. Marker \in NamesOf(labels \cup Unlearned({Marker}))
  <2>1. [name |-> Marker, learned |-> FALSE] \in Unlearned({Marker})
    BY DEF Unlearned
  <2> QED
    BY <2>1 DEF NamesOf
<1> QED
  BY <1>2, <1>3, <1>4, <1>5, <1>6

(* Edits here, suggestions and the comparison leave the post on the site   *)
(* and the push alone.                                                     *)
LEMMA EditsKeep ==
  ASSUME MarkerInv, Suggestions \/ CompareStarts \/ CompareEnds \/ AdoptSnapshot
                    \/ WriteLabels \/ (\E value \in Texts : EditText(value))
                    \/ \E names \in SUBSET TagNames : ReadLabels(names)
  PROVE  MarkerInv'
<1> USE DEF MarkerInv
<1>1. UNCHANGED <<phase, remoteText, sending>>
  BY DEF Suggestions, CompareStarts, CompareEnds, AdoptSnapshot, WriteLabels, EditText,
         ReadLabels, Propose, Dismiss, AcceptWrites, AcceptMarks
<1>2. Rows' /\ (Marked => Marked')
  <2>1. CASE WriteLabels
    BY <2>1, RowFacts DEF WriteLabels, Rows, NoRetag, Marked
  <2>2. CASE \E names \in SUBSET TagNames : ReadLabels(names)
    BY <2>2 DEF ReadLabels, Rows, Marked, here
  <2>3. CASE UNCHANGED <<labels, retag>>
    BY <2>3 DEF Rows, Marked
  <2> QED
    BY <2>1, <2>2, <2>3 DEF Suggestions, CompareStarts, CompareEnds, AdoptSnapshot, EditText,
       Propose, Dismiss, AcceptWrites, AcceptMarks, here
<1> QED
  BY <1>1, <1>2 DEF Sendings, There, Site, RowFirst, TagFirst, Known, Marked

(* The steps of the push. *)
LEMMA PushKeeps ==
  ASSUME MarkerInv, Pushes
  PROVE  MarkerInv'
<1> USE DEF MarkerInv, Senders
<1>1. CASE Attempt
  <2>1. UNCHANGED <<remoteText, retag>> /\ labels' = labels \cup Unlearned({Marker})
    BY <1>1 DEF Attempt
  <2>2. Rows' /\ Marked'
    BY <2>1, RowFacts DEF Rows, Marked
  <2>3. Sendings' /\ sending'["push"].at = "create" /\ sending'["text"] = sending["text"]
    BY <1>1 DEF Attempt, Sendings
  <2> QED
    BY <1>1, <2>1, <2>2, <2>3 DEF Attempt, There, Site, RowFirst, TagFirst, Known, Marked
<1>2. ASSUME NEW answered \in BOOLEAN, CreatePost(answered) PROVE MarkerInv'
  <2>1. UNCHANGED <<labels, retag>> /\ Marked
    BY <1>2 DEF CreatePost, here, Sent, At, RowFirst
  <2>2. Rows' /\ Marked'
    BY <2>1 DEF Rows, Marked
  <2>3. Sendings' /\ sending'["push"].at \notin {"create", "drop"}
    BY <1>2 DEF CreatePost, Sendings, Resting
  <2>4. remoteText' = [text |-> remoteText'.text, tags |-> remoteText'.tags]
    BY <1>2 DEF CreatePost
  <2> QED
    BY <2>2, <2>3, <2>4 DEF There, Site, RowFirst, TagFirst, Known, Marked
<1>3. ASSUME Resume \/ ClearMarker \/ PushDone \/ \E answered \in BOOLEAN : ReadTags(answered)
      PROVE  MarkerInv'
  <2>1. UNCHANGED <<labels, retag>>
    BY <1>3 DEF Resume, ClearMarker, PushDone, ReadTags, here, Sent
  <2>2. Rows' /\ (Marked => Marked')
    BY <2>1 DEF Rows, Marked
  <2>3. Sendings' /\ sending'["push"].at # "create" /\ sending'["text"] = sending["text"]
    <3>1. CASE Resume \/ ClearMarker \/ PushDone
      BY <3>1 DEF Resume, ClearMarker, PushDone, Sendings, Resting, Goes
    <3>2. ASSUME NEW answered \in BOOLEAN, ReadTags(answered)
          PROVE  Sendings' /\ sending'["push"].at # "create" /\ sending'["text"] = sending["text"]
      BY <3>2 DEF ReadTags, Sendings, Resting
    <3> QED
      BY <1>3, <3>1, <3>2
  <2>4. CASE ClearMarker
    BY <2>2, <2>3, <2>4 DEF ClearMarker, At, There, Site, RowFirst, TagFirst, Known, Marked
  <2>5. CASE Resume
    <3>1. remoteText' = remoteText /\ sending'["push"].at = "tags" /\ Site
      BY <2>5 DEF Resume, Goes, Sendings, Site
    <3> QED
      BY <2>2, <2>3, <3>1 DEF There, Site, RowFirst, TagFirst, Known, Marked
  <2>6. CASE PushDone \/ \E answered \in BOOLEAN : ReadTags(answered)
    <3>1. remoteText' = remoteText /\ sending'["push"].at # "drop"
      <4>1. CASE PushDone
        BY <4>1 DEF PushDone, Sendings, Resting
      <4>2. ASSUME NEW answered \in BOOLEAN, ReadTags(answered)
            PROVE  remoteText' = remoteText /\ sending'["push"].at # "drop"
        BY <4>2 DEF ReadTags, Sendings, Resting
      <4> QED
        BY <2>6, <4>1, <4>2
    <3>2. sending["push"].at \in {"tags", "add"}
      BY <2>6 DEF PushDone, ReadTags, At
    <3> QED
      BY <2>2, <2>3, <3>1, <3>2 DEF There, Site, RowFirst, TagFirst, Known, Marked
  <2> QED
    BY <1>3, <2>4, <2>5, <2>6
<1>4. CASE DropMarker
  <2>1. UNCHANGED <<phase, remoteText, retag>> /\ labels' = Plain(labels)
    BY <1>4 DEF DropMarker, Sent
  <2>2. Marker \notin remoteText.tags
    BY <1>4 DEF DropMarker, At, TagFirst
  <2>3. Sendings' /\ sending'["push"].at = "add" /\ sending'["text"] = sending["text"]
    BY <1>4 DEF DropMarker, Goes, Sendings
  <2>4. Rows'
    BY <2>1, RowFacts DEF Rows
  <2> QED
    BY <1>4, <2>1, <2>2, <2>3, <2>4 DEF DropMarker, At, There, Site, RowFirst, TagFirst, Known
<1> QED
  BY <1>1, <1>2, <1>3, <1>4 DEF Pushes

(* The steps of push_text, the additions of both, a stop, and an edit on   *)
(* the site: none of them adds the marker or takes its row.                *)
LEMMA SendingKeeps ==
  ASSUME MarkerInv,
         \/ ReadText \/ SendText \/ TextDone
         \/ \E gone \in SUBSET (TagNames \cup {Marker}) : RemoveTags(gone)
         \/ \E w \in Senders : Stop(w)
                               \/ \E name \in TagNames, taken \in BOOLEAN : AddTag(w, name, taken)
         \/ \E said \in Said : Marker \notin said.tags /\ EditOnSite(said)
  PROVE  MarkerInv'
<1> USE DEF MarkerInv, Senders
<1>1. ASSUME ReadText \/ SendText \/ TextDone
             \/ \E gone \in SUBSET (TagNames \cup {Marker}) : RemoveTags(gone)
      PROVE  MarkerInv'
  <2>1. UNCHANGED <<labels, retag>>
    BY <1>1 DEF ReadText, SendText, TextDone, RemoveTags, here, Sent
  <2>2. Rows' /\ (Marked => Marked')
    BY <2>1 DEF Rows, Marked
  <2>3. Sendings' /\ sending'["push"] = sending["push"]
    <3>1. CASE ReadText
      <4> DEFINE sent == [Resting EXCEPT !.at = "sent", !.text = text]
      <4>1. sent = [at |-> sent.at, text |-> sent.text, listed |-> sent.listed, todo |-> sent.todo]
        <5>1. Resting \in [at : {"idle"}, text : {Resting.text}, listed : {{}}, todo : {{}}]
          BY DEF Resting
        <5>2. sent \in [at : {"sent"}, text : {text}, listed : {{}}, todo : {{}}]
          BY <5>1
        <5> HIDE DEF sent
        <5> QED
          BY <5>2
      <4>2. sending' = [sending EXCEPT !["text"] = sent]
        BY <3>1 DEF ReadText
      <4> HIDE DEF sent
      <4> QED
        BY <4>1, <4>2 DEF Sendings
    <3>4. CASE TextDone
      BY <3>4 DEF TextDone, Sendings, Resting
    <3>2. CASE SendText
      BY <3>2 DEF SendText, Sendings
    <3>3. ASSUME NEW gone, RemoveTags(gone)
          PROVE  Sendings' /\ sending'["push"] = sending["push"]
      BY <3>3 DEF RemoveTags, Sendings
    <3> QED
      BY <1>1, <3>1, <3>2, <3>3, <3>4
  <2>4. Site /\ remoteText = [text |-> remoteText.text, tags |-> remoteText.tags]
    BY <1>1 DEF ReadText, SendText, TextDone, RemoveTags, At, There, Site
  <2>5. /\ remoteText' = [text |-> remoteText'.text, tags |-> remoteText'.tags]
        /\ remoteText'.tags \subseteq remoteText.tags
    BY <1>1, <2>4 DEF ReadText, SendText, TextDone, RemoveTags, At
  <2> QED
    BY <2>2, <2>3, <2>4, <2>5 DEF There, Site, RowFirst, TagFirst, Known, Marked
<1>2. ASSUME NEW w \in Senders, Stop(w) PROVE MarkerInv'
  <2>1. UNCHANGED <<labels, retag, remoteText, phase>>
    BY <1>2 DEF Stop, here, Sent
  <2>2. Sendings' /\ sending'[w].at = "idle"
        /\ \A v \in Senders : v # w => sending'[v] = sending[v]
    BY <1>2 DEF Stop, Sendings, Resting
  <2> QED
    BY <2>1, <2>2 DEF Rows, There, Site, RowFirst, TagFirst, Known, Marked
<1>3. ASSUME NEW w \in Senders, NEW name \in TagNames, NEW taken \in BOOLEAN,
             AddTag(w, name, taken)
      PROVE  MarkerInv'
  <2>1. Rows' /\ (Marked => Marked')
    BY <1>3, RowFacts DEF AddTag, Rows, Marked, Sent
  <2>2. Sendings' /\ \A v \in Senders : sending'[v].at = sending[v].at
    <3>1. sending' = [sending EXCEPT ![w].todo = @ \ {name}]
      BY <1>3 DEF AddTag
    <3>2. \A v \in Senders : v # w => sending'[v] = sending[v]
      BY <3>1 DEF Sendings
    <3>3. sending'[w] = [sending[w] EXCEPT !.todo = @ \ {name}]
      BY <3>1 DEF Sendings
    <3>4. sending'[w] = [at |-> sending[w].at, text |-> sending[w].text,
                         listed |-> sending[w].listed, todo |-> sending[w].todo \ {name}]
      BY <3>3 DEF Sendings
    <3>5. sending' = [v \in Senders |-> sending'[v]]
      BY <3>1 DEF Sendings
    <3> QED
      BY <3>2, <3>4, <3>5 DEF Sendings
  <2>3. Site /\ remoteText = [text |-> remoteText.text, tags |-> remoteText.tags]
    BY <1>3 DEF AddTag, At, There, Site
  <2>4. /\ remoteText' = [text |-> remoteText'.text, tags |-> remoteText'.tags]
        /\ Marker \in remoteText'.tags => Marker \in remoteText.tags
    BY <1>3, <2>3 DEF AddTag
  <2> QED
    BY <2>1, <2>2, <2>3, <2>4 DEF There, Site, RowFirst, TagFirst, Known
<1>4. ASSUME NEW said \in Said, Marker \notin said.tags, EditOnSite(said) PROVE MarkerInv'
  <2>1. UNCHANGED <<labels, retag, sending, phase>> /\ remoteText' = said
    BY <1>4 DEF EditOnSite, here
  <2> QED
    BY <1>4, <2>1 DEF Said, Rows, Sendings, There, Site, RowFirst, TagFirst, Known, Marked
<1> QED
  BY <1>1, <1>2, <1>3, <1>4

LEMMA MarkerKept == MarkerInv /\ [WordingNext]_wordingVars => MarkerInv'
<1> SUFFICES ASSUME MarkerInv, [WordingNext]_wordingVars PROVE MarkerInv'
  OBVIOUS
<1>1. CASE UNCHANGED wordingVars
  BY <1>1 DEF wordingVars, here, MarkerInv, Rows, Sendings, There, Site, RowFirst, TagFirst,
              Known, Marked
<1> QED
  BY <1>1, EditsKeep, PushKeeps, SendingKeeps DEF WordingNext, Sends, Edits

(* The inductive invariant of the marker: its row is written before the    *)
(* call and goes after the tag (push._attempt_create, _clear_marker).      *)
THEOREM MarkerInvariant == WordingSpec => []MarkerInv
<1> QED
  BY MarkerStart, MarkerKept, PTL DEF WordingSpec

(* While CivitAI's post carries the marker, its row is still here, so that *)
(* a later run can find the post and clear it (store/posts.py              *)
(* add_transient_tag, set_tags).                                           *)
THEOREM MarkerIsKnown == WordingSpec => []MarkerStays
<1>1. MarkerInv => MarkerStays
  BY DEF MarkerInv, Known, Site, Marked, MarkerStays
<1> QED
  BY <1>1, MarkerInvariant, PTL

(* The types of the text and the tags.  A tag has one row, and the marker  *)
(* has no id of its own; whoever is past the creation of the post finds    *)
(* one on the site.                                                        *)
OneRowEach(table) ==
  /\ table \subseteq Label
  /\ \A r, q \in table : r.name = q.name => r = q
  /\ \A r \in table : r.name = Marker => ~r.learned
HereTyped ==
  /\ text \in Texts /\ dirty \in BOOLEAN
  /\ OneRowEach(labels) /\ OneRowEach(retag.known)
  /\ retag \in [on : BOOLEAN, known : SUBSET Label, names : SUBSET TagNames]
SiteTyped ==
  /\ base \in Said \cup {NoSite} /\ snapshot \in Said \cup {NoSite} /\ diverged \in BOOLEAN
  /\ phase \in {"plan", "attempted", "created", "live"}
  /\ remoteText \in Said \cup {NoSite}
  /\ comparing \in [on : BOOLEAN, base : Said \cup {NoSite}]
  /\ Site => remoteText \in Said
SendTyped == sending \in [Senders -> Sending]
AskTyped ==
  /\ DOMAIN proposals \subseteq 1 .. MaxWords
  /\ \A p \in DOMAIN proposals : proposals[p] \in Proposal
  /\ accepting \in [Clerks -> 0 .. MaxWords]
  /\ words \in 0 .. MaxWords /\ calls \in 0 .. MaxPosts /\ foreign \in 0 .. MaxForeign
WordingTyped == HereTyped /\ SiteTyped /\ SendTyped /\ AskTyped

(* What is asked of set_tags, an added tag and the marker leave each tag   *)
(* its row.                                                                *)
LEMMA FreshRows ==
  ASSUME NEW names \in SUBSET (TagNames \cup {Marker})
  PROVE  /\ OneRowEach(Unlearned(names))
         /\ \A r \in Unlearned(names) : r.name \in names /\ r.learned = FALSE
<1>1. \A r \in Unlearned(names) : \E n \in names : r = [name |-> n, learned |-> FALSE]
  BY DEF Unlearned
<1>2. ASSUME NEW r \in Unlearned(names) PROVE r.name \in names /\ r.learned = FALSE
  BY <1>1
<1>3. Unlearned(names) \subseteq Label
  BY Fresh
<1>4. ASSUME NEW r \in Unlearned(names), NEW q \in Unlearned(names), r.name = q.name PROVE r = q
  <2>1. PICK n \in names : r = [name |-> n, learned |-> FALSE]
    BY <1>1
  <2>2. PICK k \in names : q = [name |-> k, learned |-> FALSE]
    BY <1>1
  <2>3. n = k
    BY <1>4, <2>1, <2>2
  <2>4. QED
    BY <2>1, <2>2, <2>3, Zenon
<1>5. QED
  BY <1>2, <1>3, <1>4 DEF OneRowEach

LEMMA TagRows ==
  ASSUME NEW table, OneRowEach(table)
  PROVE  /\ OneRowEach(Plain(table))
         /\ OneRowEach(table \cup Unlearned({Marker}))
         /\ \A n \in TagNames : OneRowEach(Learn(table, n))
         /\ NamesOf(table) \subseteq TagNames \cup {Marker}
         /\ NamesOf(Plain(table)) \subseteq TagNames
         /\ NamesOf({r \in Plain(table) : ~r.learned}) \subseteq TagNames
<1>1. OneRowEach(Plain(table))
  BY DEF OneRowEach, Plain
<1>2. OneRowEach(table \cup Unlearned({Marker}))
  <2>1. \A r \in table, q \in Unlearned({Marker}) : r.name = q.name => r = q
    <3>1. ASSUME NEW r \in table, NEW q \in Unlearned({Marker}), r.name = q.name PROVE r = q
      <4>1. q = [name |-> Marker, learned |-> FALSE]
        BY DEF Unlearned
      <4>2. r \in Label /\ r.name = Marker /\ ~r.learned
        BY <3>1, <4>1 DEF OneRowEach
      <4>3. QED
        BY <4>1, <4>2 DEF Label
    <3>2. QED
      BY <3>1
  <2>2. OneRowEach(Unlearned({Marker}))
    BY FreshRows
  <2>3. QED
    BY <2>1, <2>2 DEF OneRowEach
<1>3. ASSUME NEW n \in TagNames PROVE OneRowEach(Learn(table, n))
  <2> DEFINE Now(r) == IF r.name = n THEN [r EXCEPT !.learned = TRUE] ELSE r
  <2>1. ASSUME NEW r \in table PROVE Now(r) \in Label /\ Now(r).name = r.name /\ (r.name = Marker => Now(r) = r)
    <3>1. r \in Label
      BY DEF OneRowEach
    <3>2. QED
      BY <3>1 DEF Label
  <2>2. Learn(table, n) = {Now(r) : r \in table}
    BY DEF Learn
  <2> HIDE DEF Now
  <2>3. QED
    BY <2>1, <2>2 DEF OneRowEach
<1>4. NamesOf(table) \subseteq TagNames \cup {Marker} /\ NamesOf(Plain(table)) \subseteq TagNames
  BY DEF OneRowEach, NamesOf, Plain, Label
<1>5. NamesOf({r \in Plain(table) : ~r.learned}) \subseteq TagNames
  BY DEF OneRowEach, NamesOf, Plain, Label
<1>6. QED
  BY <1>1, <1>2, <1>3, <1>4, <1>5

LEMMA ReplacedRows ==
  ASSUME NEW table, OneRowEach(table), NEW known, OneRowEach(known), NEW names \in SUBSET TagNames
  PROVE  OneRowEach(Replaced(table, known, names))
<1> DEFINE left == table \ Plain(table)
           old == {r \in known : r.name \in names}
           new == Unlearned(names \ NamesOf(known))
<1>1. \A r \in left : r \in table /\ r.name = Marker
  BY DEF Plain
<1>2. \A r \in old : r \in known /\ r.name \in names /\ r.name # Marker
  OBVIOUS
<1>3. OneRowEach(new) /\ \A r \in new : r.name \in names \ NamesOf(known)
  <2>1. names \ NamesOf(known) \in SUBSET (TagNames \cup {Marker})
    OBVIOUS
  <2>2. QED
    BY <2>1, FreshRows
<1>4. \A r \in old, q \in new : r.name # q.name
  <2>1. \A r \in old : r.name \in NamesOf(known)
    BY DEF NamesOf
  <2>2. QED
    BY <1>3, <2>1
<1>5. Replaced(table, known, names) = left \cup old \cup new
  BY DEF Replaced
<1> HIDE DEF left, old, new
<1>6. QED
  BY <1>1, <1>2, <1>3, <1>4, <1>5 DEF OneRowEach

LEMMA WordingTypedStart == WordingInit => WordingTyped
<1> SUFFICES ASSUME WordingInit PROVE WordingTyped
  OBVIOUS
<1>1. PICK names \in SUBSET TagNames : labels = Unlearned(names)
  BY DEF WordingInit
<1>2. OneRowEach(labels)
  <2>1. names \in SUBSET (TagNames \cup {Marker})
    OBVIOUS
  <2>2. QED
    BY <1>1, <2>1, FreshRows
<1>3. retag = NoRetag /\ OneRowEach({}) /\ NoRetag.known = {}
  BY DEF WordingInit, OneRowEach, NoRetag
<1>4. NoRetag \in [on : BOOLEAN, known : SUBSET Label, names : SUBSET TagNames]
  BY DEF NoRetag
<1>5. HereTyped
  BY <1>2, <1>3, <1>4 DEF HereTyped, WordingInit
<1>6. Resting \in Sending /\ Resting.at = "idle"
  <2>1. (CHOOSE t \in Texts : TRUE) \in Texts
    OBVIOUS
  <2>2. QED
    BY <2>1 DEF Resting, Sending
<1>7. SendTyped
  BY <1>6 DEF SendTyped, WordingInit
<1>8. NotComparing \in [on : BOOLEAN, base : Said \cup {NoSite}]
  BY DEF NotComparing
<1>9. ~Site
  BY <1>6 DEF Site, WordingInit, Senders
<1>10. SiteTyped
  BY <1>8, <1>9 DEF SiteTyped, WordingInit
<1>11. AskTyped
  BY DEF AskTyped, WordingInit
<1>12. QED
  BY <1>5, <1>7, <1>10, <1>11 DEF WordingTyped

LEMMA HereStep ==
  ASSUME WordingTyped, [WordingNext]_wordingVars
  PROVE  HereTyped'
<1>1. /\ text \in Texts /\ dirty \in BOOLEAN
      /\ OneRowEach(labels) /\ OneRowEach(retag.known)
      /\ retag \in [on : BOOLEAN, known : SUBSET Label, names : SUBSET TagNames]
  BY DEF WordingTyped, HereTyped
<1>2. ASSUME text' \in Texts, dirty' \in BOOLEAN, OneRowEach(labels'), retag' = retag
      PROVE  HereTyped'
  BY <1>1, <1>2 DEF HereTyped, OneRowEach
<1>3. ASSUME NEW value \in Texts, EditText(value) PROVE HereTyped'
  BY <1>1, <1>2, <1>3 DEF EditText, Update
<1>4. ASSUME NEW names \in SUBSET TagNames, ReadLabels(names) PROVE HereTyped'
  <2>1. retag' = [on |-> TRUE, known |-> labels, names |-> names] /\ UNCHANGED <<text, labels, dirty>>
    BY <1>4 DEF ReadLabels, here
  <2>2. retag' \in [on : BOOLEAN, known : SUBSET Label, names : SUBSET TagNames]
    BY <1>1, <2>1 DEF OneRowEach
  <2>3. retag'.known = labels
    BY <2>1
  <2>4. QED
    BY <1>1, <2>1, <2>2, <2>3 DEF HereTyped, OneRowEach
<1>5. ASSUME WriteLabels PROVE HereTyped'
  <2>1. /\ labels' = Replaced(labels, retag.known, retag.names) /\ dirty' \in BOOLEAN
        /\ retag' = NoRetag /\ text' = text
    BY <1>5 DEF WriteLabels
  <2>2. OneRowEach(labels')
    BY <1>1, <2>1, ReplacedRows
  <2>3. NoRetag \in [on : BOOLEAN, known : SUBSET Label, names : SUBSET TagNames] /\ NoRetag.known = {}
    BY DEF NoRetag
  <2>4. QED
    BY <1>1, <2>1, <2>2, <2>3 DEF HereTyped, OneRowEach
<1>6. ASSUME NEW p \in DOMAIN proposals, NEW c \in Clerks, AcceptWrites(c, p) PROVE HereTyped'
  <2>1. proposals[p].text \in Texts
    BY DEF WordingTyped, AskTyped, Proposal
  <2>2. QED
    BY <1>1, <1>2, <1>6, <2>1 DEF AcceptWrites, Update
<1>7. ASSUME Attempt \/ DropMarker PROVE HereTyped'
  <2>1. labels' \in {labels \cup Unlearned({Marker}), Plain(labels)} /\ UNCHANGED <<text, dirty, retag>>
    BY <1>7 DEF Attempt, DropMarker, Sent
  <2>2. QED
    BY <1>1, <1>2, <2>1, TagRows
<1>8. ASSUME NEW w \in Senders, NEW name \in TagNames, NEW taken \in BOOLEAN, AddTag(w, name, taken)
      PROVE  HereTyped'
  <2>1. labels' \in {labels, Learn(labels, name)} /\ UNCHANGED <<text, dirty, retag>>
    BY <1>8 DEF AddTag, Sent
  <2>2. OneRowEach(Learn(labels, name))
    BY <1>1, TagRows
  <2>3. QED
    BY <1>1, <1>2, <2>1, <2>2
<1>9. ASSUME PushDone \/ TextDone PROVE HereTyped'
  <2>1. UNCHANGED <<text, labels, retag>> /\ dirty' \in BOOLEAN
    BY <1>1, <1>9 DEF PushDone, TextDone, Sent
  <2>2. QED
    BY <1>1, <1>2, <2>1
<1>10. ASSUME AdoptSnapshot PROVE HereTyped'
  <2>1. text' = snapshot.text /\ snapshot \in Said /\ UNCHANGED <<labels, retag>> /\ dirty' \in BOOLEAN
    BY <1>10 DEF AdoptSnapshot, WordingTyped, SiteTyped
  <2>2. text' \in Texts
    BY <2>1 DEF Said
  <2>3. QED
    BY <1>1, <1>2, <2>1, <2>2
<1>11. ASSUME UNCHANGED <<text, labels, dirty, retag>> PROVE HereTyped'
  BY <1>1, <1>2, <1>11
<1>12. QED
  <2>1. CASE UNCHANGED wordingVars
    BY <1>11, <2>1 DEF wordingVars, here
  <2>2. CASE Pushes
    <3>1. ASSUME NEW answered \in BOOLEAN, CreatePost(answered) \/ ReadTags(~answered)
          PROVE  HereTyped'
      BY <1>11, <3>1 DEF CreatePost, ReadTags, here, Sent
    <3>2. ASSUME Resume \/ ClearMarker PROVE HereTyped'
      BY <1>11, <3>2 DEF Resume, ClearMarker, here, Sent
    <3>3. QED
      BY <1>7, <1>9, <2>2, <3>1, <3>2 DEF Pushes
  <2>3. CASE Sends
    <3>1. ASSUME ReadText \/ SendText \/ CompareStarts \/ CompareEnds PROVE HereTyped'
      BY <1>11, <3>1 DEF ReadText, SendText, CompareStarts, CompareEnds, here, Sent
    <3>2. ASSUME NEW gone, RemoveTags(gone) PROVE HereTyped'
      BY <1>11, <3>2 DEF RemoveTags, here, Sent
    <3>3. ASSUME NEW w \in Senders, Stop(w) PROVE HereTyped'
      BY <1>11, <3>3 DEF Stop, here, Sent
    <3>4. QED
      BY <1>8, <1>9, <1>10, <2>3, <3>1, <3>2, <3>3 DEF Sends
  <2>4. CASE Suggestions
    <3>1. ASSUME NEW value, Propose(value) PROVE HereTyped'
      BY <1>11, <3>1 DEF Propose, here
    <3>2. ASSUME NEW p, Dismiss(p) PROVE HereTyped'
      BY <1>11, <3>2 DEF Dismiss, here
    <3>3. ASSUME NEW c \in Clerks, AcceptMarks(c) PROVE HereTyped'
      BY <1>11, <3>3 DEF AcceptMarks, here
    <3>4. QED
      BY <1>6, <2>4, <3>1, <3>2, <3>3 DEF Suggestions
  <2>5. CASE Edits
    <3>1. ASSUME NEW said, EditOnSite(said) PROVE HereTyped'
      BY <1>11, <3>1 DEF EditOnSite, here
    <3>2. QED
      BY <1>3, <1>4, <1>5, <2>5, <3>1 DEF Edits
  <2>6. QED
    BY <2>1, <2>2, <2>3, <2>4, <2>5 DEF WordingNext

LEMMA SiteStep ==
  ASSUME WordingTyped, [WordingNext]_wordingVars
  PROVE  SiteTyped'
<1>1. /\ base \in Said \cup {NoSite} /\ snapshot \in Said \cup {NoSite} /\ diverged \in BOOLEAN
      /\ phase \in {"plan", "attempted", "created", "live"}
      /\ remoteText \in Said \cup {NoSite}
      /\ comparing \in [on : BOOLEAN, base : Said \cup {NoSite}]
      /\ Site => remoteText \in Said
      /\ sending \in [Senders -> Sending]
  BY DEF WordingTyped, SiteTyped, SendTyped
<1>2. ASSUME base' \in Said \cup {NoSite}, snapshot' \in Said \cup {NoSite}, diverged' \in BOOLEAN,
             phase' \in {"plan", "attempted", "created", "live"}, comparing' = comparing,
             remoteText' \in Said
      PROVE  SiteTyped'
  BY <1>1, <1>2 DEF SiteTyped
<1>3. ASSUME UNCHANGED <<base, snapshot, diverged, phase, comparing, remoteText>>, Site' => Site
      PROVE  SiteTyped'
  BY <1>1, <1>3 DEF SiteTyped
<1>4. ASSUME Site PROVE remoteText \in Said /\ remoteText.text \in Texts
                        /\ remoteText.tags \in SUBSET (TagNames \cup {Marker})
  BY <1>1, <1>4 DEF Said
<1>5. \A said \in Said :
        /\ \A tags \in SUBSET (TagNames \cup {Marker}) : [said EXCEPT !.tags = tags] \in Said
        /\ \A words1 \in Texts : [said EXCEPT !.text = words1] \in Said
  BY DEF Said
<1>6. ASSUME Attempt PROVE SiteTyped'
  <2>1. /\ UNCHANGED <<base, snapshot, diverged, comparing, remoteText>> /\ phase' = "attempted"
        /\ sending'["push"].at = "create" /\ sending'["text"] = sending["text"]
    BY <1>1, <1>6 DEF Attempt, believed, Senders
  <2>2. Site' => Site
    BY <2>1 DEF Site
  <2>3. QED
    BY <1>1, <2>1, <2>2 DEF SiteTyped
<1>7. ASSUME NEW answered \in BOOLEAN, CreatePost(answered) PROVE SiteTyped'
  <2>1. remoteText' = [text |-> sending["push"].text, tags |-> sending["push"].listed \cup {Marker}]
    BY <1>7 DEF CreatePost
  <2>2. sending["push"].text \in Texts /\ sending["push"].listed \subseteq TagNames \cup {Marker}
    BY <1>1 DEF Senders, Sending
  <2>3. remoteText' \in Said
    BY <2>1, <2>2 DEF Said
  <2>4. QED
    BY <1>1, <1>2, <1>7, <2>3 DEF CreatePost, believed, Sent
<1>8. ASSUME Resume PROVE SiteTyped'
  <2>1. Site /\ UNCHANGED <<base, snapshot, diverged, comparing, remoteText>> /\ phase' = "created"
    BY <1>8 DEF Resume, Site, believed
  <2>2. QED
    BY <1>1, <1>2, <1>4, <2>1
<1>9. ASSUME NEW skipped \in BOOLEAN, ReadTags(skipped) PROVE SiteTyped'
  <2>1. Site /\ UNCHANGED <<base, snapshot, diverged, phase, comparing, remoteText>>
    BY <1>9 DEF ReadTags, At, Site, believed, Sent
  <2>2. QED
    BY <1>3, <2>1
<1>10. ASSUME ClearMarker PROVE SiteTyped'
  <2>1. Site /\ UNCHANGED <<base, snapshot, diverged, phase, comparing>>
        /\ remoteText' = [remoteText EXCEPT !.tags = remoteText.tags \ {Marker}]
    BY <1>10 DEF ClearMarker, At, Site, believed, Sent
  <2>2. remoteText' \in Said
    BY <1>4, <1>5, <2>1
  <2>3. QED
    BY <1>1, <1>2, <2>1, <2>2
<1>11. ASSUME DropMarker PROVE SiteTyped'
  <2>1. Site /\ UNCHANGED <<base, snapshot, diverged, phase, comparing, remoteText>>
    BY <1>11 DEF DropMarker, At, Site, believed, Sent
  <2>2. QED
    BY <1>3, <2>1
<1>12. ASSUME NEW w \in Senders, NEW name \in TagNames, NEW taken \in BOOLEAN, AddTag(w, name, taken)
       PROVE  SiteTyped'
  <2>1. Site /\ UNCHANGED <<base, snapshot, diverged, phase, comparing>>
        /\ remoteText' \in {remoteText, [remoteText EXCEPT !.tags = remoteText.tags \cup {name}]}
    BY <1>12 DEF AddTag, At, Site, believed, Sent, Senders
  <2>2. remoteText.tags \cup {name} \in SUBSET (TagNames \cup {Marker})
    BY <1>4, <2>1
  <2>3. remoteText' \in Said
    BY <1>4, <1>5, <2>1, <2>2
  <2>4. QED
    BY <1>1, <1>2, <2>1, <2>3
<1>13. ASSUME PushDone PROVE SiteTyped'
  <2>1. Site /\ UNCHANGED <<comparing, remoteText>> /\ phase' = "live"
        /\ base' = remoteText /\ snapshot' = remoteText /\ diverged' \in BOOLEAN
    BY <1>13 DEF PushDone, At, Site, Sent, Differs
  <2>2. QED
    BY <1>1, <1>2, <1>4, <2>1
<1>14. ASSUME NEW w \in Senders, Stop(w) PROVE SiteTyped'
  <2>1. /\ UNCHANGED <<base, snapshot, diverged, phase, comparing, remoteText>>
        /\ sending' = [sending EXCEPT ![w] = Resting]
    BY <1>14 DEF Stop, believed, Sent
  <2>2. \A v \in Senders : sending'[v] = sending[v] \/ sending'[v].at = "idle"
    BY <1>1, <2>1 DEF Resting
  <2>3. Site' => Site
    BY <2>1, <2>2 DEF Site, Senders
  <2>4. QED
    BY <1>3, <2>1, <2>3
<1>15. ASSUME ReadText PROVE SiteTyped'
  <2>1. Site /\ UNCHANGED <<base, snapshot, diverged, phase, comparing, remoteText>>
    BY <1>15 DEF ReadText, Site, believed
  <2>2. QED
    BY <1>3, <2>1
<1>16. ASSUME SendText PROVE SiteTyped'
  <2>1. /\ Site /\ UNCHANGED <<snapshot, diverged, phase, comparing>>
        /\ remoteText' = [remoteText EXCEPT !.text = sending["text"].text]
        /\ base' = IF base = NoSite THEN base ELSE [base EXCEPT !.text = sending["text"].text]
    BY <1>16 DEF SendText, At, Site, Sent
  <2>2. sending["text"].text \in Texts
    BY <1>1 DEF Senders, Sending
  <2>3. remoteText' \in Said
    BY <1>4, <1>5, <2>1, <2>2
  <2>4. base' \in Said \cup {NoSite}
    <3>1. CASE base = NoSite
      BY <2>1, <3>1
    <3>2. CASE base # NoSite
      <4>1. base \in Said /\ base' = [base EXCEPT !.text = sending["text"].text]
        BY <1>1, <2>1, <3>2
      <4>2. QED
        BY <1>5, <2>2, <4>1
    <3>3. QED
      BY <3>1, <3>2
  <2>5. QED
    BY <1>1, <1>2, <2>1, <2>3, <2>4
<1>17. ASSUME NEW gone \in SUBSET (TagNames \cup {Marker}), RemoveTags(gone) PROVE SiteTyped'
  <2>1. Site /\ UNCHANGED <<base, snapshot, diverged, phase, comparing>>
        /\ remoteText' = [remoteText EXCEPT !.tags = remoteText.tags \ gone]
    BY <1>17 DEF RemoveTags, At, Site, believed, Sent
  <2>2. remoteText.tags \ gone \in SUBSET (TagNames \cup {Marker})
    BY <1>4, <2>1
  <2>3. remoteText' \in Said
    BY <1>4, <1>5, <2>1, <2>2
  <2>4. QED
    BY <1>1, <1>2, <2>1, <2>3
<1>18. ASSUME TextDone PROVE SiteTyped'
  <2>1. Site /\ UNCHANGED <<phase, comparing, remoteText>>
        /\ base' \in {base, remoteText} /\ snapshot' \in {snapshot, remoteText} /\ diverged' \in BOOLEAN
    BY <1>1, <1>18 DEF TextDone, At, Site, believed, Sent
  <2>2. QED
    BY <1>1, <1>2, <1>4, <2>1
<1>19. ASSUME CompareStarts \/ CompareEnds PROVE SiteTyped'
  <2>1. UNCHANGED <<base, phase, remoteText, sending>>
        /\ snapshot' \in {snapshot, remoteText} /\ diverged' \in BOOLEAN
    BY <1>1, <1>19 DEF CompareStarts, CompareEnds, believed, Differs
  <2>2. comparing' = [on |-> TRUE, base |-> base] \/ comparing' = [on |-> FALSE, base |-> NoSite]
    BY <1>19 DEF CompareStarts, CompareEnds, NotComparing
  <2>3. comparing' \in [on : BOOLEAN, base : Said \cup {NoSite}]
    <3>1. CASE comparing' = [on |-> TRUE, base |-> base]
      BY <1>1, <3>1
    <3>2. CASE comparing' = [on |-> FALSE, base |-> NoSite]
      BY <3>2
    <3>3. QED
      BY <2>2, <3>1, <3>2
  <2>4. Site' => Site
    BY <2>1 DEF Site
  <2>5. QED
    BY <1>1, <2>1, <2>3, <2>4 DEF SiteTyped
<1>20. ASSUME AdoptSnapshot PROVE SiteTyped'
  <2>1. UNCHANGED <<snapshot, phase, remoteText, sending, comparing>>
        /\ base' = snapshot /\ diverged' \in BOOLEAN
    BY <1>20 DEF AdoptSnapshot
  <2>2. Site' => Site
    BY <2>1 DEF Site
  <2>3. QED
    BY <1>1, <2>1, <2>2 DEF SiteTyped
<1>21. ASSUME NEW said \in Said, EditOnSite(said) PROVE SiteTyped'
  <2>1. UNCHANGED <<base, snapshot, diverged, phase, comparing>> /\ remoteText' = said
    BY <1>21 DEF EditOnSite, believed
  <2>2. QED
    BY <1>1, <1>2, <2>1
<1>22. ASSUME UNCHANGED <<believed, phase, comparing, remoteText, sending>> PROVE SiteTyped'
  <2>1. Site' => Site
    BY <1>22 DEF Site
  <2>2. QED
    BY <1>3, <1>22, <2>1 DEF believed
<1>23. ASSUME Suggestions \/ WriteLabels \/ (\E value \in Texts : EditText(value))
              \/ (\E names \in SUBSET TagNames : ReadLabels(names)) \/ UNCHANGED wordingVars
       PROVE  SiteTyped'
  BY <1>22, <1>23 DEF Suggestions, Propose, Dismiss, AcceptWrites, AcceptMarks, WriteLabels, EditText,
                      ReadLabels, wordingVars
<1>24. QED
  <2>1. CASE Pushes
    BY <1>6, <1>7, <1>8, <1>9, <1>10, <1>11, <1>13, <2>1 DEF Pushes
  <2>2. CASE Sends
    BY <1>12, <1>14, <1>15, <1>16, <1>17, <1>18, <1>19, <1>20, <2>2 DEF Sends
  <2>3. CASE Edits
    BY <1>21, <1>23, <2>3 DEF Edits
  <2>4. QED
    BY <1>23, <2>1, <2>2, <2>3 DEF WordingNext

LEMMA SendStep ==
  ASSUME WordingTyped, [WordingNext]_wordingVars
  PROVE  SendTyped'
<1>1. /\ sending \in [Senders -> Sending] /\ text \in Texts /\ OneRowEach(labels)
      /\ Site => remoteText \in Said
  BY DEF WordingTyped, SendTyped, HereTyped, SiteTyped
<1> DEFINE Stages == {"idle", "create", "sent", "tags", "clear", "drop", "add"}
           All == TagNames \cup {Marker}
<1>2. \A s \in Sending :
        /\ \A at \in Stages : [s EXCEPT !.at = at] \in Sending
        /\ \A at \in Stages, value \in Texts : [s EXCEPT !.at = at, !.text = value] \in Sending
        /\ \A at \in Stages, listed \in SUBSET All : [s EXCEPT !.at = at, !.listed = listed] \in Sending
        /\ \A at \in Stages, todo \in SUBSET TagNames : [s EXCEPT !.at = at, !.todo = todo] \in Sending
        /\ \A todo \in SUBSET TagNames : [s EXCEPT !.todo = todo] \in Sending
        /\ s.todo \in SUBSET TagNames /\ s.listed \in SUBSET All
  BY DEF Sending
<1>3. ASSUME NEW w \in Senders, NEW s \in Sending, sending' = [sending EXCEPT ![w] = s]
      PROVE  SendTyped'
  BY <1>1, <1>3 DEF SendTyped
<1>4. Resting \in Sending
  <2>1. (CHOOSE t \in Texts : TRUE) \in Texts
    OBVIOUS
  <2>2. QED
    BY <2>1 DEF Resting, Sending
<1>5. "push" \in Senders /\ "text" \in Senders
  BY DEF Senders
<1>6. sending["push"] \in Sending /\ sending["text"] \in Sending
  BY <1>1, <1>5
<1>7. NamesOf(labels) \in SUBSET All /\ NamesOf(Plain(labels)) \in SUBSET TagNames
      /\ NamesOf({r \in Plain(labels) : ~r.learned}) \in SUBSET TagNames
  BY <1>1, TagRows
<1>8. ASSUME NEW w \in Senders, NEW step \in Stages, Goes(w, step) PROVE SendTyped'
  <2>1. sending[w] \in Sending
    BY <1>1
  <2>2. [sending[w] EXCEPT !.at = step] \in Sending
    BY <1>2, <2>1
  <2>3. sending' = [sending EXCEPT ![w] = [sending[w] EXCEPT !.at = step]]
    BY <1>8 DEF Goes
  <2>4. QED
    BY <1>3, <2>2, <2>3
<1>9. ASSUME Attempt PROVE SendTyped'
  <2> DEFINE s == [at |-> "create", text |-> text, listed |-> NamesOf(labels), todo |-> {}]
  <2>1. s \in Sending
    BY <1>1, <1>7 DEF Sending
  <2>2. sending' = [sending EXCEPT !["push"] = s]
    BY <1>9 DEF Attempt
  <2> HIDE DEF s
  <2>3. QED
    BY <1>3, <1>5, <2>1, <2>2
<1>10. ASSUME NEW answered \in BOOLEAN, CreatePost(answered) PROVE SendTyped'
  <2> DEFINE s == IF answered THEN [Resting EXCEPT !.at = "tags"] ELSE Resting
  <2>1. s \in Sending
    BY <1>2, <1>4
  <2>2. sending' = [sending EXCEPT !["push"] = s]
    BY <1>10 DEF CreatePost
  <2> HIDE DEF s
  <2>3. QED
    BY <1>3, <1>5, <2>1, <2>2
<1>11. ASSUME NEW skipped \in BOOLEAN, ReadTags(skipped) PROVE SendTyped'
  <2> DEFINE at1 == IF Marker \in NamesOf(labels) THEN "clear" ELSE "add"
             todo1 == IF skipped THEN {} ELSE NamesOf({r \in Plain(labels) : ~r.learned})
             s == [Resting EXCEPT !.at = at1, !.todo = todo1]
  <2>1. sending' = [sending EXCEPT !["push"] = s]
    BY <1>11 DEF ReadTags
  <2>2. at1 \in Stages /\ todo1 \in SUBSET TagNames
    BY <1>7
  <2> HIDE DEF at1, todo1
  <2>3. s \in Sending
    BY <1>2, <1>4, <2>2
  <2> HIDE DEF s
  <2>4. QED
    BY <1>3, <1>5, <2>1, <2>3
<1>12. ASSUME NEW w \in Senders, NEW name \in TagNames, NEW taken \in BOOLEAN, AddTag(w, name, taken)
       PROVE  SendTyped'
  <2> DEFINE s == [sending[w] EXCEPT !.todo = sending[w].todo \ {name}]
  <2>1. sending' = [sending EXCEPT ![w] = s]
    BY <1>12 DEF AddTag
  <2>2. sending[w] \in Sending
    BY <1>1
  <2>3. sending[w].todo \ {name} \in SUBSET TagNames
    BY <1>2, <2>2
  <2>4. s \in Sending
    BY <1>2, <2>2, <2>3
  <2> HIDE DEF s
  <2>5. QED
    BY <1>3, <2>1, <2>4
<1>13. ASSUME ReadText PROVE SendTyped'
  <2> DEFINE s == [Resting EXCEPT !.at = "sent", !.text = text]
  <2>1. sending' = [sending EXCEPT !["text"] = s]
    BY <1>13 DEF ReadText
  <2>2. s \in Sending
    BY <1>1, <1>2, <1>4
  <2> HIDE DEF s
  <2>3. QED
    BY <1>3, <1>5, <2>1, <2>2
<1>14. ASSUME SendText PROVE SendTyped'
  <2> DEFINE s == [sending["text"] EXCEPT !.at = "tags", !.listed = remoteText.tags]
  <2>1. sending' = [sending EXCEPT !["text"] = s] /\ Site
    BY <1>14 DEF SendText, At, Site
  <2>2. remoteText.tags \in SUBSET All
    BY <1>1, <2>1 DEF Said
  <2>3. s \in Sending
    BY <1>2, <1>6, <2>2
  <2> HIDE DEF s
  <2>4. QED
    BY <1>3, <1>5, <2>1, <2>3
<1>15. ASSUME NEW gone, RemoveTags(gone) PROVE SendTyped'
  <2> DEFINE s == [sending["text"] EXCEPT !.at = "add", !.todo = NamesOf(Plain(labels))]
  <2>1. sending' = [sending EXCEPT !["text"] = s]
    BY <1>15 DEF RemoveTags
  <2>2. s \in Sending
    BY <1>2, <1>6, <1>7
  <2> HIDE DEF s
  <2>3. QED
    BY <1>3, <1>5, <2>1, <2>2
<1>16. ASSUME PushDone \/ TextDone \/ \E w \in Senders : Stop(w) PROVE SendTyped'
  <2>1. \E w \in Senders : sending' = [sending EXCEPT ![w] = Resting]
    BY <1>5, <1>16 DEF PushDone, TextDone, Stop
  <2>2. QED
    BY <1>3, <1>4, <2>1
<1>17. ASSUME Resume \/ ClearMarker \/ DropMarker PROVE SendTyped'
  <2>1. Goes("push", "tags") \/ Goes("push", "drop") \/ Goes("push", "add")
    BY <1>17 DEF Resume, ClearMarker, DropMarker
  <2>2. QED
    BY <1>5, <1>8, <2>1
<1>18. ASSUME UNCHANGED sending PROVE SendTyped'
  BY <1>1, <1>18 DEF SendTyped
<1>19. ASSUME Suggestions \/ Edits \/ CompareStarts \/ CompareEnds \/ AdoptSnapshot
              \/ UNCHANGED wordingVars
       PROVE  SendTyped'
  BY <1>18, <1>19 DEF Suggestions, Propose, Dismiss, AcceptWrites, AcceptMarks, Edits, WriteLabels,
                      EditText, ReadLabels, EditOnSite, CompareStarts, CompareEnds, AdoptSnapshot,
                      wordingVars
<1>20. QED
  <2>1. CASE Pushes
    BY <1>9, <1>10, <1>11, <1>16, <1>17, <2>1 DEF Pushes
  <2>2. CASE Sends
    BY <1>12, <1>13, <1>14, <1>15, <1>16, <1>19, <2>2 DEF Sends
  <2>3. QED
    BY <1>19, <2>1, <2>2 DEF WordingNext

LEMMA AskStep ==
  ASSUME WordingTyped, [WordingNext]_wordingVars
  PROVE  AskTyped'
<1>1. /\ DOMAIN proposals \subseteq 1 .. MaxWords
      /\ \A p \in DOMAIN proposals : proposals[p] \in Proposal
      /\ accepting \in [Clerks -> 0 .. MaxWords]
      /\ words \in 0 .. MaxWords /\ calls \in 0 .. MaxPosts /\ foreign \in 0 .. MaxForeign
  BY DEF WordingTyped, AskTyped
<1>2. ASSUME NEW value \in Texts, Propose(value) PROVE AskTyped'
  <2>1. words' \in 1 .. MaxWords /\ UNCHANGED <<accepting, calls, foreign>>
    BY <1>1, <1>2 DEF Propose, Word
  <2>2. PICK new \in Proposal : new = [text |-> value, accepted |-> FALSE]
    BY DEF Proposal
  <2>3. proposals' = [p \in DOMAIN proposals \cup {words'} |->
                        IF p \in DOMAIN proposals THEN proposals[p] ELSE new]
    BY <1>2, <2>2 DEF Propose
  <2>4. DOMAIN proposals' = DOMAIN proposals \cup {words'}
        /\ \A p \in DOMAIN proposals' : proposals'[p] \in Proposal
    BY <1>1, <2>3
  <2>5. words' \in 0 .. MaxWords /\ DOMAIN proposals' \subseteq 1 .. MaxWords
    BY <1>1, <2>1, <2>4
  <2>6. QED
    BY <1>1, <2>1, <2>4, <2>5 DEF AskTyped
<1>3. ASSUME NEW p \in DOMAIN proposals, NEW c \in Clerks, AcceptWrites(c, p) PROVE AskTyped'
  <2>1. UNCHANGED <<proposals, words, calls, foreign>> /\ accepting' = [accepting EXCEPT ![c] = p]
    BY <1>3 DEF AcceptWrites
  <2>2. p \in 0 .. MaxWords
    BY <1>1
  <2>3. QED
    BY <1>1, <2>1, <2>2 DEF AskTyped
<1>4. ASSUME NEW c \in Clerks, AcceptMarks(c) PROVE AskTyped'
  <2>1. UNCHANGED <<words, calls, foreign>> /\ accepting' = [accepting EXCEPT ![c] = 0]
        /\ proposals' = Superseding(proposals, accepting[c])
    BY <1>4 DEF AcceptMarks
  <2>2. \A q \in DOMAIN proposals : [proposals[q] EXCEPT !.accepted = TRUE] \in Proposal
    BY <1>1 DEF Proposal
  <2>3. DOMAIN proposals' \subseteq DOMAIN proposals /\ \A q \in DOMAIN proposals' : proposals'[q] \in Proposal
    BY <1>1, <2>1, <2>2 DEF Superseding
  <2>4. QED
    BY <1>1, <2>1, <2>3 DEF AskTyped
<1>5. ASSUME NEW p, Dismiss(p) PROVE AskTyped'
  <2>1. UNCHANGED <<accepting, words, calls, foreign>>
        /\ proposals' = [q \in DOMAIN proposals \ {p} |-> proposals[q]]
    BY <1>5 DEF Dismiss
  <2>2. QED
    BY <1>1, <2>1 DEF AskTyped
<1>6. ASSUME UNCHANGED asking, words' \in 0 .. MaxWords, calls' \in 0 .. MaxPosts,
             foreign' \in 0 .. MaxForeign
      PROVE  AskTyped'
  BY <1>1, <1>6 DEF AskTyped, asking
<1>7. ASSUME Attempt \/ Resume \/ ReadText PROVE AskTyped'
  BY <1>1, <1>6, <1>7 DEF Attempt, Resume, ReadText
<1>8. ASSUME AdoptSnapshot PROVE AskTyped'
  BY <1>1, <1>6, <1>8 DEF AdoptSnapshot, Word
<1>9. ASSUME Edits PROVE AskTyped'
  BY <1>1, <1>6, <1>9 DEF Edits, EditText, ReadLabels, WriteLabels, EditOnSite, Word
<1>10. ASSUME UNCHANGED <<asking, words, calls, foreign>> PROVE AskTyped'
  BY <1>1, <1>6, <1>10
<1>11. QED
  <2>1. CASE Pushes
    <3>1. ASSUME Sent PROVE AskTyped'
      BY <1>10, <3>1 DEF Sent
    <3>2. QED
      BY <1>7, <2>1, <3>1 DEF Pushes, ClearMarker, DropMarker, PushDone, CreatePost, ReadTags
  <2>2. CASE Sends
    <3>1. ASSUME Sent PROVE AskTyped'
      BY <1>10, <3>1 DEF Sent
    <3>2. ASSUME CompareStarts \/ CompareEnds PROVE AskTyped'
      BY <1>10, <3>2 DEF CompareStarts, CompareEnds
    <3>3. QED
      BY <1>7, <1>8, <2>2, <3>1, <3>2 DEF Sends, SendText, TextDone, RemoveTags, Stop, AddTag
  <2>3. CASE UNCHANGED wordingVars
    BY <1>10, <2>3 DEF wordingVars
  <2>4. QED
    BY <1>2, <1>3, <1>4, <1>5, <1>9, <2>1, <2>2, <2>3 DEF WordingNext, Suggestions

LEMMA WordingTypedStep == WordingTyped /\ [WordingNext]_wordingVars => WordingTyped'
  BY HereStep, SiteStep, SendStep, AskStep DEF WordingTyped

(* What a post says here and on CivitAI is of its type, and each tag has   *)
(* one row (store/posts.py, posts/operations.py, posts/sync.py).           *)
THEOREM WordingTypes == WordingSpec => []WordingTyped
<1> QED
  BY WordingTypedStart, WordingTypedStep, PTL DEF WordingSpec

HIDE WordingAssumption

-----------------------------------------------------------------------------
(* Resources and model files (resources).                                  *)

USE ResourcesAssumption

(* A row that is not in its picture's file is one the user added, and what *)
(* a scan has derived covers every key that its picture's file mentions.   *)
AddedRows == \A k \in Keys \ DOMAIN HashInFile : rows[k] # Nothing => rows[k].added
WholeFile ==
  derived # Nothing => \E k \in DOMAIN HashInFile : DOMAIN derived = InFile(ImageOf[k])

ResourcesInv == ResourcesTypeOK /\ AddedRows /\ WholeFile

LEMMA ResourcesStart == ResourcesInit => ResourcesInv
  BY DEF ResourcesInit, ResourcesInv, ResourcesTypeOK, AddedRows, WholeFile, Page

LEMMA IdentifiedRow ==
  ASSUME NEW r \in Row, NEW v \in Versions \cup {Unknown}, NEW source \in Sources
  PROVE  Identified(r, v, source) \in Row /\ (r.added => Identified(r, v, source).added)
  BY DEF Identified, Row

LEMMA AnswerVersion ==
  ASSUME ResourcesInv, NEW h \in Hashes, map[h] # Nothing
  PROVE  map[h] \in Answer /\ map[h].version \in Versions \cup {Unknown}
  BY DEF ResourcesInv, ResourcesTypeOK, Answer

LEMMA NamedTyped ==
  ASSUME ResourcesInv, NEW k \in Keys
  PROVE  NamedVersion(k) \in Versions \cup {Unknown}
<1> DEFINE shas == {Sha[f] : f \in {g \in inventory : k \in Names[g]}}
<1>1. shas \subseteq Hashes
  BY DEF ResourcesInv, ResourcesTypeOK
<1>2. CASE Cardinality(shas) # 1 \/ shas = {}
  <2>1. CASE shas = {}
    <3>1. Cardinality(shas) = 0
      BY <2>1, FS_EmptySet
    <3>2. QED
      BY <3>1 DEF NamedVersion
  <2>2. QED
    BY <1>2, <2>1 DEF NamedVersion
<1>3. CASE Cardinality(shas) = 1 /\ shas # {}
  <2>1. (CHOOSE h \in shas : TRUE) \in Hashes
    BY <1>1, <1>3
  <2>2. QED
    BY <2>1, AnswerVersion DEF NamedVersion
<1>4. QED
  BY <1>2, <1>3

LEMMA EnrichedTyped ==
  ASSUME ResourcesInv, NEW h \in Hashes \cup {NoHash}
  PROVE  Enriched(h) \subseteq Row
<1> DEFINE bare == [hash |-> h, version |-> Unknown, from |-> "unresolved",
                    locked |-> FALSE, added |-> FALSE, deleted |-> FALSE]
<1>1. bare \in Row
  BY DEF Row, Sources
<1>2. \A p, g : g \in Best(p, h) => g \in Hashes /\ map[g] # Nothing
  BY DEF Best, Answered
<1>3. \A p, g : g \in Best(p, h) => Identified(bare, map[g].version, "resource_map") \in Row
  BY <1>1, <1>2, AnswerVersion, IdentifiedRow DEF Sources
<1>4. Enriched(h) \subseteq {bare} \cup {Identified(bare, map[g].version, "resource_map") :
                                          g \in Best(PrefixOf[h], h)}
  BY DEF Enriched
<1> HIDE DEF bare
<1>5. SUFFICES ASSUME NEW x \in Enriched(h) PROVE x \in Row
  OBVIOUS
<1>6. x = bare \/ \E g \in Best(PrefixOf[h], h) : x = Identified(bare, map[g].version, "resource_map")
  BY <1>4
<1>7. QED
  BY <1>1, <1>3, <1>6

(* What the program does by itself leaves rows rows, and no added row goes. *)
Rowed == rows' \in [Keys -> Row \cup {Nothing}] /\ AddedRows'

LEMMA ReapplyRows ==
  ASSUME ResourcesInv, NEW h \in Hashes, rows' = Reapplied(h)
  PROVE  Rowed
<1>1. rows \in [Keys -> Row \cup {Nothing}] /\ AddedRows
  BY DEF ResourcesInv, ResourcesTypeOK
<1>2. CASE map[h] = Nothing \/ map[h].version = Unknown
  BY <1>1, <1>2 DEF Reapplied, Rowed, AddedRows
<1>3. CASE map[h] # Nothing /\ map[h].version # Unknown
  <2>1. \A k \in Keys : rows[k] # Nothing =>
          /\ Identified(rows[k], map[h].version, "resource_map") \in Row
          /\ rows[k].added => Identified(rows[k], map[h].version, "resource_map").added
    BY <1>1, <1>3, AnswerVersion, IdentifiedRow DEF Sources
  <2>2. rows' = [k \in Keys |-> IF /\ rows[k] # Nothing /\ PrefixOfRow(rows[k]) = PrefixOf[h]
                                   /\ Projectable(rows[k], "resource_map")
                                THEN Identified(rows[k], map[h].version, "resource_map")
                                ELSE rows[k]]
    BY <1>3 DEF Reapplied
  <2>3. rows' \in [Keys -> Row \cup {Nothing}]
    BY <1>1, <2>1, <2>2
  <2>4. \A k \in Keys : rows'[k] # Nothing => rows[k] # Nothing /\ (rows[k].added => rows'[k].added)
    BY <2>1, <2>2
  <2>5. AddedRows'
    BY <1>1, <2>4 DEF AddedRows
  <2>6. QED
    BY <2>3, <2>5 DEF Rowed
<1>4. QED
  BY <1>2, <1>3

LEMMA ProjectRows ==
  ASSUME ResourcesInv, Project
  PROVE  Rowed
<1>1. /\ rows \in [Keys -> Row \cup {Nothing}] /\ AddedRows
      /\ found \in [ShortHashes -> Versions \cup {Unknown}]
      /\ rows' = [k \in Keys |-> Projected(k)]
  BY DEF ResourcesInv, ResourcesTypeOK, Project
<1>2. ASSUME NEW k \in Keys
      PROVE  /\ Projected(k) \in Row \cup {Nothing}
             /\ Projected(k) # Nothing => rows[k] # Nothing /\ (rows[k].added => Projected(k).added)
  <2>1. CASE rows[k] = Nothing
    BY <2>1 DEF Projected
  <2>2. CASE rows[k] # Nothing
    <3>1. rows[k] \in Row
      BY <1>1, <2>2
    <3>2. rows[k].hash # NoHash => found[PrefixOfRow(rows[k])] \in Versions \cup {Unknown}
      BY <1>1, <3>1 DEF Row, PrefixOfRow, ShortHashes
    <3>3. Projected(k) \in {rows[k], Identified(rows[k], NamedVersion(k), "local_name")}
          \/ /\ rows[k].hash # NoHash
             /\ Projected(k) = Identified(rows[k], found[PrefixOfRow(rows[k])], "resource_map")
      BY <2>2 DEF Projected
    <3>4. QED
      BY <2>2, <3>1, <3>2, <3>3, NamedTyped, IdentifiedRow DEF Sources
  <2>3. QED
    BY <2>1, <2>2
<1>3. rows' \in [Keys -> Row \cup {Nothing}]
  BY <1>1, <1>2
<1>4. AddedRows'
  BY <1>1, <1>2 DEF AddedRows
<1>5. QED
  BY <1>3, <1>4 DEF Rowed

LEMMA ReplaceRows ==
  ASSUME ResourcesInv, ReplaceResources
  PROVE  Rowed
<1>1. /\ rows \in [Keys -> Row \cup {Nothing}] /\ AddedRows
      /\ \A k \in DOMAIN derived : derived[k] \in Row
      /\ DOMAIN derived \subseteq DOMAIN HashInFile
  BY DEF ResourcesInv, ResourcesTypeOK, ReplaceResources
<1>2. ASSUME NEW k \in Keys
      PROVE  /\ Rebuilt(k) \in Row \cup {Nothing}
             /\ k \notin DOMAIN derived => Rebuilt(k) \in {rows[k], Nothing}
  <2>1. Rebuilt(k) \in {rows[k], Nothing}
        \/ /\ k \in DOMAIN derived
           /\ \/ Rebuilt(k) = derived[k]
              \/ /\ rows[k] # Nothing
                 /\ Rebuilt(k) = [derived[k] EXCEPT !.added = rows[k].added, !.deleted = rows[k].deleted]
    BY DEF Rebuilt, Overridden
  <2>2. k \notin DOMAIN derived => Rebuilt(k) \in {rows[k], Nothing}
    BY DEF Rebuilt
  <2>3. rows[k] # Nothing => rows[k] \in Row
    BY <1>1
  <2>4. ASSUME k \in DOMAIN derived, rows[k] # Nothing
        PROVE  [derived[k] EXCEPT !.added = rows[k].added, !.deleted = rows[k].deleted] \in Row
    BY <1>1, <2>3, <2>4 DEF Row
  <2>5. QED
    BY <1>1, <2>1, <2>2, <2>3, <2>4
<1>3. \A k \in Keys : rows'[k] \in {Rebuilt(k), rows[k]}
  BY DEF ReplaceResources
<1>4. rows' \in [Keys -> Row \cup {Nothing}]
  BY <1>1, <1>2, <1>3 DEF ReplaceResources
<1>5. \A k \in Keys \ DOMAIN HashInFile : rows'[k] \in {rows[k], Nothing}
  BY <1>1, <1>2, <1>3
<1>6. AddedRows'
  BY <1>1, <1>5 DEF AddedRows
<1>7. QED
  BY <1>4, <1>6 DEF Rowed

LEMMA MarkedRow ==
  ASSUME NEW r \in Row, NEW b \in BOOLEAN
  PROVE  /\ [r EXCEPT !.deleted = b] \in Row /\ [r EXCEPT !.deleted = b].added = r.added
         /\ [r EXCEPT !.locked = b] \in Row /\ [r EXCEPT !.locked = b].added = r.added
  BY DEF Row

LEMMA UserRows ==
  ASSUME ResourcesInv
  PROVE  /\ \A k \in Keys, h \in Hashes \cup {NoHash} : AddResource(k, h) => Rowed
         /\ \A k \in Keys, v \in Versions : Attach(k, v) => Rowed
         /\ \A k \in Keys : Rename(k) \/ Unlock(k) \/ DeleteResource(k) \/ RestoreResource(k) => Rowed
         /\ AddRenamed => Rowed
<1>1. rows \in [Keys -> Row \cup {Nothing}] /\ AddedRows
  BY DEF ResourcesInv, ResourcesTypeOK
<1>2. ASSUME NEW k \in Keys, NEW row, rows' = [rows EXCEPT ![k] = row],
             row = Nothing \/ (row \in Row /\ (row.added \/ (rows[k] # Nothing /\ row.added = rows[k].added)))
      PROVE  Rowed
  <2>1. rows' \in [Keys -> Row \cup {Nothing}]
    BY <1>1, <1>2
  <2>2. AddedRows'
    BY <1>1, <1>2 DEF AddedRows
  <2>3. QED
    BY <2>1, <2>2 DEF Rowed
<1>3. ASSUME NEW k \in Keys, NEW h \in Hashes \cup {NoHash}, AddResource(k, h) PROVE Rowed
  <2> DEFINE v == IF h = NoHash \/ map[h] = Nothing THEN Unknown ELSE map[h].version
             row == [hash |-> h, version |-> v,
                     from |-> IF v = Unknown THEN "unresolved" ELSE "resource_map",
                     locked |-> FALSE, added |-> TRUE, deleted |-> FALSE]
  <2>1. v \in Versions \cup {Unknown}
    BY AnswerVersion
  <2> HIDE DEF v
  <2>2. row \in Row /\ row.added
    BY <2>1 DEF Row, Sources
  <2>3. rows' = [rows EXCEPT ![k] = row]
    BY <1>3 DEF AddResource, v
  <2> HIDE DEF row
  <2>4. QED
    BY <1>2, <2>2, <2>3
<1>4. ASSUME NEW k \in Keys, NEW v \in Versions, Attach(k, v) PROVE Rowed
  <2>1. PICK h \in Hashes \cup {rows[k].hash} :
          rows' = [rows EXCEPT ![k] = [Identified(@, v, "manual") EXCEPT !.hash = h, !.locked = TRUE]]
    BY <1>4 DEF Attach
  <2>2. rows[k] # Nothing /\ rows[k] \in Row /\ h \in Hashes \cup {NoHash}
    BY <1>1, <1>4, <2>1 DEF Attach, Row
  <2>3. PICK row : row = [Identified(rows[k], v, "manual") EXCEPT !.hash = h, !.locked = TRUE]
    OBVIOUS
  <2>4. row \in Row /\ row.added = rows[k].added
    BY <2>2, <2>3 DEF Identified, Row, Sources
  <2>5. rows' = [rows EXCEPT ![k] = row]
    BY <2>1, <2>3
  <2>6. QED
    BY <1>2, <2>2, <2>4, <2>5
<1>5. ASSUME NEW k \in Keys, Rename(k) \/ Unlock(k) \/ DeleteResource(k) \/ RestoreResource(k)
      PROVE  Rowed
  <2>1. rows[k] # Nothing /\ rows[k] \in Row
    BY <1>1, <1>5 DEF Rename, Unlock, DeleteResource, RestoreResource
  <2>2. \E row \in {Nothing, [rows[k] EXCEPT !.deleted = TRUE], [rows[k] EXCEPT !.deleted = FALSE],
                    [rows[k] EXCEPT !.locked = FALSE]} : rows' = [rows EXCEPT ![k] = row]
    BY <1>5 DEF Rename, Unlock, DeleteResource, RestoreResource
  <2>3. QED
    BY <1>2, <2>1, <2>2, MarkedRow
<1>6. ASSUME AddRenamed PROVE Rowed
  <2>1. CASE rows' = rows
    BY <1>1, <2>1 DEF Rowed, AddedRows
  <2>2. CASE rows' = [rows EXCEPT ![page.to] =
                        [page.row EXCEPT !.locked = TRUE, !.added = TRUE, !.deleted = FALSE]]
    <3>1. page.to \in Keys /\ page.row \in Row
      BY <1>6 DEF AddRenamed, ResourcesInv, ResourcesTypeOK, Page, Quiet
    <3>2. PICK row : row = [page.row EXCEPT !.locked = TRUE, !.added = TRUE, !.deleted = FALSE]
      OBVIOUS
    <3>3. row \in Row /\ row.added
      BY <3>1, <3>2 DEF Row
    <3>4. QED
      BY <1>2, <2>2, <3>1, <3>2, <3>3
  <2>3. QED
    BY <1>6, <2>1, <2>2 DEF AddRenamed
<1>7. QED
  BY <1>3, <1>4, <1>5, <1>6

(* The steps of the program itself, one by one.                            *)
LEMMA BackgroundStep ==
  ASSUME ResourcesInv, Background
  PROVE  ResourcesInv'
<1> USE DEF ResourcesInv
<1>1. ASSUME NEW h \in Hashes, NEW force \in BOOLEAN, Ask(h, force) PROVE ResourcesInv'
  BY <1>1 DEF Ask, ResourcesTypeOK, AddedRows, WholeFile
<1>2. ASSUME NEW h \in Hashes, NEW v \in Versions \cup {Unknown}, Replied(h, v) PROVE ResourcesInv'
  <2>1. [manual |-> FALSE, version |-> v, fresh |-> TRUE] \in Answer
    BY DEF Answer
  <2>2. map' \in [Hashes -> Answer \cup {Nothing}]
    BY <1>2, <2>1 DEF Replied, Stored, ResourcesTypeOK
  <2>3. QED
    BY <1>2, <2>2 DEF Replied, ResourcesTypeOK, AddedRows, WholeFile
<1>3. ASSUME NEW h \in Hashes, GrowStale(h) PROVE ResourcesInv'
  <2>1. map[h] \in Answer
    BY <1>3 DEF GrowStale, ResourcesTypeOK
  <2>2. PICK a : a = [map[h] EXCEPT !.fresh = FALSE]
    OBVIOUS
  <2>3. a \in Answer
    BY <2>1, <2>2 DEF Answer
  <2>4. map' = [map EXCEPT ![h] = a]
    BY <1>3, <2>2 DEF GrowStale
  <2>5. map' \in [Hashes -> Answer \cup {Nothing}]
    BY <2>3, <2>4 DEF ResourcesTypeOK
  <2>6. QED
    BY <1>3, <2>5 DEF GrowStale, ResourcesTypeOK, AddedRows, WholeFile
<1>4. ASSUME NEW h \in Hashes, ResolveEnds(h) PROVE ResourcesInv'
  BY <1>4, ReapplyRows DEF ResolveEnds, Rowed, ResourcesTypeOK, AddedRows, WholeFile
<1>5. ASSUME Refused PROVE ResourcesInv'
  BY <1>5 DEF Refused, ResourcesTypeOK, AddedRows, WholeFile
<1>6. ASSUME ReadIdentities PROVE ResourcesInv'
  BY <1>6 DEF ReadIdentities, ResourcesTypeOK, AddedRows, WholeFile
<1>7. ASSUME Project PROVE ResourcesInv'
  BY <1>7, ProjectRows DEF Project, Rowed, ResourcesTypeOK, AddedRows, WholeFile
<1>8. ASSUME NEW k \in DOMAIN HashInFile, Derive(ImageOf[k]) PROVE ResourcesInv'
  <2> DEFINE i == ImageOf[k]
  <2>1. InFile(i) \subseteq DOMAIN HashInFile
    BY DEF InFile
  <2> HIDE DEF i
  <2>2. PICK d \in [InFile(i) -> UNION {Enriched(HashInFile[j]) : j \in InFile(i)}] :
          (\A j \in InFile(i) : d[j] \in Enriched(HashInFile[j])) /\ derived' = d
    BY <1>8 DEF Derive, i
  <2>3. \A j \in InFile(i) : d[j] \in Row
    BY <2>1, <2>2, EnrichedTyped
  <2>4. d \in [InFile(i) -> Row]
    BY <2>2, <2>3
  <2>5. (\E S \in SUBSET DOMAIN HashInFile : derived' \in [S -> Row]) /\ DOMAIN derived' = InFile(i)
    BY <2>1, <2>2, <2>4
  <2>6. QED
    BY <1>8, <2>5 DEF i, Derive, ResourcesTypeOK, AddedRows, WholeFile
<1>9. ASSUME ReplaceResources PROVE ResourcesInv'
  BY <1>9, ReplaceRows DEF ReplaceResources, Rowed, ResourcesTypeOK, AddedRows, WholeFile
<1>10. ASSUME Mount PROVE ResourcesInv'
  <2>1. mounted' \in BOOLEAN
    BY <1>10, Zenon DEF Mount
  <2>2. edits' \in 0..MaxEdits /\ UNCHANGED <<map, rows, asked, found, derived, page, inventory, seen>>
    BY <1>10 DEF Mount, ResourcesTypeOK
  <2>3. QED
    BY <2>1, <2>2 DEF ResourcesTypeOK, AddedRows, WholeFile
<1>11. ASSUME Walk \/ ForgetVanished \/ HashCancelled \/ \E f \in ModelFiles : HashFile(f)
       PROVE  ResourcesInv'
  BY <1>11 DEF Walk, ForgetVanished, HashCancelled, HashFile, ResourcesTypeOK, AddedRows, WholeFile
<1>12. QED
  BY <1>1, <1>2, <1>3, <1>4, <1>5, <1>6, <1>7, <1>8, <1>9, <1>10, <1>11 DEF Background

(* The steps of the user.                                                  *)
LEMMA UserStep ==
  ASSUME ResourcesInv, ByUser
  PROVE  ResourcesInv'
<1> USE DEF ResourcesInv
<1>1. ASSUME Edit PROVE edits' \in 0..MaxEdits
  BY <1>1 DEF Edit, ResourcesTypeOK
<1>2. ASSUME NEW k \in Keys, NEW h \in Hashes \cup {NoHash}, AddResource(k, h) PROVE ResourcesInv'
  <2>1. Rowed /\ edits' \in 0..MaxEdits
    BY <1>1, <1>2, UserRows DEF AddResource
  <2>2. UNCHANGED <<map, asked, found, derived, page, inventory, mounted, seen>>
    BY <1>2 DEF AddResource
  <2>3. QED
    BY <2>1, <2>2 DEF Rowed, ResourcesTypeOK, AddedRows, WholeFile
<1>3. ASSUME NEW k \in Keys, NEW v \in Versions, Attach(k, v) PROVE ResourcesInv'
  <2>1. Rowed /\ edits' \in 0..MaxEdits
    BY <1>1, <1>3, UserRows DEF Attach
  <2>2. UNCHANGED <<map, asked, found, derived, inventory, mounted, seen>>
    BY <1>3 DEF Attach
  <2>3. rows[k].hash \in Hashes \cup {NoHash}
    BY <1>3 DEF Attach, ResourcesTypeOK, Row
  <2>4. page' \in Page
    BY <1>3, <2>3 DEF Attach, Page
  <2>5. QED
    BY <2>1, <2>2, <2>4 DEF Rowed, ResourcesTypeOK, AddedRows, WholeFile
<1>4. ASSUME NEW k \in Keys, Rename(k) PROVE ResourcesInv'
  <2>1. Rowed /\ edits' \in 0..MaxEdits
    BY <1>1, <1>4, UserRows DEF Rename
  <2>2. UNCHANGED <<map, asked, found, derived, inventory, mounted, seen>>
    BY <1>4 DEF Rename
  <2>3. rows[k] \in Row /\ NewName[k] \in Keys
    BY <1>4 DEF Rename, ResourcesTypeOK
  <2>4. page' \in Page
    BY <1>4, <2>3 DEF Rename, Page
  <2>5. QED
    BY <2>1, <2>2, <2>4 DEF Rowed, ResourcesTypeOK, AddedRows, WholeFile
<1>5. ASSUME NEW k \in Keys, Unlock(k) \/ DeleteResource(k) \/ RestoreResource(k) PROVE ResourcesInv'
  <2>1. Rowed /\ edits' \in 0..MaxEdits
    BY <1>1, <1>5, UserRows DEF Unlock, DeleteResource, RestoreResource
  <2>2. UNCHANGED <<map, asked, found, derived, page, inventory, mounted, seen>>
    BY <1>5 DEF Unlock, DeleteResource, RestoreResource
  <2>3. QED
    BY <2>1, <2>2 DEF Rowed, ResourcesTypeOK, AddedRows, WholeFile
<1>6. ASSUME NEW f \in ModelFiles, NEW v \in Versions, AssignModelFile(f, v) PROVE ResourcesInv'
  <2>1. edits' \in 0..MaxEdits
    BY <1>1, <1>6 DEF AssignModelFile
  <2>2. page' \in Page
    BY <1>6 DEF AssignModelFile, Page
  <2>3. QED
    BY <1>6, <2>1, <2>2 DEF AssignModelFile, ResourcesTypeOK, AddedRows, WholeFile
<1>7. ASSUME AssignManual PROVE ResourcesInv'
  <2>1. page \in [step : {"assign", "reapply"}, hash : Hashes, version : Versions]
    BY <1>7 DEF AssignManual, ResourcesTypeOK, Page, Quiet
  <2>2. page' \in Page
    BY <1>7, <2>1 DEF AssignManual, Page
  <2>3. [manual |-> TRUE, version |-> page.version, fresh |-> TRUE] \in Answer
    BY <2>1 DEF Answer
  <2>4. map' \in [Hashes -> Answer \cup {Nothing}]
    BY <1>7, <2>3 DEF AssignManual, ResourcesTypeOK
  <2>5. QED
    BY <1>7, <2>2, <2>4 DEF AssignManual, ResourcesTypeOK, AddedRows, WholeFile
<1>8. ASSUME ReapplyHash PROVE ResourcesInv'
  <2>1. page.hash \in Hashes
    BY <1>8 DEF ReapplyHash, ResourcesTypeOK, Page, Quiet
  <2>2. Rowed
    BY <1>8, <2>1, ReapplyRows DEF ReapplyHash
  <2>3. QED
    BY <1>8, <2>2 DEF ReapplyHash, Page, Rowed, ResourcesTypeOK, AddedRows, WholeFile
<1>9. ASSUME AddRenamed PROVE ResourcesInv'
  <2>1. Rowed
    BY <1>9, UserRows
  <2>2. UNCHANGED <<map, asked, found, derived, inventory, mounted, seen, edits>> /\ page' = Quiet
    BY <1>9 DEF AddRenamed
  <2>3. QED
    BY <2>1, <2>2 DEF Page, Rowed, ResourcesTypeOK, AddedRows, WholeFile
<1>10. QED
  BY <1>2, <1>3, <1>4, <1>5, <1>6, <1>7, <1>8, <1>9 DEF ByUser

LEMMA ResourcesStep == ResourcesInv /\ [ResourcesNext]_resourceVars => ResourcesInv'
<1> SUFFICES ASSUME ResourcesInv, [ResourcesNext]_resourceVars PROVE ResourcesInv'
  OBVIOUS
<1>1. CASE UNCHANGED resourceVars
  BY <1>1 DEF resourceVars, ResourcesInv, ResourcesTypeOK, AddedRows, WholeFile
<1>2. QED
  BY <1>1, BackgroundStep, UserStep DEF ResourcesNext

(* What a scan has derived covers the file it was read from, a row that no *)
(* file mentions is the user's own, and everything has its type.           *)
THEOREM ResourcesInvariant == ResourcesSpec => []ResourcesInv
<1> QED
  BY ResourcesStart, ResourcesStep, PTL DEF ResourcesSpec

(* A decision reads the same while the decided hashes of the prefix and    *)
(* their versions do.                                                      *)
LEMMA SameDecision ==
  ASSUME NEW p, Decided(p)' = Decided(p), \A g \in Decided(p) : map'[g].version = map[g].version
  PROVE  Decision(p)' = Decision(p)
<1>1. CASE Decided(p) = {}
  BY <1>1 DEF Decision
<1>2. CASE Decided(p) # {}
  <2>1. (CHOOSE g \in Decided(p) : TRUE) \in Decided(p)
    BY <1>2
  <2>2. (CHOOSE g \in Decided(p) : TRUE)' = (CHOOSE g \in Decided(p) : TRUE)
    OBVIOUS
  <2>3. QED
    BY <1>2, <2>1, <2>2 DEF Decision
<1>3. QED
  BY <1>1, <1>2

(* A late answer gives way to a decision made while it was under way; only *)
(* another decision of the user replaces one.                              *)
LEMMA DecisionStep ==
  ASSUME ResourcesInv, [ResourcesNext]_resourceVars, NEW p \in ShortHashes, Decision(p) # Unknown
  PROVE  Decision(p)' = Decision(p) \/ page.step = "assign"
<1>1. ASSUME map' = map PROVE Decision(p)' = Decision(p)
  <2>1. Decided(p)' = Decided(p)
    BY <1>1 DEF Decided, Answered
  <2>2. QED
    BY <1>1, <2>1, SameDecision
<1>2. ASSUME NEW h \in Hashes, NEW v \in Versions \cup {Unknown}, Replied(h, v)
      PROVE  Decision(p)' = Decision(p)
  <2>1. CASE Decided(PrefixOf[h]) # {}
    <3>1. map' = map
      BY <1>2, <2>1 DEF Replied, Stored
    <3>2. QED
      BY <1>1, <3>1
  <2>2. CASE Decided(PrefixOf[h]) = {}
    <3>1. PrefixOf[h] # p
      BY <2>2 DEF Decision
    <3>2. \A g \in Hashes : PrefixOf[g] = p => map'[g] = map[g]
      BY <1>2, <2>2, <3>1 DEF Replied, Stored, ResourcesInv, ResourcesTypeOK
    <3>3. Answered(p)' = Answered(p)
      BY <3>2 DEF Answered
    <3>4. Decided(p)' = Decided(p) /\ \A g \in Decided(p) : map'[g] = map[g]
      BY <3>2, <3>3 DEF Decided, Answered
    <3>5. QED
      BY <3>4, SameDecision
  <2>3. QED
    BY <2>1, <2>2
<1>3. ASSUME NEW h \in Hashes, GrowStale(h) PROVE Decision(p)' = Decision(p)
  <2>1. map[h] \in Answer /\ map[h] # Nothing
    BY <1>3 DEF GrowStale, ResourcesInv, ResourcesTypeOK
  <2>2. PICK a : a = [map[h] EXCEPT !.fresh = FALSE]
    OBVIOUS
  <2>3. a \in Answer /\ a.manual = map[h].manual /\ a.version = map[h].version
    BY <2>1, <2>2 DEF Answer
  <2>4. map' = [map EXCEPT ![h] = a]
    BY <1>3, <2>2 DEF GrowStale
  <2>5. \A g \in Hashes : /\ map'[g] = Nothing <=> map[g] = Nothing
                          /\ map[g] # Nothing => /\ map'[g].manual = map[g].manual
                                                 /\ map'[g].version = map[g].version
    BY <2>1, <2>3, <2>4 DEF ResourcesInv, ResourcesTypeOK
  <2>6. Answered(p)' = Answered(p)
    BY <2>5 DEF Answered
  <2>7. Decided(p)' = Decided(p) /\ \A g \in Decided(p) : map'[g].version = map[g].version
    BY <2>5, <2>6 DEF Decided, Answered
  <2>8. QED
    BY <2>7, SameDecision
<1>4. map' = map \/ page.step = "assign" \/ (\E h \in Hashes : GrowStale(h))
      \/ \E h \in Hashes, v \in Versions \cup {Unknown} : Replied(h, v)
  BY DEF ResourcesNext, Background, ByUser, Ask, Refused, ReadIdentities, Project, ResolveEnds,
         Derive, ReplaceResources, Mount, Walk, HashFile, ForgetVanished, HashCancelled, AddResource,
         Attach, Rename, Unlock, DeleteResource, RestoreResource, AssignModelFile, AssignManual,
         ReapplyHash, AddRenamed, resourceVars
<1>5. QED
  BY <1>1, <1>2, <1>3, <1>4

(* What the user decided about a hash, no answer takes back.               *)
THEOREM DecisionsStand == ResourcesSpec => DecisionStands
<1>1. ResourcesInv /\ [ResourcesNext]_resourceVars =>
        [\A p \in ShortHashes : Decision(p) # Unknown =>
           Decision(p)' = Decision(p) \/ page.step = "assign"]_resourceVars
  BY DecisionStep
<1>2. QED
  BY <1>1, ResourcesInvariant, PTL DEF ResourcesSpec, DecisionStands

(* No projection and no rescan changes a row that the user locked.         *)
LEMMA ChoiceStep ==
  ASSUME ResourcesInv, Background, NEW k \in Keys, rows[k] # Nothing, rows[k].locked
  PROVE  rows'[k] = rows[k]
<1>1. ~Projectable(rows[k], "resource_map") /\ ~Projectable(rows[k], "local_name")
  BY DEF Projectable
<1>2. rows \in [Keys -> Row \cup {Nothing}]
  BY DEF ResourcesInv, ResourcesTypeOK
<1>3. ASSUME NEW h \in Hashes, ResolveEnds(h) PROVE rows'[k] = rows[k]
  BY <1>1, <1>3 DEF ResolveEnds, Reapplied
<1>4. ASSUME Project PROVE rows'[k] = rows[k]
  <2>1. Projected(k) = rows[k]
    BY <1>1 DEF Projected
  <2>2. QED
    BY <1>4, <2>1 DEF Project
<1>5. ASSUME ReplaceResources PROVE rows'[k] = rows[k]
  <2>1. PICK i \in {ImageOf[j] : j \in DOMAIN derived} :
          rows' = [j \in Keys |-> IF ImageOf[j] = i THEN Rebuilt(j) ELSE rows[j]]
    BY <1>5 DEF ReplaceResources
  <2>2. PICK j \in DOMAIN derived : ImageOf[j] = i
    BY <2>1
  <2>3. PICK named \in DOMAIN HashInFile : DOMAIN derived = InFile(ImageOf[named])
    BY <1>5 DEF ReplaceResources, ResourcesInv, WholeFile
  <2>4. DOMAIN derived = InFile(i)
    BY <2>2, <2>3 DEF InFile
  <2>5. CASE ImageOf[k] # i
    BY <2>1, <2>5
  <2>6. CASE ImageOf[k] = i
    <3>1. rows'[k] = Rebuilt(k) /\ Overridden(rows[k])
      BY <2>1, <2>6 DEF Overridden
    <3>2. k \notin DOMAIN derived => rows[k].added
      BY <2>4, <2>6 DEF InFile, ResourcesInv, AddedRows
    <3>3. Rebuilt(k) = rows[k]
      BY <3>1, <3>2 DEF Rebuilt
    <3>4. QED
      BY <3>1, <3>3
  <2>7. QED
    BY <2>5, <2>6
<1>6. rows' = rows \/ Project \/ ReplaceResources \/ \E h \in Hashes : ResolveEnds(h)
  BY DEF Background, Ask, Replied, GrowStale, Refused, ReadIdentities, Derive, Mount, Walk, HashFile,
         ForgetVanished, HashCancelled
<1>7. QED
  BY <1>3, <1>4, <1>5, <1>6

(* Nothing the program does by itself takes a row the user locked.         *)
THEOREM ChoicesSurvive == ResourcesSpec => ChoiceSurvives
<1>1. ResourcesInv /\ [ResourcesNext]_resourceVars =>
        [\A k \in Keys : rows[k] # Nothing /\ rows[k].locked =>
           rows'[k] = rows[k] \/ ByUser]_resourceVars
  BY ChoiceStep DEF ResourcesNext
<1>2. QED
  BY <1>1, ResourcesInvariant, PTL DEF ResourcesSpec, ChoiceSurvives
-----------------------------------------------------------------------------
(* The components together (the run ServiceParts).                         *)

(* Each component stays well typed when it moves: the data directory, the  *)
(* backups, the resources' decisions, the schedule, a post's text and tags *)
(* and the first start.                                                    *)
THEOREM ServicePartsTypes == MCSpec => []ServicePartsTypeOK
<1> DEFINE Typed == MoveInv /\ BackupsInv /\ ResourcesInv /\ ScheduleInv /\ WordingTyped /\ SetupInv
<1>1. MCInit => Typed
  BY MoveStart, BackupsStart, ResourcesStart, ScheduleStart, WordingTypedStart, SetupStart DEF MCInit
<1>2. Typed /\ [MCNext]_MCVars => Typed'
  <2>1. MoveInv /\ [MCNext]_MCVars => MoveInv'
    BY MoveStep DEF MCNext, MCVars
  <2>2. BackupsInv /\ [MCNext]_MCVars => BackupsInv'
    BY BackupsStep DEF MCNext, MCVars
  <2>3. ResourcesInv /\ [MCNext]_MCVars => ResourcesInv'
    BY ResourcesStep DEF MCNext, MCVars
  <2>4. ScheduleInv /\ [MCNext]_MCVars => ScheduleInv'
    BY ScheduleStep DEF MCNext, MCVars
  <2>5. WordingTyped /\ [MCNext]_MCVars => WordingTyped'
    BY WordingTypedStep DEF MCNext, MCVars
  <2>6. SetupInv /\ [MCNext]_MCVars => SetupInv'
    BY SetupStep DEF MCNext, MCVars
  <2>7. QED
    BY <2>1, <2>2, <2>3, <2>4, <2>5, <2>6
<1>3. WordingTyped => WordingTypeOK
  BY DEF WordingTyped, HereTyped, SiteTyped, SendTyped, AskTyped, OneRowEach, WordingTypeOK
<1>4. Typed => ServicePartsTypeOK
  BY <1>3 DEF ServicePartsTypeOK, MoveInv, BackupsInv, ResourcesInv, ScheduleInv, SetupInv
<1>5. QED
  BY <1>1, <1>2, <1>4, PTL DEF MCSpec
=============================================================================

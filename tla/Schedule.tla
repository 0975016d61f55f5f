------------------------------- MODULE Schedule -------------------------------
(***************************************************************************)
(* When a post goes public: backend/posts/schedule.py and the callers that *)
(* read the clock - the calendar's spread (backend/api/schedule.py), the   *)
(* closing step of a push (push._apply_publish) and reschedule             *)
(* (posts/operations.py).  CivitAI does not refuse a time that is too      *)
(* near: it publishes at once, and nothing takes that back.                *)
(*                                                                         *)
(* Time is in microseconds, as datetime holds it; the wire and the stored  *)
(* plans hold milliseconds.  The clock moves between the instants of       *)
(* Clocks.  Three calendar months ahead is MaxAhead, a constant.           *)
(***************************************************************************)
EXTENDS Integers, Functions

CONSTANTS Planned,      \* posts
          Clocks,       \* the instants at which something may happen
          Offsets,      \* relative plans, in minutes
          Intervals,    \* minutes between the posts of a spread
          Lead,         \* POST_MINIMUM_SCHEDULE_MINUTES
          Headroom,     \* POST_SCHEDULE_DISPATCH_HEADROOM_MINUTES
          MaxAhead,     \* POST_MAXIMUM_SCHEDULE_MONTHS, in microseconds
          Transit,      \* the longest a request travels, in microseconds
          NoTime, NoCall

ASSUME ScheduleAssumption ==
  /\ Clocks \subseteq Nat /\ Offsets \subseteq Nat /\ Intervals \subseteq Nat \ {0}
  /\ Lead \in Nat /\ Headroom \in Nat /\ MaxAhead \in Nat /\ Transit \in Nat
  /\ NoTime \notin Int

Minute == 60000000
Dispatch == Lead + Headroom  \* POST_DISPATCH_SCHEDULE_MINUTES

Plan == [relative : BOOLEAN, offset : Nat \cup {NoTime}, at : Nat \cup {NoTime}]
Call == [post : Planned, stamp : Nat, sent : Nat, push : BOOLEAN]

VARIABLES clock,   \* the time
          plans,   \* schedule_mode, schedule_offset_minutes, scheduled_at
          pinned,  \* remote_published_at
          call,    \* a post.update with a publish time, on its way
          site,    \* the time CivitAI holds for the post
          remote   \* the posts CivitAI has, as drafts or more

scheduleVars == <<clock, plans, pinned, call, site, remote>>

ScheduleTypeOK ==
  /\ clock \in Clocks
  /\ plans \in [Planned -> Plan]
  /\ pinned \in [Planned -> Nat \cup {NoTime}]
  /\ call = NoCall \/ call \in Call
  /\ site \in [Planned -> Nat \cup {NoTime}]
  /\ remote \subseteq Planned

NoPlan == [relative |-> TRUE, offset |-> NoTime, at |-> NoTime]

ScheduleInit ==
  /\ clock \in Clocks
  /\ plans = [p \in Planned |-> NoPlan]
  /\ pinned = [p \in Planned |-> NoTime]
  /\ call = NoCall
  /\ site = [p \in Planned |-> NoTime]
  /\ remote = {}

-----------------------------------------------------------------------------
(* The arithmetic.                                                         *)
Later(a, b) == IF a >= b THEN a ELSE b

IsoZ(t) == t - (t % 1000)
EarliestPublish(t) == t + Lead * Minute
EarliestDispatch(t) == t + Dispatch * Minute
LatestPublish(t) == t + MaxAhead

Valid(when, t) == when >= EarliestPublish(t) /\ when <= LatestPublish(t)
ValidForSite(when, t) == Valid(when, t)
ValidDispatch(when, t) == Valid(when, t) /\ when >= EarliestDispatch(t)

(* resolve: a relative plan counts from now and is raised to the floor.    *)
Resolved(plan, t) ==
  IF ~plan.relative THEN plan.at
  ELSE IF plan.offset = NoTime THEN NoTime
  ELSE Later(t + plan.offset * Minute, EarliestDispatch(t))

(* outbound_stamp: a plan raised to the floor is rounded up to the next    *)
(* millisecond, for the wire cuts the rest off.                            *)
RoundedUp(when) == when + (1000 - (when % 1000))
OutboundCut(when, t, relative) == IsoZ(when)
OutboundStamp(when, t, relative) ==
  IF relative /\ when = EarliestDispatch(t) /\ when % 1000 # 0
  THEN IsoZ(RoundedUp(when)) ELSE IsoZ(when)

(* spread: the first slot is pulled forward to a floor in whole seconds.   *)
SpreadFloor(t) ==
  LET floor == EarliestDispatch(t)
  IN  IF floor % 1000000 = 0 THEN floor ELSE floor - (floor % 1000000) + 1000000
Slot(start, interval, n, t) == Later(start, SpreadFloor(t)) + n * interval * Minute

-----------------------------------------------------------------------------
(* Time passes; a request on its way arrives within Transit.               *)
Pass(t) ==
  /\ t > clock
  /\ call # NoCall => t <= call.sent + Transit
  /\ clock' = t
  /\ UNCHANGED <<plans, pinned, call, site, remote>>

Relative(o) == [NoPlan EXCEPT !.offset = o]
Absolute(t) == [relative |-> FALSE, offset |-> NoTime, at |-> t]

(* A push owns the post: guard_post_mutation.                              *)
Pushing(p) == call # NoCall /\ call.post = p /\ call.push

(* Creating or patching a local post stores the plan without judging it.   *)
Patch(p, plan) ==
  /\ p \notin remote
  /\ plans' = [plans EXCEPT ![p] = plan]
  /\ UNCHANGED <<clock, pinned, call, site, remote>>

(* spread with apply: one post after the other takes its slot, a post      *)
(* known to be public - a sync may not have seen it yet - is passed over.  *)
Locked(p) == pinned[p] # NoTime /\ pinned[p] <= clock

Taken(posts, slot(_)) ==
  /\ \A p \in Range(posts) : ~Pushing(p)
  /\ \E known \in SUBSET {p \in Range(posts) : Locked(p)} :
       plans' = [p \in Planned |->
         IF p \in Range(posts) \ known
         THEN slot((CHOOSE n \in DOMAIN posts : posts[n] = p) - 1) ELSE plans[p]]
  /\ UNCHANGED <<clock, pinned, call, site, remote>>

SpreadRelative(posts, o, interval) ==
  LET slot(n) == Relative(Later(o, Dispatch) + n * interval) IN Taken(posts, slot)

SpreadAbsolute(posts, start, interval) ==
  LET slot(n) == Absolute(IsoZ(Slot(start, interval, n, clock))) IN Taken(posts, slot)

(* A push has created the draft.                                           *)
Created(p) ==
  /\ p \notin remote
  /\ remote' = remote \cup {p}
  /\ UNCHANGED <<clock, plans, pinned, call, site>>

(* _apply_publish, after the draft was read without a time: resolve,       *)
(* stamp, check, send - or stop with the draft as it is.                   *)
Send(p, stamp, push) ==
  /\ call = NoCall
  /\ call' = [post |-> p, stamp |-> stamp, sent |-> clock, push |-> push]

ApplyPublish(p) ==
  /\ p \in remote /\ pinned[p] = NoTime /\ site[p] = NoTime
  /\ Resolved(plans[p], clock) # NoTime
  /\ LET stamp == OutboundStamp(Resolved(plans[p], clock), clock, plans[p].relative)
     IN  ValidDispatch(stamp, clock) /\ Send(p, stamp, TRUE)
  /\ UNCHANGED <<clock, plans, pinned, site, remote>>

(* A time found on CivitAI already is only recorded.                       *)
FoundPublishTime(p) ==
  /\ pinned[p] = NoTime /\ site[p] # NoTime
  /\ pinned' = [pinned EXCEPT ![p] = site[p]]
  /\ UNCHANGED <<clock, plans, call, site, remote>>

(* reschedule: refused once public; the row takes the plan, then CivitAI.  *)
Reschedule(p, plan) ==
  LET when == Resolved(plan, clock)
      stamp == OutboundStamp(when, clock, plan.relative)
  IN
  /\ ~Locked(p) /\ ~Pushing(p)
  /\ when # NoTime
  /\ ValidDispatch(stamp, clock)
  /\ plans' = [plans EXCEPT ![p] = IF plan.relative THEN plan ELSE Absolute(stamp)]
  /\ IF p \in remote THEN Send(p, stamp, FALSE) ELSE UNCHANGED call
  /\ UNCHANGED <<clock, pinned, site, remote>>

(* CivitAI's updatePostHandler: a time too near becomes now; the time of a *)
(* public post stays.                                                      *)
Held(p, stamp) ==
  IF site[p] # NoTime /\ site[p] <= clock THEN site[p]
  ELSE IF stamp < EarliestPublish(clock) THEN clock ELSE stamp

Arrive ==
  /\ call # NoCall
  /\ site' = [site EXCEPT ![call.post] = Held(call.post, call.stamp)]
  /\ \/ pinned' = [pinned EXCEPT ![call.post] = site'[call.post]]
     \/ UNCHANGED pinned  \* the answer is lost
  /\ call' = NoCall
  /\ UNCHANGED <<clock, plans, remote>>

Lost ==
  /\ call # NoCall
  /\ call' = NoCall
  /\ UNCHANGED <<clock, plans, pinned, site, remote>>

Orders == [{1} -> Planned] \cup {s \in [{1, 2} -> Planned] : s[1] # s[2]}

ScheduleNext ==
  \/ \E t \in Clocks : Pass(t)
  \/ \E p \in Planned :
       \/ \E o \in Offsets : Patch(p, Relative(o)) \/ Reschedule(p, Relative(o))
       \/ \E t \in Clocks : Patch(p, Absolute(t)) \/ Reschedule(p, Absolute(t))
       \/ Created(p) \/ ApplyPublish(p) \/ FoundPublishTime(p)
  \/ \E posts \in Orders, i \in Intervals :
       \/ \E o \in Offsets : SpreadRelative(posts, o, i)
       \/ \E t \in Clocks : SpreadAbsolute(posts, t, i)
  \/ Arrive \/ Lost

ScheduleSpec == ScheduleInit /\ [][ScheduleNext]_scheduleVars
-----------------------------------------------------------------------------
(* CivitAI never takes a request of Livebound for "publish now": what it   *)
(* holds afterwards is the time that was sent (schedule.validate_dispatch, *)
(* config.POST_SCHEDULE_DISPATCH_HEADROOM_MINUTES).                        *)
NeverAtOnce ==
  [][\A p \in Planned : site'[p] # site[p] => call # NoCall /\ site'[p] = call.stamp]_scheduleVars

(* A relative plan is never refused as too near at the moment it is sent,  *)
(* whatever part of a millisecond the clock shows (schedule.resolve,       *)
(* schedule.outbound_stamp).                                               *)
RelativeIsSent ==
  \A o \in Offsets :
    LET stamp == OutboundStamp(Resolved(Relative(o), clock), clock, TRUE)
    IN  ValidDispatch(stamp, clock) \/ stamp > LatestPublish(clock)

(* Every slot of a spread could be sent as it is stored, and the slots     *)
(* stay as far apart as was asked (schedule.spread).                       *)
SpreadIsSent ==
  \A start \in Clocks, i \in Intervals, n \in {0, 1} :
    LET slot == IsoZ(Slot(start, i, n, clock)) IN
    /\ slot >= EarliestDispatch(clock)
    /\ n = 1 => slot - IsoZ(Slot(start, i, 0, clock)) = i * Minute
=============================================================================

------------------------ MODULE OrdersRefreshProofs ------------------------
(***************************************************************************)
(* Proofs about OrdersRefresh, for any orders, answers, requests, items    *)
(* and bounds.                                                             *)
(***************************************************************************)
EXTENDS OrdersRefresh, SumLemmas, SequenceTheorems, TLAPS

Records == Orders \cup {Malformed}

\* A timer is set for a later two o'clock than that of the last scheduled run.
Timer ==
    /\ 2 * jobDay + 1 <= now
    /\ alarm % 2 = 1
    /\ pc[Scheduler] = "sleep" => now <= alarm /\ 2 * jobDay + 1 < alarm

\* Two moments make a day.
LEMMA DayBounds ==
    ASSUME NEW t \in Nat
    PROVE  Day(t) \in Nat /\ 2 * Day(t) <= t /\ t < 2 * Day(t) + 2
BY DEF Day

\* The next two o'clock is to come, and not that of a run that has started.
LEMMA AlarmLater ==
    ASSUME NEW t \in Nat, NEW d \in Nat, 2 * d + 1 <= t
    PROVE  Alarm(t) \in Nat /\ Alarm(t) % 2 = 1 /\ t < Alarm(t) /\ 2 * d + 1 < Alarm(t)
BY DEF Alarm

\* A new run has well-typed locals.
LEMMA NewFrameTyped == NewFrame \in Frame /\ NoCounts \in [Branches -> Nat]
<1>1. /\ NoCounts \in [Branches -> Nat]
      /\ <<>> \in Seq(Records)
      /\ {} \in SUBSET Orders
  BY DEF NoCounts, Records
<1> QED  BY <1>1 DEF NewFrame, Frame, Years, MaxAttempts, Records

\* Typing and the timer hold at the start.
LEMMA InitTyped == Init => TypeOK /\ Timer
<1> SUFFICES ASSUME Init PROVE TypeOK /\ Timer
  OBVIOUS
<1>1. now \in Nat /\ jobDay = 0 /\ 2 * jobDay + 1 <= now /\ now \in 2..LastMoment
  BY RefreshAssumption DEF Init
<1>2. /\ alarm \in Nat /\ alarm % 2 = 1
      /\ now < alarm /\ 2 * jobDay + 1 < alarm
  <2>1. alarm = Alarm(now)
    BY DEF Init
  <2> QED  BY <1>1, <2>1, AlarmLater
<1>3. pc \in [Runs -> Pc] /\ frame \in [Runs -> Frame]
  BY NewFrameTyped DEF Init, Pc
<1>4. orders \in [Orders -> Nat] /\ stats \subseteq StatRow /\ NoticeType
  BY DEF Init, NoticeInit, NoticeType
<1>5. holder \in Runs \cup {Nobody}
  BY DEF Init
<1> QED  BY <1>1, <1>2, <1>3, <1>4, <1>5 DEF TypeOK, Timer

\* A step that leaves the clock alone and puts no one to sleep keeps the timer.
LEMMA TimerKept ==
    ASSUME Timer, UNCHANGED <<now, jobDay, alarm>>,
           pc'[Scheduler] = "sleep" => pc[Scheduler] = "sleep"
    PROVE  Timer'
BY DEF Timer

\* The locals of a run stay well typed when it goes on to the next year or ends.
LEMMA NextYearTyped ==
    ASSUME TypeOK, NEW r \in Runs, NEW f \in Frame, NextYear(r, f), pc[r] # "sleep"
    PROVE  /\ frame' \in [Runs -> Frame] /\ pc' \in [Runs -> Pc]
           /\ pc'[Scheduler] = "sleep" => pc[Scheduler] = "sleep"
<1>1. CASE MoreYears(f.year)
  <2>1. [f EXCEPT !.year = @ + 1, !.attempt = 1] \in Frame
    <3>1. f.year + 1 \in 1..Years /\ 1 \in 1..MaxAttempts
      BY <1>1 DEF Frame, MoreYears, Years, MaxAttempts
    <3> QED  BY <3>1 DEF Frame
  <2>2. /\ frame' = [frame EXCEPT ![r] = [f EXCEPT !.year = @ + 1, !.attempt = 1]]
        /\ pc' = [pc EXCEPT ![r] = "fetch"]
    BY <1>1 DEF NextYear, Note, Goto
  <2> QED  BY <2>1, <2>2 DEF TypeOK, Pc
<1>2. CASE ~MoreYears(f.year)
  <2>1. /\ frame' = [frame EXCEPT ![r] = IF holder = r THEN f ELSE NewFrame]
        /\ pc' = [pc EXCEPT ![r] = IF r = Scheduler THEN "due" ELSE "done"]
    BY <1>2 DEF NextYear, Note, Goto
  <2>2. (IF holder = r THEN f ELSE NewFrame) \in Frame
    BY NewFrameTyped
  <2> QED  BY <2>1, <2>2 DEF TypeOK, Pc
<1> QED  BY <1>1, <1>2

\* The answer or the failure of a fetch keeps the types.
LEMMA FetchTyped ==
    ASSUME TypeOK, Timer, NEW r \in Runs, Fetch(r)
    PROVE  (TypeOK /\ Timer)'
<1>0. /\ frame[r] \in Frame /\ pc[r] = "fetch"
      /\ UNCHANGED <<now, notices, jobDay, orders, stats, alarm, holder>>
  BY DEF TypeOK, Fetch, Answered, Retry, NoRecords, KeepClock, Tables
<1>1. /\ frame' \in [Runs -> Frame] /\ pc' \in [Runs -> Pc]
      /\ pc'[Scheduler] = "sleep" => pc[Scheduler] = "sleep"
  <2>1. CASE Answered(r)
    <3>1. PICK a \in Answers :
            frame' = [frame EXCEPT ![r] = [frame[r] EXCEPT !.todo = a, !.counts = NoCounts,
                                                            !.got = @ + 1]]
      BY <2>1 DEF Answered, Note
    <3>2. a \in Seq(Records)
      BY RefreshAssumption DEF Records
    <3>3. [frame[r] EXCEPT !.todo = a, !.counts = NoCounts, !.got = @ + 1] \in Frame
      <4>1. frame[r].got + 1 \in Nat
        BY <1>0 DEF Frame
      <4> QED  BY <1>0, <3>2, <4>1, NewFrameTyped DEF Frame, Records
    <3> QED  BY <2>1, <3>1, <3>3, <1>0 DEF Answered, Goto, TypeOK, Pc
  <2>2. CASE Retry(r)
    <3>0. NextAttempt(frame[r].attempt) \in 1..MaxAttempts
      BY <1>0, <2>2 DEF Retry, NextAttempt, Frame, MaxAttempts
    <3>1. [frame[r] EXCEPT !.attempt = NextAttempt(@)] \in Frame
      BY <1>0, <3>0 DEF Frame
    <3> QED  BY <2>2, <3>1 DEF Retry, Note, TypeOK
  <2>3. CASE NoRecords(r)
    <3>1. [frame[r] EXCEPT !.failed = TRUE] \in Frame
      BY <1>0 DEF Frame
    <3> QED  BY <1>0, <2>3, <3>1, NextYearTyped DEF NoRecords
  <2> QED  BY <2>1, <2>2, <2>3 DEF Fetch
<1>2. Timer'
  BY <1>0, <1>1, TimerKept
<1> QED  BY <1>0, <1>1, <1>2 DEF TypeOK, NoticeType

\* One record keeps the types.
LEMMA StoreTyped ==
    ASSUME TypeOK, Timer, NEW r \in Runs, Store(r)
    PROVE  (TypeOK /\ Timer)'
<1> DEFINE rec == Head(frame[r].todo)
           f   == frame[r]
<1>0. /\ f \in Frame
      /\ UNCHANGED <<now, notices, jobDay, stats, pc, alarm, holder>>
  BY DEF TypeOK, Store, KeepClock
<1>1. rec \in Records /\ Tail(f.todo) \in Seq(Records) /\ Seen(r, rec) \in SUBSET Orders
  <2>1. f.todo \in Seq(Records) /\ f.todo # <<>> /\ f.seen \in SUBSET Orders
    BY <1>0 DEF Store, Frame, Records
  <2>2. rec \in Records /\ Tail(f.todo) \in Seq(Records)
    BY <2>1
  <2> QED  BY <2>1, <2>2 DEF Seen, Named
<1>2. frame' \in [Runs -> Frame] /\ orders' \in [Orders -> Nat]
  <2>1. CASE rec \in Orders /\ InsertOrder(r, rec)
    <3> DEFINE counts == [b \in Branches |->
                             IF b = Branch[rec] THEN f.counts[b] + 1 ELSE f.counts[b]]
    <3>1. counts \in [Branches -> Nat] /\ f.stored + 1 \in Nat
      BY <1>0 DEF Frame
    <3>2. [f EXCEPT !.todo = Tail(@), !.seen = Seen(r, rec), !.stored = @ + 1,
                    !.counts = counts] \in Frame
      BY <1>0, <1>1, <3>1 DEF Frame, Records
    <3>3. /\ frame' = [frame EXCEPT ![r] = [f EXCEPT !.todo = Tail(@), !.seen = Seen(r, rec),
                                               !.stored = @ + 1, !.counts = counts]]
          /\ orders' = [orders EXCEPT ![rec] = @ + 1]
      BY <2>1, <1>0 DEF InsertOrder, Note, Frame
    <3> HIDE DEF counts, rec
    <3> QED  BY <2>1, <3>2, <3>3 DEF TypeOK
  <2>2. CASE InsertFails(r, rec)
    <3>1. [f EXCEPT !.todo = Tail(@), !.seen = Seen(r, rec), !.failed = TRUE] \in Frame
      BY <1>0, <1>1 DEF Frame, Records
    <3> QED  BY <2>2, <3>1 DEF InsertFails, Note, TypeOK
  <2>3. CASE SkipRecord(r)
    <3>1. [f EXCEPT !.todo = Tail(@)] \in Frame
      BY <1>0, <1>1 DEF Frame, Records
    <3> QED  BY <2>3, <3>1 DEF SkipRecord, Note, TypeOK
  <2> QED  BY <2>1, <2>2, <2>3 DEF Store
<1>3. Timer'
  BY <1>0, TimerKept
<1> QED  BY <1>0, <1>2, <1>3 DEF TypeOK, NoticeType

\* The statistics of a branch keep the types.
LEMMA InsertStatTyped ==
    ASSUME TypeOK, Timer, NEW r \in Runs, InsertStat(r)
    PROVE  (TypeOK /\ Timer)'
<1> DEFINE f == frame[r]
           Row(b) == [run |-> r, year |-> f.year, branch |-> b, count |-> f.counts[b],
                      day |-> Day(now)]
<1>0. /\ f \in Frame
      /\ UNCHANGED <<now, notices, jobDay, orders, pc, alarm, holder>>
  BY DEF TypeOK, InsertStat, KeepClock
<1>1. PICK b \in Branches, stored \in BOOLEAN :
        /\ stats' = IF stored THEN stats \cup {Row(b)} ELSE stats
        /\ frame' = [frame EXCEPT ![r] = [f EXCEPT !.counts[b] = 0,
                                             !.whole = @ /\ stored /\ f.day = Day(now)]]
  BY DEF InsertStat, Note
<1>2. Row(b) \in StatRow
  <2>1. Day(now) \in Nat
    BY DayBounds DEF TypeOK
  <2> QED  BY <1>0, <2>1 DEF StatRow, Frame
<1>3. [f EXCEPT !.counts[b] = 0, !.whole = @ /\ stored /\ f.day = Day(now)] \in Frame
  <2>1. [f.counts EXCEPT ![b] = 0] \in [Branches -> Nat]
    BY <1>0 DEF Frame
  <2>2. (f.whole /\ stored /\ f.day = Day(now)) \in BOOLEAN
    OBVIOUS
  <2> QED  BY <1>0, <2>1, <2>2 DEF Frame
<1>4. Timer'
  BY <1>0, TimerKept
<1>5. stats' \subseteq StatRow
  BY <1>1, <1>2 DEF TypeOK
<1>6. frame' \in [Runs -> Frame]
  BY <1>1, <1>3 DEF TypeOK
<1> QED  BY <1>0, <1>4, <1>5, <1>6 DEF TypeOK, NoticeType

\* The other steps of a refresh keep the types; an error sends the scheduler to sleep
\* until the next two o'clock.
LEMMA RunTyped ==
    ASSUME TypeOK, Timer, NEW r \in Runs,
           Truncate(r) \/ DeleteStats(r) \/ GetToken(r) \/ Fail(r) \/ EndOfYear(r)
    PROVE  (TypeOK /\ Timer)'
<1>0. frame[r] \in Frame /\ now \in Nat /\ jobDay \in Nat
  BY RefreshAssumption DEF TypeOK
<1>1. CASE Truncate(r)
  <2>1. TypeOK'
    BY <1>1, NewFrameTyped DEF Truncate, Goto, KeepClock, TypeOK, NoticeType, Pc
  <2>2. Timer'
    BY <1>1, TimerKept DEF Truncate, Goto, KeepClock, TypeOK
  <2> QED  BY <2>1, <2>2
<1>2. CASE DeleteStats(r)
  <2>1. [frame[r] EXCEPT !.day = Day(now)] \in Frame
    BY <1>0, DayBounds DEF Frame
  <2>2. TypeOK'
    BY <1>2, <2>1 DEF DeleteStats, OtherDays, Note, Goto, KeepClock, TypeOK, NoticeType, Pc
  <2>3. Timer'
    BY <1>2, TimerKept DEF DeleteStats, Goto, KeepClock, TypeOK
  <2> QED  BY <2>2, <2>3
<1>3. CASE GetToken(r)
  <2>1. TypeOK'
    BY <1>3 DEF GetToken, Goto, KeepClock, Tables, TypeOK, NoticeType, Pc
  <2>2. Timer'
    BY <1>3, TimerKept DEF GetToken, Goto, KeepClock, TypeOK
  <2> QED  BY <2>1, <2>2
<1>4. CASE Fail(r)
  <2>1. Alarm(now) \in Nat /\ Alarm(now) % 2 = 1 /\ now < Alarm(now) /\ 2 * jobDay + 1 < Alarm(now)
    BY <1>0, AlarmLater DEF Timer
  <2>2. TypeOK'
    BY <1>4, <2>1, NewFrameTyped DEF Fail, Note, Goto, KeepClock, Tables, TypeOK, NoticeType, Pc
  <2>3. Timer'
    BY <1>4, <1>0, <2>1 DEF Fail, Goto, KeepClock, TypeOK, Timer
  <2> QED  BY <2>2, <2>3
<1>5. CASE EndOfYear(r)
  <2>1. /\ pc[r] # "sleep" /\ NextYear(r, frame[r])
        /\ UNCHANGED <<now, notices, jobDay, orders, stats, alarm, holder>>
    BY <1>5 DEF EndOfYear, KeepClock, Tables
  <2>2. /\ frame' \in [Runs -> Frame] /\ pc' \in [Runs -> Pc]
        /\ pc'[Scheduler] = "sleep" => pc[Scheduler] = "sleep"
    BY <1>0, <2>1, NextYearTyped
  <2>3. Timer'
    BY <2>1, <2>2, TimerKept
  <2> QED  BY <2>1, <2>2, <2>3 DEF TypeOK, NoticeType
<1> QED  BY <1>1, <1>2, <1>3, <1>4, <1>5

\* Inserting notices and reading them keeps their type.
LEMMA NoticesTyped ==
    ASSUME NoticeType, NEW t \in Nat,
           \/ \E open \in SUBSET Items : InsertDue(open, t)
           \/ MarkAllRead(t)
           \/ \E i \in Items : MarkRead(i, t)
    PROVE  NoticeType'
<1>1. ASSUME NEW i \in Items PROVE notices[i] \in Seq(Nat) /\ Append(notices[i], Unread) \in Seq(Nat)
  BY DEF NoticeType, Unread
<1>2. ASSUME NEW i \in Items, NEW k \in 1..Len(notices[i])
      PROVE  ReadAt(notices[i][k], t) \in Nat
  BY <1>1 DEF ReadAt
<1>3. CASE \E open \in SUBSET Items : InsertDue(open, t)
  BY <1>1, <1>3 DEF InsertDue, NoticeType
<1>4. CASE MarkAllRead(t)
  <2>1. ASSUME NEW i \in Items
        PROVE  [k \in 1..Len(notices[i]) |-> ReadAt(notices[i][k], t)] \in Seq(Nat)
    <3>1. Len(notices[i]) \in Nat
      BY <1>1
    <3> QED  BY <1>2, <3>1
  <2> QED  BY <1>4, <2>1 DEF MarkAllRead, NoticeType
<1>5. CASE \E i \in Items : MarkRead(i, t)
  <2>1. PICK i \in Items : MarkRead(i, t)
    BY <1>5
  <2>2. PICK k \in 1..Len(notices[i]) : notices' = [notices EXCEPT ![i][k] = ReadAt(@, t)]
    BY <2>1 DEF MarkRead
  <2>3. [notices[i] EXCEPT ![k] = ReadAt(notices[i][k], t)] \in Seq(Nat)
    BY <1>1, <1>2, ExceptSeq
  <2> QED  BY <2>2, <2>3 DEF NoticeType
<1> QED  BY <1>3, <1>4, <1>5

\* What the scheduler and the user do keeps the types and the timer.
LEMMA RestTyped ==
    ASSUME TypeOK, Timer, Wake \/ Due \/ ReadNotices \/ Crash \/ Tick
    PROVE  (TypeOK /\ Timer)'
<1>0. /\ now \in Nat /\ jobDay \in Nat /\ alarm \in Nat /\ Day(now) \in Nat
      /\ 2 * Day(now) <= now /\ now < 2 * Day(now) + 2
  BY RefreshAssumption, DayBounds DEF TypeOK
<1>1. Alarm(now) \in Nat /\ Alarm(now) % 2 = 1 /\ now < Alarm(now) /\ 2 * jobDay + 1 < Alarm(now)
  BY <1>0, AlarmLater DEF Timer
<1>2. CASE Wake
  <2>1. TypeOK'
    BY <1>0, <1>2 DEF Wake, Goto, Tables, TypeOK, NoticeType, Pc
  <2>2. now = alarm
    BY <1>0, <1>2 DEF Wake, Timer
  <2>3. now % 2 = 1
    BY <2>2 DEF Timer
  <2>4. 2 * Day(now) + 1 <= now
    BY <1>0, <2>3 DEF Day
  <2>5. Timer'
    BY <1>2, <2>4 DEF Wake, Goto, Timer, TypeOK, Runs
  <2> QED  BY <2>1, <2>5
<1>3. CASE Due
  <2>1. NoticeType'
    BY <1>0, <1>3, NoticesTyped DEF Due, TypeOK, NoticeType
  <2>2. TypeOK'
    BY <1>1, <1>3, <2>1 DEF Due, Goto, Tables, TypeOK, Pc
  <2>3. Timer'
    BY <1>0, <1>1, <1>3 DEF Due, Goto, Timer
  <2> QED  BY <2>2, <2>3
<1>4. CASE ReadNotices
  <2>1. NoticeType'
    BY <1>0, <1>4, NoticesTyped DEF ReadNotices, TypeOK
  <2> QED  BY <1>4, <2>1, TimerKept DEF ReadNotices, Tables, TypeOK
<1>5. CASE Crash
  <2>1. TypeOK'
    BY <1>1, <1>5, NewFrameTyped DEF Crash, Tables, TypeOK, NoticeType, Pc
  <2>2. Timer'
    BY <1>0, <1>1, <1>5 DEF Crash, Timer, Runs
  <2> QED  BY <2>1, <2>2
<1>6. CASE Tick
  <2>1. TypeOK'
    BY <1>0, <1>6, RefreshAssumption DEF Tick, Tables, TypeOK, NoticeType
  <2>2. Timer'
    BY <1>0, <1>6 DEF Tick, Timer
  <2> QED  BY <2>1, <2>2
<1> QED  BY <1>2, <1>3, <1>4, <1>5, <1>6

\* Every step keeps the types and the timer.
LEMMA NextTyped == TypeOK /\ Timer /\ [Next]_vars => (TypeOK /\ Timer)'
<1> SUFFICES ASSUME TypeOK, Timer, [Next]_vars PROVE (TypeOK /\ Timer)'
  OBVIOUS
<1>1. CASE \E r \in Runs : Step(r) \/ GetToken(r) \/ Fail(r)
  BY <1>1, FetchTyped, StoreTyped, InsertStatTyped, RunTyped, RestTyped DEF Step
<1>2. CASE Wake \/ ReadNotices \/ Crash \/ Tick
  BY <1>2, RestTyped
<1>3. CASE UNCHANGED vars
  BY <1>3 DEF vars, TypeOK, NoticeType, Timer
<1> QED  BY <1>1, <1>2, <1>3 DEF Next

\* The variables keep their types.
THEOREM TypeCorrect == Spec => []TypeOK
<1>1. Init => TypeOK /\ Timer
  BY InitTyped
<1>2. TypeOK /\ Timer /\ [Next]_vars => (TypeOK /\ Timer)'
  BY NextTyped
<1> QED  BY <1>1, <1>2, PTL DEF Spec

\* A step of a run moves no other run.
LEMMA OwnCounter ==
    ASSUME NEW r \in Runs, Step(r) \/ GetToken(r) \/ Fail(r), pc \in [Runs -> Pc]
    PROVE  \A q \in Runs \ {r} : pc'[q] = pc[q]
<1>1. UNCHANGED pc \/ \E label : Goto(r, label)
  <2>1. CASE Truncate(r) \/ DeleteStats(r) \/ GetToken(r) \/ Fail(r)
    BY <2>1 DEF Truncate, DeleteStats, GetToken, Fail
  <2>2. CASE Store(r) \/ InsertStat(r)
    BY <2>2 DEF Store, InsertStat
  <2>3. CASE Fetch(r) \/ EndOfYear(r)
    <3>1. ASSUME NEW f, NextYear(r, f) PROVE \E label : Goto(r, label)
      BY <3>1 DEF NextYear
    <3> QED  BY <2>3, <3>1 DEF Fetch, Answered, Retry, NoRecords, EndOfYear
  <2>4. CASE r = Scheduler /\ Due
    BY <2>4 DEF Due
  <2> QED  BY <2>1, <2>2, <2>3, <2>4 DEF Step
<1> QED  BY <1>1 DEF Goto

\* A scheduled refresh starts at most once a day (scheduler.go:30-41), for any length of
\* the runs and any restarts.
THEOREM DailyOnce == Spec => OncePerDay
<1>1. ASSUME TypeOK, Timer, [Next]_vars
      PROVE  [pc[Scheduler] = "sleep" /\ pc'[Scheduler] = "truncate" => Day(now) > jobDay]_vars
  <2> SUFFICES ASSUME pc[Scheduler] = "sleep", pc'[Scheduler] = "truncate"
               PROVE  Day(now) > jobDay
    OBVIOUS
  <2>0. /\ now \in Nat /\ jobDay \in Nat /\ alarm \in Nat /\ Day(now) \in Nat
        /\ now < 2 * Day(now) + 2
    BY <1>1, RefreshAssumption, DayBounds DEF TypeOK
  <2>1. Wake
    <3>1. ASSUME NEW r \in Runs, Step(r) \/ GetToken(r) \/ Fail(r) PROVE FALSE
      <4>1. pc[r] # "sleep"
        BY <3>1 DEF Step, Truncate, DeleteStats, GetToken, Fail, Fetch, Answered, Retry,
                    NoRecords, Store, InsertStat, EndOfYear, Due
      <4>2. r # Scheduler => pc'[Scheduler] = pc[Scheduler]
        BY <1>1, <3>1, OwnCounter DEF TypeOK, Runs
      <4> QED  BY <4>1, <4>2
    <3> QED  BY <1>1, <3>1 DEF Next, ReadNotices, Crash, Tick, Runs, vars
  <2>2. alarm <= now /\ 2 * jobDay + 1 < alarm /\ now <= alarm /\ alarm % 2 = 1
    BY <1>1, <2>0, <2>1 DEF Wake, Timer
  <2> QED  BY <2>0, <2>2 DEF Day
<1>2. Init => TypeOK /\ Timer
  BY InitTyped
<1>3. TypeOK /\ Timer /\ [Next]_vars => (TypeOK /\ Timer)'
  BY NextTyped
<1> QED  BY <1>1, <1>2, <1>3, PTL DEF Spec, OncePerDay

\* What a step may do to the notices.
LEMMA NoticeSteps ==
    ASSUME [Next]_vars
    PROVE  \/ UNCHANGED notices
           \/ \E open \in SUBSET Items : InsertDue(open, Day(now))
           \/ MarkAllRead(now)
           \/ \E i \in Items : MarkRead(i, now)
<1>1. ASSUME NEW r \in Runs, GetToken(r) \/ Fail(r) \/ Truncate(r) \/ DeleteStats(r) \/ Fetch(r)
                             \/ Store(r) \/ InsertStat(r) \/ EndOfYear(r)
      PROVE  UNCHANGED notices
  BY <1>1 DEF GetToken, Fail, Truncate, DeleteStats, Fetch, Store, InsertStat, EndOfYear, KeepClock
<1>2. CASE Due
  BY <1>2 DEF Due
<1>3. CASE ReadNotices
  BY <1>3 DEF ReadNotices
<1>4. CASE Wake \/ Crash \/ Tick \/ UNCHANGED vars
  BY <1>4 DEF Wake, Crash, Tick, vars
<1> QED  BY <1>1, <1>2, <1>3, <1>4 DEF Next, Step

\* The owner of an item is warned once (Notifications.go:201-208): the INSERT looks for any
\* notice, and reading one does not take it away.
THEOREM OneWarning == Spec => []WarnedOnce
<1>1. Init => WarnedOnce
  <2> SUFFICES ASSUME Init, NEW i \in Items PROVE Len(notices[i]) <= 1
    BY DEF WarnedOnce
  <2>1. notices[i] = <<>>
    BY DEF Init, NoticeInit
  <2> QED  BY <2>1
<1>2. ASSUME TypeOK, WarnedOnce, [Next]_vars PROVE WarnedOnce'
  <2>0. ASSUME NEW i \in Items PROVE notices[i] \in Seq(Nat) /\ Len(notices[i]) <= 1
    BY <1>2 DEF TypeOK, NoticeType, WarnedOnce
  <2>1. CASE UNCHANGED notices
    BY <1>2, <2>1 DEF WarnedOnce
  <2>2. ASSUME NEW open \in SUBSET Items, InsertDue(open, Day(now)) PROVE WarnedOnce'
    <3>1. SUFFICES ASSUME NEW i \in Items PROVE Len(notices'[i]) <= 1
      BY DEF WarnedOnce
    <3>2. CASE notices'[i] = notices[i]
      BY <2>0, <3>2
    <3>3. CASE notices[i] = <<>> /\ notices'[i] = Append(notices[i], Unread)
      BY <3>3 DEF Unread
    <3> QED  BY <2>2, <3>2, <3>3 DEF InsertDue, Announced
  <2>3. CASE MarkAllRead(now)
    <3>1. SUFFICES ASSUME NEW i \in Items PROVE Len(notices'[i]) <= 1
      BY DEF WarnedOnce
    <3>2. notices'[i] = [k \in 1..Len(notices[i]) |-> ReadAt(notices[i][k], now)]
      BY <2>3 DEF MarkAllRead
    <3>3. Len(notices[i]) \in Nat
      BY <2>0
    <3>4. Len(notices'[i]) = Len(notices[i])
      BY <3>2, <3>3
    <3> QED  BY <2>0, <3>4
  <2>4. ASSUME NEW j \in Items, MarkRead(j, now) PROVE WarnedOnce'
    <3>1. PICK k \in 1..Len(notices[j]) : notices' = [notices EXCEPT ![j][k] = ReadAt(@, now)]
      BY <2>4 DEF MarkRead
    <3>2. SUFFICES ASSUME NEW i \in Items PROVE Len(notices'[i]) <= 1
      BY DEF WarnedOnce
    <3>3. CASE i # j
      BY <1>2, <2>0, <3>1, <3>3 DEF TypeOK, NoticeType
    <3>4. CASE i = j
      <4>1. notices'[j] = [notices[j] EXCEPT ![k] = ReadAt(notices[j][k], now)]
        BY <1>2, <3>1 DEF TypeOK, NoticeType
      <4> QED  BY <2>0, <3>4, <4>1
    <3> QED  BY <3>3, <3>4
  <2> QED  BY <1>2, <2>1, <2>2, <2>3, <2>4, NoticeSteps
<1> QED  BY <1>1, <1>2, TypeCorrect, PTL DEF Spec

\* A notice keeps the time when it was first read (Notifications.go:129, 155).
THEOREM FirstReading == Spec => FirstReadStays
<1> DEFINE Stays == \A i \in Items : \A k \in 1..Len(notices[i]) :
                        notices[i][k] # Unread => notices'[i][k] = notices[i][k]
<1>1. ASSUME TypeOK, [Next]_vars PROVE Stays
  <2> SUFFICES ASSUME NEW i \in Items, NEW k \in 1..Len(notices[i]), notices[i][k] # Unread
               PROVE  notices'[i][k] = notices[i][k]
    OBVIOUS
  <2>0. notices[i] \in Seq(Nat)
    BY <1>1 DEF TypeOK, NoticeType
  <2>1. CASE UNCHANGED notices
    BY <2>1
  <2>2. CASE \E open \in SUBSET Items : InsertDue(open, Day(now))
    BY <2>0, <2>2 DEF InsertDue
  <2>3. CASE MarkAllRead(now)
    BY <2>0, <2>3 DEF MarkAllRead, ReadAt
  <2>4. ASSUME NEW j \in Items, MarkRead(j, now) PROVE notices'[i][k] = notices[i][k]
    <3>1. PICK n \in 1..Len(notices[j]) : notices' = [notices EXCEPT ![j][n] = ReadAt(@, now)]
      BY <2>4 DEF MarkRead
    <3>2. CASE i # j
      BY <1>1, <3>1, <3>2 DEF TypeOK, NoticeType
    <3>3. CASE i = j
      <4>1. notices'[j] = [notices[j] EXCEPT ![n] = ReadAt(notices[j][n], now)]
        BY <1>1, <3>1 DEF TypeOK, NoticeType
      <4> QED  BY <2>0, <3>3, <4>1 DEF ReadAt
    <3> QED  BY <3>2, <3>3
  <2> QED  BY <1>1, <2>1, <2>2, <2>3, <2>4, NoticeSteps
<1>2. TypeOK /\ [Next]_vars => [Stays]_vars
  BY <1>1
<1> QED  BY <1>2, TypeCorrect, PTL DEF Spec, FirstReadStays

\* The table holds what the holder has stored, once, and nobody else is at work on it.
Matches ==
    LET f == frame[holder] IN
    /\ f.seen \subseteq Named
    /\ \A o \in Named : orders[o] <= 1 /\ (o \notin f.seen => orders[o] = 0)
    /\ ~f.failed => \A o \in f.seen : orders[o] = 1

\* Without a failure, the holder got an answer for each year it is through with.
Heard ==
    LET f == frame[holder] IN
    ~f.failed => f.got = IF pc[holder] \in {"deleteStats", "token"} THEN 0
                         ELSE IF pc[holder] = "fetch" THEN f.year - 1
                         ELSE IF pc[holder] = "insert" THEN f.year
                         ELSE Years

AtFirstYear == pc[holder] \in {"deleteStats", "token"} => frame[holder].year = 1

Alone == \A q \in Runs \ {holder} : ~Underway(q)

Held == holder # Nobody => Alone /\ Matches /\ Heard /\ AtFirstYear

\* What is held is stored once.
LEMMA HeldStores == TypeOK /\ Held => StoredOnce
BY DEF TypeOK, Held, Matches, Heard, StoredOnce, Underway

\* A step of a run under way can only disturb what that run itself holds.
LEMMA OwnerHeld ==
    ASSUME Held, NEW r \in Runs, Underway(r), holder' = holder,
           \A q \in Runs \ {r} : pc'[q] = pc[q],
           holder = r => (Matches /\ Heard /\ AtFirstYear)'
    PROVE  Held'
BY DEF Held, Alone, Underway

\* A step that touches neither orders nor a run under way disturbs nothing.
LEMMA QuietHeld ==
    ASSUME TypeOK, Held, UNCHANGED <<orders, holder, frame>>,
           \A q \in Runs : pc'[q] = pc[q] \/ (~Underway(q) /\ ~Underway(q)')
    PROVE  Held'
<1> SUFFICES ASSUME holder' # Nobody PROVE (Alone /\ Matches /\ Heard /\ AtFirstYear)'
  BY DEF Held
<1>1. holder \in Runs /\ Alone /\ Matches /\ Heard /\ AtFirstYear
  BY DEF TypeOK, Held
<1>2. Alone'
  BY <1>1 DEF Alone, Underway
<1>3. Matches'
  BY <1>1 DEF Matches
<1>4. (Heard /\ AtFirstYear)'
  BY <1>1 DEF Heard, AtFirstYear, Underway
<1> QED  BY <1>2, <1>3, <1>4

\* A truncation by a run that is alone makes it the holder of an empty table.
LEMMA TruncateHeld ==
    ASSUME TypeOK, NEW r \in Runs, Truncate(r)
    PROVE  Held'
<1> SUFFICES ASSUME holder' # Nobody PROVE (Alone /\ Matches /\ Heard /\ AtFirstYear)'
  BY DEF Held
<1>1. /\ holder' = r /\ \A q \in Runs : ~Underway(q)
      /\ pc' = [pc EXCEPT ![r] = "deleteStats"]
      /\ orders' = [o \in Orders |-> 0]
      /\ frame' = [q \in Runs |-> IF Underway(q) THEN frame[q] ELSE NewFrame]
  BY DEF Truncate, Goto
<1>2. frame'[holder'] = NewFrame /\ pc'[holder'] = "deleteStats"
  BY <1>1 DEF TypeOK
<1>3. Alone'
  BY <1>1 DEF Alone, Underway, TypeOK
<1>4. Matches'
  BY <1>1, <1>2 DEF Matches, NewFrame, Named
<1>5. (Heard /\ AtFirstYear)'
  BY <1>2 DEF Heard, AtFirstYear, NewFrame
<1> QED  BY <1>3, <1>4, <1>5

\* Going on to the next year, or ending, changes nothing of what is held, provided that
\* this year had an answer or there is a failure.
LEMMA NextYearHeld ==
    ASSUME TypeOK, NEW f \in Frame, NextYear(holder, f), UNCHANGED <<orders, holder>>,
           holder \in Runs, Matches,
           f.seen = frame[holder].seen,
           ~f.failed => ~frame[holder].failed /\ f.got = f.year
    PROVE  (Matches /\ Heard /\ AtFirstYear)'
<1>1. CASE MoreYears(f.year)
  <2>1. /\ frame'[holder] = [f EXCEPT !.year = @ + 1, !.attempt = 1]
        /\ pc'[holder] = "fetch"
    BY <1>1 DEF NextYear, Note, Goto, TypeOK
  <2>2. /\ frame'[holder].seen = f.seen /\ frame'[holder].failed = f.failed
        /\ frame'[holder].year = f.year + 1 /\ frame'[holder].got = f.got
    BY <2>1 DEF Frame
  <2>3. f.year \in Nat
    BY DEF Frame
  <2> QED  BY <2>1, <2>2, <2>3 DEF Matches, Heard, AtFirstYear
<1>2. CASE ~MoreYears(f.year)
  <2>1. frame'[holder] = f /\ pc'[holder] \in {"due", "done"}
    BY <1>2 DEF NextYear, Note, Goto, TypeOK
  <2>2. f.year = Years
    BY <1>2 DEF Frame, MoreYears, Years
  <2> QED  BY <2>1, <2>2 DEF Matches, Heard, AtFirstYear
<1> QED  BY <1>1, <1>2

\* One record of the holder's: the order is stored and remembered, or was.
LEMMA StoreHeld ==
    ASSUME TypeOK, NEW r \in Runs, holder = r, Store(r), Matches, Heard
    PROVE  (Matches /\ Heard /\ AtFirstYear)'
<1> DEFINE rec == Head(frame[r].todo)
           f   == frame[r]
           g   == frame'[r]
<1>0. /\ f \in Frame /\ pc[r] = "insert" /\ pc' = pc /\ holder' = holder
      /\ orders \in [Orders -> Nat] /\ frame \in [Runs -> Frame]
  BY DEF TypeOK, Store
<1>1. CASE rec \in Orders /\ ~Repeated(r, rec) /\ InsertOrder(r, rec)
  <2>1. /\ g.seen = Seen(r, rec) /\ g.failed = f.failed /\ g.got = f.got /\ g.year = f.year
        /\ orders' = [orders EXCEPT ![rec] = @ + 1]
    BY <1>0, <1>1 DEF InsertOrder, Note, Frame
  <2>2. rec \in Named => rec \notin f.seen /\ orders[rec] = 0
    BY <1>1 DEF Repeated, Matches
  <2>3. Matches'
    <3> HIDE DEF rec, g
    <3> QED  BY <1>0, <1>1, <2>1, <2>2 DEF Matches, Seen, Named, g
  <2> QED  BY <1>0, <2>1, <2>3 DEF Heard, AtFirstYear
<1>2. CASE ~Repeated(r, rec) /\ InsertFails(r, rec)
  <2>1. /\ g.seen = Seen(r, rec) /\ g.failed = TRUE
        /\ orders' = orders
    BY <1>0, <1>2 DEF InsertFails, Note, Frame
  <2>2. rec \in Named => rec \notin f.seen /\ orders[rec] = 0
    BY <1>2 DEF Repeated, Matches
  <2> QED  BY <1>0, <2>1, <2>2 DEF Matches, Seen, Named, Heard, AtFirstYear
<1>3. CASE SkipRecord(r)
  <2>1. /\ g.seen = f.seen /\ g.failed = f.failed /\ g.got = f.got /\ g.year = f.year
        /\ orders' = orders
    BY <1>0, <1>3 DEF SkipRecord, Note, Frame
  <2> QED  BY <1>0, <2>1 DEF Matches, Heard, AtFirstYear
<1> QED  BY <1>1, <1>2, <1>3 DEF Store

\* An answer, a failed attempt or a failed year of the holder's.
LEMMA FetchHeld ==
    ASSUME TypeOK, NEW r \in Runs, holder = r, Fetch(r), Matches, Heard
    PROVE  (Matches /\ Heard /\ AtFirstYear)'
<1> DEFINE f == frame[r]
           g == frame'[r]
<1>0. /\ f \in Frame /\ pc[r] = "fetch" /\ UNCHANGED <<orders, holder>>
      /\ pc \in [Runs -> Pc] /\ frame \in [Runs -> Frame]
      /\ f.year \in Nat
  <2>1. f \in Frame /\ pc \in [Runs -> Pc] /\ frame \in [Runs -> Frame]
    BY DEF TypeOK
  <2>2. pc[r] = "fetch" /\ UNCHANGED <<orders, holder>>
    BY DEF Fetch, Answered, Retry, NoRecords, Tables
  <2>3. f.year \in Nat
    BY <2>1 DEF Frame
  <2> QED  BY <2>1, <2>2, <2>3
<1>1. CASE Answered(r)
  <2>1. /\ g.seen = f.seen /\ g.failed = f.failed /\ g.got = f.got + 1 /\ g.year = f.year
        /\ pc'[r] = "insert"
    BY <1>0, <1>1 DEF Answered, Note, Goto, Frame
  <2> QED  BY <1>0, <2>1 DEF Matches, Heard, AtFirstYear
<1>2. CASE Retry(r)
  <2>1. /\ g.seen = f.seen /\ g.failed = f.failed /\ g.got = f.got /\ g.year = f.year
        /\ pc' = pc
    BY <1>0, <1>2 DEF Retry, Note, Frame
  <2> QED  BY <1>0, <2>1 DEF Matches, Heard, AtFirstYear
<1>3. CASE NoRecords(r)
  <2>1. /\ [f EXCEPT !.failed = TRUE] \in Frame
        /\ [f EXCEPT !.failed = TRUE].seen = f.seen
        /\ [f EXCEPT !.failed = TRUE].failed = TRUE
    BY <1>0 DEF Frame
  <2> QED  BY <1>0, <1>3, <2>1, NextYearHeld DEF NoRecords
<1> QED  BY <1>1, <1>2, <1>3 DEF Fetch

\* The other steps of a run under way.
LEMMA OthersHeld ==
    ASSUME TypeOK, NEW r \in Runs, holder = r, Matches, Heard, AtFirstYear,
           DeleteStats(r) \/ GetToken(r) \/ InsertStat(r) \/ EndOfYear(r)
    PROVE  (Matches /\ Heard /\ AtFirstYear)'
<1> DEFINE f == frame[r]
           g == frame'[r]
<1>0. /\ f \in Frame /\ UNCHANGED <<orders, holder>>
      /\ pc \in [Runs -> Pc] /\ frame \in [Runs -> Frame]
      /\ f.year \in Nat
  <2>1. f \in Frame /\ pc \in [Runs -> Pc] /\ frame \in [Runs -> Frame]
    BY DEF TypeOK
  <2>2. UNCHANGED <<orders, holder>>
    BY DEF DeleteStats, GetToken, InsertStat, EndOfYear, Tables
  <2>3. f.year \in Nat
    BY <2>1 DEF Frame
  <2> QED  BY <2>1, <2>2, <2>3
<1>1. CASE DeleteStats(r)
  <2>1. /\ g.seen = f.seen /\ g.failed = f.failed /\ g.got = f.got /\ g.year = f.year
        /\ pc[r] = "deleteStats" /\ pc'[r] = "token"
    BY <1>0, <1>1 DEF DeleteStats, Note, Goto, Frame
  <2> QED  BY <1>0, <2>1 DEF Matches, Heard, AtFirstYear
<1>2. CASE GetToken(r)
  <2>1. g = f /\ pc[r] = "token" /\ pc'[r] = "fetch"
    BY <1>0, <1>2 DEF GetToken, Goto
  <2> QED  BY <1>0, <2>1 DEF Matches, Heard, AtFirstYear
<1>3. CASE InsertStat(r)
  <2>1. /\ g.seen = f.seen /\ g.failed = f.failed /\ g.got = f.got /\ g.year = f.year
        /\ pc' = pc
    <3>1. PICK b \in Branches, stored \in BOOLEAN :
            frame' = [frame EXCEPT ![r] = [f EXCEPT !.counts[b] = 0,
                                               !.whole = @ /\ stored /\ f.day = Day(now)]]
      BY <1>3 DEF InsertStat, Note
    <3>2. g = [f EXCEPT !.counts[b] = 0, !.whole = @ /\ stored /\ f.day = Day(now)]
      BY <1>0, <3>1
    <3> QED  BY <1>0, <1>3, <3>2 DEF InsertStat, Frame
  <2> QED  BY <1>0, <2>1 DEF Matches, Heard, AtFirstYear
<1>4. CASE EndOfYear(r)
  <2>1. pc[r] = "insert" /\ NextYear(r, f)
    BY <1>4 DEF EndOfYear
  <2>2. ~f.failed => f.got = f.year
    BY <2>1 DEF Heard
  <2> QED  BY <1>0, <2>1, <2>2, NextYearHeld
<1> QED  BY <1>1, <1>2, <1>3, <1>4

\* An error of the holder, or a restart while it is under way, leaves nobody holding.
LEMMA StopHeld ==
    ASSUME TypeOK, Held, Crash \/ \E r \in Runs : Fail(r)
    PROVE  Held'
<1>1. CASE Crash
  <2>1. CASE holder' = Nobody
    BY <2>1 DEF Held
  <2>2. CASE holder' # Nobody
    <3>1. holder # Nobody /\ holder' = holder /\ ~Underway(holder)
      BY <1>1, <2>2 DEF Crash
    <3>2. \A q \in Runs : ~Underway(q)
      BY <3>1 DEF Held, Alone
    <3>3. frame' = frame
      BY <1>1, <3>2 DEF Crash, TypeOK
    <3>4. \A q \in Runs : ~Underway(q)'
      BY <1>1, <3>2 DEF Crash, Underway
    <3> QED  BY <1>1, <3>1, <3>2, <3>3, <3>4, QuietHeld DEF Crash, Tables
  <2> QED  BY <2>1, <2>2
<1>2. ASSUME NEW r \in Runs, Fail(r) PROVE Held'
  <2>0. /\ pc' = [pc EXCEPT ![r] = IF r = Scheduler THEN "sleep" ELSE "done"]
        /\ pc \in [Runs -> Pc] /\ frame \in [Runs -> Frame] /\ orders' = orders
    BY <1>2 DEF Fail, Goto, Tables, TypeOK
  <2>1. CASE Underway(r)
    <3>1. holder' = Nobody
      BY <1>2, <2>1 DEF Fail, Held, Alone, TypeOK
    <3> QED  BY <3>1 DEF Held
  <2>2. CASE ~Underway(r)
    <3>1. holder' = holder /\ frame' = frame
      BY <1>2, <2>0, <2>2 DEF Fail, Note
    <3>2. ~Underway(r)' /\ \A q \in Runs \ {r} : pc'[q] = pc[q]
      BY <2>0 DEF Underway
    <3> QED  BY <2>0, <2>2, <3>1, <3>2, QuietHeld
  <2> QED  BY <2>1, <2>2
<1> QED  BY <1>1, <1>2

\* Every step keeps what is held.
LEMMA NextHeld == TypeOK /\ Held /\ [Next]_vars => Held'
<1> SUFFICES ASSUME TypeOK, Held, [Next]_vars PROVE Held'
  OBVIOUS
<1>1. ASSUME NEW r \in Runs, Truncate(r) PROVE Held'
  BY <1>1, TruncateHeld
<1>2. ASSUME NEW r \in Runs,
             DeleteStats(r) \/ GetToken(r) \/ Fetch(r) \/ Store(r) \/ InsertStat(r) \/ EndOfYear(r)
      PROVE  Held'
  <2>1. Underway(r) /\ holder' = holder
    BY <1>2 DEF DeleteStats, GetToken, Fetch, Answered, Retry, NoRecords, Store, InsertStat,
                EndOfYear, Underway
  <2>2. \A q \in Runs \ {r} : pc'[q] = pc[q]
    BY <1>2, OwnCounter DEF Step, TypeOK
  <2>3. r # Nobody
    BY RefreshAssumption
  <2>4. holder = r => (Matches /\ Heard /\ AtFirstYear)'
    BY <1>2, <2>3, FetchHeld, StoreHeld, OthersHeld DEF Held
  <2> QED  BY <2>1, <2>2, <2>4, OwnerHeld
<1>3. CASE Wake \/ Due
  <2>1. \E label \in {"truncate", "sleep"} : pc' = [pc EXCEPT ![Scheduler] = label]
    BY <1>3 DEF Wake, Due, Goto
  <2>2. pc[Scheduler] \in {"sleep", "due"} /\ UNCHANGED <<orders, holder, frame>>
    BY <1>3 DEF Wake, Due, Tables
  <2>3. \A q \in Runs : pc'[q] = pc[q] \/ (~Underway(q) /\ ~Underway(q)')
    BY <2>1, <2>2 DEF Underway, TypeOK
  <2> QED  BY <2>2, <2>3, QuietHeld
<1>4. CASE ReadNotices \/ Tick \/ UNCHANGED vars
  <2>1. UNCHANGED <<orders, holder, frame, pc>>
    BY <1>4 DEF ReadNotices, Tick, Tables, vars
  <2> QED  BY <2>1, QuietHeld
<1>5. CASE Crash \/ \E r \in Runs : Fail(r)
  BY <1>5, StopHeld
<1> QED  BY <1>1, <1>2, <1>3, <1>4, <1>5 DEF Next, Step

\* As long as no other refresh comes in between, each order with a key is stored at most
\* once, and a summary without failures means that every order of both answers is there
\* (GetTotalInfo.go:311-318, 420-425, 562-565).
THEOREM StoredOnceEach == Spec => []StoredOnce
<1>1. Init => Held
  BY DEF Init, Held
<1>2. TypeOK /\ Held /\ [Next]_vars => Held'
  BY NextHeld
<1>3. Spec => []Held
  BY <1>1, <1>2, TypeCorrect, PTL DEF Spec
<1> QED  BY <1>3, TypeCorrect, HeldStores, PTL

-----------------------------------------------------------------------------
(* The figures: the summary, and the statistics by branch.                 *)

\* What the table of orders holds is a sum in the sense of SumLemmas, now and after a step.
LEMMA RowsSummed ==
    ASSUME NEW S
    PROVE  /\ Rows(S) = SumOver(orders, S)
           /\ Rows(S)' = SumOver(orders', S)
<1>1. Rows(S) = SumOver(orders, S)
  BY DEF Rows, MapThenSumSet, MapThenFoldSet, SumOver, SumsOf, Sums, AnyOf
<1>2. Rows(S)' = SumOver(orders', S)
  BY DEF Rows, MapThenSumSet, MapThenFoldSet, SumOver, SumsOf, Sums, AnyOf
<1> QED  BY <1>1, <1>2

CountOf == [s \in StatRow |-> s.count]

\* So is what the statistics count.
LEMMA CountsSummed ==
    ASSUME NEW S \in SUBSET StatRow, IsFiniteSet(S)
    PROVE  MapThenSumSet(LAMBDA s : s.count, S) = SumOver(CountOf, S)
<1> DEFINE Added(g) == [s \in SUBSET S |-> IF s = {} THEN 0 ELSE AnyOf(s).count + g[s \ {AnyOf(s)}]]
           Total == CHOOSE g : g = Added(g)
<1>1. MapThenSumSet(LAMBDA s : s.count, S) = Total[S]
  BY DEF MapThenSumSet, MapThenFoldSet, AnyOf
<1>2. ASSUME NEW g PROVE g = Added(g) <=> Sums(g, CountOf, S)
  <2>1. ASSUME NEW s \in SUBSET S, s # {} PROVE AnyOf(s).count = CountOf[AnyOf(s)]
    BY <2>1, AnyIn DEF CountOf
  <2> QED  BY <2>1 DEF Sums
<1>3. Sums(SumsOf(CountOf, S), CountOf, S)
  BY SumsExist
<1>4. Total = Added(Total)
  <2>1. \E g : g = Added(g)
    BY <1>2, <1>3
  <2> HIDE DEF Added
  <2> QED  BY <2>1
<1>5. Sums(Total, CountOf, S)
  BY <1>2, <1>4
<1> HIDE DEF Total
<1> QED  BY <1>1, <1>5, SumIs

-----------------------------------------------------------------------------
\* No row of statistics is of a day to come.
StatsPast == IsFiniteSet(stats) /\ \A s \in stats : s.day <= Day(now)

\* The orders of a branch, and the rows the holder has left of it today.
Of(b)     == {o \in Orders : Branch[o] = b}
Todays(b) == {s \in stats : s.branch = b /\ s.day = frame[holder].day}

\* The summary counts the rows of the table.
Summed == SumOver(orders, Orders) = frame[holder].stored

\* Orders are counted during a year only, and none before the statistics are deleted.
Counted ==
    /\ pc[holder] # "insert" => frame[holder].counts = NoCounts
    /\ pc[holder] = "deleteStats" => \A o \in Orders : orders[o] = 0

\* Nothing is later than the holder's day, nor of a later year on that day.
Latest ==
    \A s \in stats : /\ s.day <= frame[holder].day
                     /\ s.day = frame[holder].day => s.year <= frame[holder].year

\* A row that the holder is about to insert is not there.
Fresh ==
    pc[holder] \in {"token", "fetch", "insert"} =>
        \A s \in stats :
            s.day = frame[holder].day /\ s.year = frame[holder].year =>
                /\ pc[holder] = "insert" /\ frame[holder].todo = <<>>
                /\ frame[holder].counts[s.branch] = 0

\* What there is of a branch is in its rows or still counted.
Tallied ==
    \A b \in Branches :
        SumOver(orders, Of(b)) = SumOver(CountOf, Todays(b)) + frame[holder].counts[b]

Filed == frame[holder].whole /\ pc[holder] # "deleteStats" => Latest /\ Fresh /\ Tallied

Balanced == Summed /\ Counted /\ Filed

Sound == StatsPast /\ (holder # Nobody => Balanced)

\* The sets that are summed over are finite, and the summands are numbers.
LEMMA Summable ==
    ASSUME TypeOK, StatsPast, NEW b
    PROVE  /\ IsFiniteSet(Orders) /\ IsFiniteSet(Of(b)) /\ Of(b) \in SUBSET Orders
           /\ IsFiniteSet(Todays(b)) /\ Todays(b) \in SUBSET StatRow
           /\ \A s \in StatRow : CountOf[s] = s.count /\ CountOf[s] \in Nat
<1>1. IsFiniteSet(Orders) /\ Of(b) \in SUBSET Orders
  BY RefreshAssumption DEF Of
<1>2. IsFiniteSet(Of(b))
  BY <1>1, FS_Subset
<1>3. Todays(b) \in SUBSET stats /\ stats \in SUBSET StatRow
  BY DEF TypeOK, Todays
<1>4. IsFiniteSet(Todays(b))
  BY <1>3, FS_Subset DEF StatsPast
<1>5. \A s \in StatRow : CountOf[s] = s.count /\ CountOf[s] \in Nat
  BY DEF CountOf, StatRow
<1> QED  BY <1>1, <1>2, <1>3, <1>4, <1>5

\* A step that leaves the tables and the holder's locals alone, and does not move it
\* while it is under way.
LEMMA QuietBalanced ==
    ASSUME Balanced, UNCHANGED <<orders, stats, holder>>, frame'[holder] = frame[holder],
           \/ pc'[holder] = pc[holder]
           \/ ~Underway(holder) /\ pc'[holder] \notin {"deleteStats", "token", "fetch", "insert"}
    PROVE  Balanced'
<1>1. Summed'
  BY DEF Balanced, Summed
<1>2. Counted'
  BY DEF Balanced, Counted, Underway
<1>3. \A b : Todays(b)' = Todays(b)
  BY DEF Todays
<1>4. Filed'
  BY <1>3 DEF Balanced, Filed, Latest, Fresh, Tallied, Underway
<1> QED  BY <1>1, <1>2, <1>4 DEF Balanced

\* A truncation leaves nothing to count.
LEMMA TruncateBalanced ==
    ASSUME TypeOK, NEW r \in Runs, Truncate(r), holder' # Nobody
    PROVE  Balanced'
<1>1. /\ holder' = r /\ pc'[r] = "deleteStats" /\ orders' = [o \in Orders |-> 0]
      /\ frame'[r] = NewFrame
  BY DEF Truncate, Goto, TypeOK
<1>2. SumOver(orders', Orders) = 0
  BY <1>1, SumZero, RefreshAssumption
<1>3. NewFrame.stored = 0 /\ NewFrame.counts = NoCounts
  BY DEF NewFrame
<1> QED  BY <1>1, <1>2, <1>3 DEF Balanced, Summed, Counted, Filed

\* The rows of the day are deleted before any is counted.
LEMMA DeleteBalanced ==
    ASSUME TypeOK, StatsPast, NEW r \in Runs, holder = r, DeleteStats(r), Balanced
    PROVE  Balanced'
<1> DEFINE f == frame[r]
           g == frame'[r]
<1>1. /\ pc[r] = "deleteStats" /\ pc'[r] = "token" /\ UNCHANGED <<orders, holder>>
      /\ g = [f EXCEPT !.day = Day(now)] /\ f \in Frame
      /\ stats' = {s \in stats : s.day # Day(now)}
  BY DEF DeleteStats, Goto, Note, OtherDays, TypeOK
<1>2. /\ g.day = Day(now) /\ g.year = f.year /\ g.counts = f.counts /\ g.stored = f.stored
      /\ f.counts = NoCounts
  BY <1>1 DEF Frame, Balanced, Counted
<1>3. Summed' /\ Counted'
  BY <1>1, <1>2 DEF Balanced, Summed, Counted
<1>4. Latest' /\ Fresh'
  <2>1. \A s \in stats' : s.day <= g.day /\ s.day # g.day
    BY <1>1, <1>2 DEF StatsPast
  <2> QED  BY <1>1, <2>1 DEF Latest, Fresh
<1>5. Tallied'
  <2> SUFFICES ASSUME NEW b \in Branches
               PROVE  SumOver(orders', Of(b)) = SumOver(CountOf, Todays(b)') + g.counts[b]
    BY <1>1 DEF Tallied
  <2>1. Todays(b)' = {}
    BY <1>1, <1>2 DEF Todays
  <2>2. SumOver(CountOf, Todays(b)') = 0
    BY <2>1, SumEmpty
  <2>3. g.counts[b] = 0
    BY <1>2 DEF NoCounts
  <2>4. SumOver(orders', Of(b)) = 0
    <3>1. IsFiniteSet(Of(b)) /\ \A o \in Of(b) : orders'[o] = 0
      BY <1>1, Summable DEF Balanced, Counted
    <3> QED  BY <3>1, SumZero
  <2> QED  BY <2>2, <2>3, <2>4
<1> QED  BY <1>3, <1>4, <1>5 DEF Balanced, Filed

\* The token, an answer and a failed attempt change no figure.
LEMMA FetchBalanced ==
    ASSUME TypeOK, NEW r \in Runs, holder = r, Balanced, UNCHANGED <<orders, stats, holder>>,
           pc[r] \in {"token", "fetch"}, pc'[r] \in {"token", "fetch", "insert"},
           LET f == frame[r] g == frame'[r] IN
              /\ g.stored = f.stored /\ g.day = f.day /\ g.year = f.year /\ g.whole = f.whole
              /\ g.counts = NoCounts
    PROVE  Balanced'
<1>1. Summed' /\ Counted'
  BY DEF Balanced, Summed, Counted
<1>2. \A b : Todays(b)' = Todays(b)
  BY DEF Todays
<1>3. frame[r].counts = NoCounts
  BY DEF Balanced, Counted
<1>4. frame[r].whole /\ pc[r] # "deleteStats" => Latest' /\ Fresh' /\ Tallied'
  BY <1>2, <1>3 DEF Balanced, Filed, Latest, Fresh, Tallied
<1> QED  BY <1>1, <1>4 DEF Balanced, Filed

\* A further year begins without rows; the end changes no figure.
LEMMA NextYearBalanced ==
    ASSUME TypeOK, NEW r \in Runs, holder = r, Balanced, UNCHANGED <<orders, stats, holder>>,
           pc[r] \in {"fetch", "insert"}, NEW f \in Frame, NextYear(r, f),
           LET e == frame[r] IN
              /\ f.stored = e.stored /\ f.day = e.day /\ f.year = e.year /\ f.whole = e.whole
              /\ f.counts = e.counts /\ f.counts = NoCounts
    PROVE  Balanced'
<1> DEFINE g == frame'[r]
<1>1. /\ g.stored = f.stored /\ g.day = f.day /\ g.whole = f.whole /\ g.counts = f.counts
      /\ \/ pc'[r] = "fetch" /\ g.year = f.year + 1
         \/ pc'[r] \in {"due", "done"} /\ g.year = f.year
  <2>1. CASE MoreYears(f.year)
    <3>1. g = [f EXCEPT !.year = @ + 1, !.attempt = 1] /\ pc'[r] = "fetch"
      BY <2>1 DEF NextYear, Note, Goto, TypeOK
    <3> QED  BY <3>1 DEF Frame
  <2>2. CASE ~MoreYears(f.year)
    <3>1. g = f /\ pc'[r] \in {"due", "done"}
      BY <2>2 DEF NextYear, Note, Goto, TypeOK
    <3> QED  BY <3>1
  <2> QED  BY <2>1, <2>2
<1> HIDE DEF g
<1>2. Summed' /\ Counted'
  BY <1>1 DEF Balanced, Summed, Counted, g
<1>3. \A b : Todays(b)' = Todays(b)
  BY <1>1 DEF Todays, g
<1>4. \A s \in stats : s.year \in Nat
  BY DEF TypeOK, StatRow
<1>5. f.year \in Nat
  BY DEF Frame
<1>6. frame[r].whole /\ pc[r] # "deleteStats" => Latest' /\ Fresh'
  BY <1>1, <1>4, <1>5 DEF Balanced, Filed, Latest, Fresh, g
<1>7. frame[r].whole /\ pc[r] # "deleteStats" => Tallied'
  BY <1>1, <1>3 DEF Balanced, Filed, Tallied, g
<1> QED  BY <1>1, <1>2, <1>6, <1>7 DEF Balanced, Filed, g

\* A stored order is counted in the summary and in its branch; any other record nowhere.
LEMMA StoreBalanced ==
    ASSUME TypeOK, StatsPast, NEW r \in Runs, holder = r, Store(r), Balanced
    PROVE  Balanced'
<1> DEFINE rec == Head(frame[r].todo)
           f   == frame[r]
           g   == frame'[r]
<1>0. /\ f \in Frame /\ frame \in [Runs -> Frame] /\ pc[r] = "insert" /\ f.todo # <<>>
      /\ UNCHANGED <<stats, pc, holder>> /\ orders \in [Orders -> Nat]
  BY DEF Store, TypeOK
<1>1. f.whole => Latest /\ \A s \in stats : ~(s.day = f.day /\ s.year = f.year)
  BY <1>0 DEF Balanced, Filed, Fresh
<1>2. CASE rec \in Orders /\ InsertOrder(r, rec)
  <2>1. /\ g.stored = f.stored + 1 /\ g.day = f.day /\ g.year = f.year /\ g.whole = f.whole
        /\ g.counts = [b \in Branches |-> IF b = Branch[rec] THEN f.counts[b] + 1 ELSE f.counts[b]]
    BY <1>0, <1>2 DEF InsertOrder, Note, Frame
  <2>2. \A o \in Orders : orders'[o] = IF o = rec THEN orders[o] + 1 ELSE orders[o]
    BY <1>0, <1>2 DEF InsertOrder
  <2> HIDE DEF rec, g
  <2>3. Summed'
    <3>1. SumOver(orders', Orders) = SumOver(orders, Orders) + 1
      <4>1. IsFiniteSet(Orders) /\ rec \in Orders /\ \A o \in Orders : orders[o] \in Nat
        BY <1>0, <1>2, RefreshAssumption
      <4> QED  BY <2>2, <4>1, SumBump
    <3> QED  BY <1>0, <2>1, <3>1 DEF Balanced, Summed, g
  <2>4. Counted'
    BY <1>0 DEF Counted
  <2>5. ASSUME f.whole PROVE Latest' /\ Fresh'
    BY <1>0, <1>1, <2>1, <2>5 DEF Latest, Fresh, g
  <2>6. ASSUME f.whole PROVE Tallied'
    <3> SUFFICES ASSUME NEW b \in Branches
                 PROVE  SumOver(orders', Of(b)) = SumOver(CountOf, Todays(b)') + g.counts[b]
      BY <1>0 DEF Tallied, g
    <3>1. SumOver(orders, Of(b)) = SumOver(CountOf, Todays(b)) + f.counts[b]
      BY <1>0, <2>6 DEF Balanced, Filed, Tallied
    <3>2. Todays(b)' = Todays(b)
      BY <1>0, <2>1 DEF Todays, g
    <3>3. SumOver(CountOf, Todays(b)) \in Nat /\ f.counts[b] \in Nat
      BY <1>0, Summable, SumNat DEF Frame
    <3>4. CASE Branch[rec] = b
      <4>1. rec \in Of(b)
        BY <1>2, <3>4 DEF Of
      <4>2. SumOver(orders', Of(b)) = SumOver(orders, Of(b)) + 1
        BY <1>0, <2>2, <4>1, Summable, SumBump
      <4>3. g.counts[b] = f.counts[b] + 1
        BY <2>1, <3>4
      <4> QED  BY <3>1, <3>2, <3>3, <4>2, <4>3
    <3>5. CASE Branch[rec] # b
      <4>1. \A o \in Of(b) : orders'[o] = orders[o]
        BY <2>2, <3>5 DEF Of
      <4>2. SumOver(orders', Of(b)) = SumOver(orders, Of(b))
        BY <4>1, Summable, SumSame
      <4>3. g.counts[b] = f.counts[b]
        BY <2>1, <3>5
      <4> QED  BY <3>1, <3>2, <4>2, <4>3
    <3> QED  BY <3>4, <3>5
  <2> QED  BY <1>0, <2>1, <2>3, <2>4, <2>5, <2>6 DEF Balanced, Filed, g
<1>3. CASE InsertFails(r, rec) \/ SkipRecord(r)
  <2>1. /\ g.stored = f.stored /\ g.day = f.day /\ g.year = f.year /\ g.whole = f.whole
        /\ g.counts = f.counts /\ orders' = orders
    <3>1. CASE InsertFails(r, rec)
      BY <1>0, <3>1 DEF InsertFails, Note, Frame
    <3>2. CASE SkipRecord(r)
      BY <1>0, <3>2 DEF SkipRecord, Note, Frame
    <3> QED  BY <1>3, <3>1, <3>2
  <2> HIDE DEF rec, g
  <2>2. Summed' /\ Counted'
    BY <1>0, <2>1 DEF Balanced, Summed, Counted, g
  <2>3. \A b : Todays(b)' = Todays(b)
    BY <1>0, <2>1 DEF Todays, g
  <2>4. f.whole => Latest' /\ Fresh'
    BY <1>0, <1>1, <2>1 DEF Latest, Fresh, g
  <2>5. f.whole => Tallied'
    BY <1>0, <2>1, <2>3 DEF Balanced, Filed, Tallied, g
  <2> QED  BY <1>0, <2>1, <2>2, <2>4, <2>5 DEF Balanced, Filed, g
<1> QED  BY <1>2, <1>3 DEF Store

\* A row takes over what was counted of a branch; one that is lost, or of another day,
\* leaves the statistics unfinished.
LEMMA InsertStatBalanced ==
    ASSUME TypeOK, StatsPast, NEW r \in Runs, holder = r, InsertStat(r), Balanced
    PROVE  Balanced'
<1> DEFINE f == frame[r]
           g == frame'[r]
           Row(b) == [run |-> r, year |-> f.year, branch |-> b, count |-> f.counts[b],
                      day |-> Day(now)]
<1>0. /\ f \in Frame /\ frame \in [Runs -> Frame] /\ pc[r] = "insert" /\ f.todo = <<>>
      /\ UNCHANGED <<orders, pc, holder>> /\ stats \in SUBSET StatRow
  BY DEF InsertStat, TypeOK
<1>1. PICK b \in Branches, stored \in BOOLEAN :
        /\ f.counts[b] > 0
        /\ stats' = IF stored THEN stats \cup {Row(b)} ELSE stats
        /\ frame' = [frame EXCEPT ![r] = [f EXCEPT !.counts[b] = 0,
                                             !.whole = @ /\ stored /\ f.day = Day(now)]]
  BY DEF InsertStat, Note
<1> DEFINE row == Row(b)
<1>2. /\ g.stored = f.stored /\ g.day = f.day /\ g.year = f.year /\ g.todo = f.todo
      /\ g.counts = [f.counts EXCEPT ![b] = 0]
      /\ g.whole <=> f.whole /\ stored /\ f.day = Day(now)
  <2>1. g = [f EXCEPT !.counts[b] = 0, !.whole = @ /\ stored /\ f.day = Day(now)]
    BY <1>0, <1>1
  <2> QED  BY <1>0, <2>1 DEF Frame
<1>3. Summed' /\ Counted'
  BY <1>0, <1>2 DEF Balanced, Summed, Counted
<1>4. ASSUME g.whole PROVE Latest' /\ Fresh' /\ Tallied'
  <2>1. /\ f.whole /\ f.day = Day(now) /\ stats' = stats \cup {row}
        /\ Latest /\ Fresh /\ Tallied
    BY <1>0, <1>1, <1>2, <1>4 DEF Balanced, Filed
  <2>2. /\ row.branch = b /\ row.day = f.day /\ row.year = f.year /\ row.count = f.counts[b]
        /\ row \in StatRow /\ CountOf[row] = f.counts[b]
    <3>1. Day(now) \in Nat
      BY DayBounds DEF TypeOK
    <3>2. row \in StatRow
      BY <1>0, <1>1, <3>1 DEF StatRow, Frame
    <3> QED  BY <2>1, <3>2 DEF CountOf
  <2> HIDE DEF row, g
  <2>3. row \notin stats
    BY <1>0, <1>1, <2>1, <2>2 DEF Fresh
  <2>4. f.day \in Nat /\ f.year \in Nat /\ f.counts \in [Branches -> Nat]
    BY <1>0 DEF Frame
  <2>5. Latest'
    BY <1>0, <1>2, <2>1, <2>2, <2>4 DEF Latest, g
  <2>6. Fresh'
    <3> SUFFICES ASSUME NEW s \in stats', s.day = f.day, s.year = f.year
                 PROVE  g.counts[s.branch] = 0
      BY <1>0, <1>2 DEF Fresh, g
    <3>1. s.branch \in Branches
      BY <1>0, <2>1, <2>2 DEF StatRow
    <3>2. s.branch # b => s \in stats
      BY <2>1, <2>2
    <3>3. s.branch # b => f.counts[s.branch] = 0
      BY <1>0, <2>1, <3>2 DEF Fresh
    <3> QED  BY <1>2, <2>4, <3>1, <3>3
  <2>7. ASSUME NEW c \in Branches
        PROVE  SumOver(orders', Of(c)) = SumOver(CountOf, Todays(c)') + g.counts[c]
    <3>1. SumOver(orders', Of(c)) = SumOver(CountOf, Todays(c)) + f.counts[c]
      BY <1>0, <2>1 DEF Tallied
    <3>2. CASE c = b
      <4>1. Todays(c)' = Todays(c) \cup {row} /\ row \notin Todays(c)
        BY <1>0, <1>2, <2>1, <2>2, <2>3, <3>2 DEF Todays, g
      <4>2. SumOver(CountOf, Todays(c) \cup {row}) = SumOver(CountOf, Todays(c)) + CountOf[row]
        <5>1. IsFiniteSet(Todays(c)) /\ \A s \in Todays(c) \cup {row} : CountOf[s] \in Nat
          BY <2>2, Summable
        <5> QED  BY <4>1, <5>1, SumAdd
      <4>3. g.counts[c] = 0
        BY <1>2, <2>4, <3>2
      <4>4. SumOver(CountOf, Todays(c)) \in Nat
        BY Summable, SumNat
      <4> QED  BY <2>2, <2>4, <3>1, <3>2, <4>1, <4>2, <4>3, <4>4
    <3>3. CASE c # b
      <4>1. Todays(c)' = Todays(c)
        BY <1>0, <1>2, <2>1, <2>2, <3>3 DEF Todays, g
      <4>2. g.counts[c] = f.counts[c]
        BY <1>2, <2>4, <3>3
      <4> QED  BY <3>1, <4>1, <4>2
    <3> QED  BY <3>2, <3>3
  <2> QED  BY <1>0, <2>5, <2>6, <2>7 DEF Tallied, g
<1> QED  BY <1>0, <1>3, <1>4 DEF Balanced, Filed

\* Rows are of the day on which they are inserted, and time goes on.
LEMMA NextPast ==
    ASSUME TypeOK, StatsPast, [Next]_vars
    PROVE  StatsPast'
<1>1. \A s \in stats : s.day \in Nat
  BY DEF TypeOK, StatRow
<1>2. now \in Nat
  BY DEF TypeOK
<1>3. ASSUME stats' \in SUBSET stats, now' = now PROVE StatsPast'
  BY <1>3, FS_Subset DEF StatsPast
<1>4. ASSUME NEW r \in Runs, InsertStat(r) PROVE StatsPast'
  <2>1. PICK row : stats' \in SUBSET (stats \cup {row}) /\ row.day = Day(now)
    <3>1. PICK b \in Branches, stored \in BOOLEAN :
            stats' = IF stored THEN stats \cup {[run |-> r, year |-> frame[r].year, branch |-> b,
                                                 count |-> frame[r].counts[b], day |-> Day(now)]}
                     ELSE stats
      BY <1>4 DEF InsertStat
    <3> DEFINE row == [run |-> r, year |-> frame[r].year, branch |-> b,
                       count |-> frame[r].counts[b], day |-> Day(now)]
    <3>2. row.day = Day(now) /\ stats' \in SUBSET (stats \cup {row})
      BY <3>1
    <3> QED  BY <3>2
  <2>2. now' = now /\ Day(now) \in Nat
    BY <1>2, <1>4, DayBounds DEF InsertStat, KeepClock
  <2>3. IsFiniteSet(stats')
    <3>1. IsFiniteSet(stats \cup {row})
      BY FS_AddElement DEF StatsPast
    <3> QED  BY <2>1, <3>1, FS_Subset
  <2> QED  BY <2>1, <2>2, <2>3 DEF StatsPast
<1>5. CASE Tick
  <2>1. stats' = stats /\ now' = now + 1
    BY <1>5 DEF Tick, Tables
  <2>2. Day(now) \in Nat /\ Day(now') \in Nat /\ Day(now) <= Day(now')
    BY <1>2, <2>1 DEF Day
  <2> QED  BY <1>1, <2>1, <2>2 DEF StatsPast
<1>6. ASSUME NEW r \in Runs,
             \/ Truncate(r) \/ DeleteStats(r) \/ GetToken(r) \/ Fail(r) \/ Fetch(r)
             \/ Store(r) \/ EndOfYear(r)
      PROVE  StatsPast'
  <2>1. stats' \in SUBSET stats /\ now' = now
    BY <1>6 DEF Truncate, DeleteStats, OtherDays, GetToken, Fail, Fetch, Store, EndOfYear,
                KeepClock, Tables
  <2> QED  BY <1>3, <2>1
<1>7. CASE Wake \/ Due \/ ReadNotices \/ Crash \/ UNCHANGED vars
  <2>1. stats' = stats /\ now' = now
    BY <1>7 DEF Wake, Due, ReadNotices, Crash, Tables, vars
  <2> QED  BY <1>3, <2>1
<1> QED  BY <1>4, <1>5, <1>6, <1>7 DEF Next, Step

\* A step of the holder's own refresh keeps its books balanced.
LEMMA OwnBalanced ==
    ASSUME TypeOK, StatsPast, NEW r \in Runs, holder = r, Balanced,
           \/ DeleteStats(r) \/ GetToken(r) \/ Fetch(r)
           \/ Store(r) \/ InsertStat(r) \/ EndOfYear(r)
    PROVE  Balanced'
<1>0. frame[r] \in Frame /\ frame \in [Runs -> Frame] /\ pc \in [Runs -> Pc]
  BY DEF TypeOK
<1>1. CASE GetToken(r)
  BY <1>0, <1>1, FetchBalanced DEF GetToken, Goto, Tables, Balanced, Counted
<1>2. CASE Fetch(r)
  <2>0. UNCHANGED <<orders, stats, holder>> /\ pc[r] = "fetch" /\ frame[r].counts = NoCounts
    BY <1>2 DEF Fetch, Answered, Retry, NoRecords, Tables, Balanced, Counted
  <2>1. CASE Answered(r)
    <3>1. PICK a \in Answers :
            frame' = [frame EXCEPT ![r] = [frame[r] EXCEPT !.todo = a, !.counts = NoCounts,
                                                            !.got = @ + 1]]
      BY <2>1 DEF Answered, Note
    <3>2. pc'[r] = "insert"
      BY <1>0, <2>1 DEF Answered, Goto
    <3>3. LET f == frame[r] g == frame'[r] IN
             /\ g.stored = f.stored /\ g.day = f.day /\ g.year = f.year /\ g.whole = f.whole
             /\ g.counts = NoCounts
      BY <1>0, <3>1 DEF Frame
    <3> QED  BY <2>0, <3>2, <3>3, FetchBalanced
  <2>2. CASE Retry(r)
    <3>1. pc'[r] = "fetch"
      BY <2>0, <2>2 DEF Retry
    <3>2. LET f == frame[r] g == frame'[r] IN
             /\ g.stored = f.stored /\ g.day = f.day /\ g.year = f.year /\ g.whole = f.whole
             /\ g.counts = NoCounts
      BY <1>0, <2>0, <2>2 DEF Retry, Note, Frame
    <3> QED  BY <2>0, <3>1, <3>2, FetchBalanced
  <2>3. CASE NoRecords(r)
    <3>1. PICK f : f = [frame[r] EXCEPT !.failed = TRUE]
      OBVIOUS
    <3>2. /\ f \in Frame /\ f.stored = frame[r].stored /\ f.day = frame[r].day
          /\ f.year = frame[r].year /\ f.whole = frame[r].whole /\ f.counts = frame[r].counts
      BY <1>0, <3>1 DEF Frame
    <3>3. NextYear(r, f)
      BY <2>3, <3>1 DEF NoRecords
    <3> QED  BY <2>0, <3>2, <3>3, NextYearBalanced
  <2> QED  BY <1>2, <2>1, <2>2, <2>3 DEF Fetch
<1>3. CASE EndOfYear(r)
  BY <1>0, <1>3, NextYearBalanced DEF EndOfYear, Tables
<1> QED  BY <1>1, <1>2, <1>3, DeleteBalanced, StoreBalanced, InsertStatBalanced

\* Every step keeps the books balanced.
LEMMA NextSound == TypeOK /\ Held /\ Sound /\ [Next]_vars => Sound'
<1> SUFFICES ASSUME TypeOK, Held, Sound, [Next]_vars, holder' # Nobody PROVE Balanced'
  BY NextPast DEF Sound
<1>1. ASSUME NEW r \in Runs, Truncate(r) PROVE Balanced'
  BY <1>1, TruncateBalanced
<1>2. ASSUME NEW r \in Runs,
             \/ DeleteStats(r) \/ GetToken(r) \/ Fetch(r)
             \/ Store(r) \/ InsertStat(r) \/ EndOfYear(r)
      PROVE  Balanced'
  <2>1. Underway(r) /\ holder' = holder
    BY <1>2 DEF DeleteStats, GetToken, Fetch, Answered, Retry, NoRecords, Store, InsertStat,
                EndOfYear, Underway
  <2>2. holder = r
    BY <2>1 DEF Held, Alone
  <2> QED  BY <1>2, <2>2, OwnBalanced, RefreshAssumption DEF Sound
<1>3. CASE Wake \/ Due
  <2>1. holder \in Runs /\ UNCHANGED <<orders, stats, holder, frame>> /\ pc \in [Runs -> Pc]
    BY <1>3 DEF Wake, Due, Tables, TypeOK
  <2>2. \/ pc'[holder] = pc[holder]
        \/ ~Underway(holder) /\ pc'[holder] \in {"truncate", "sleep"}
    BY <1>3, <2>1 DEF Wake, Due, Goto, Underway
  <2> QED  BY <2>1, <2>2, QuietBalanced DEF Sound
<1>4. CASE ReadNotices \/ Tick \/ UNCHANGED vars
  <2>1. UNCHANGED <<orders, stats, holder, frame, pc>>
    BY <1>4 DEF ReadNotices, Tick, Tables, vars
  <2> QED  BY <2>1, QuietBalanced DEF Sound
<1>5. CASE Crash
  <2>1. /\ holder \in Runs /\ holder' = holder /\ ~Underway(holder)
        /\ UNCHANGED <<orders, stats>>
    BY <1>5 DEF Crash, Tables, TypeOK
  <2>2. frame'[holder] = frame[holder]
    BY <1>5, <2>1 DEF Crash, TypeOK
  <2>3. pc'[holder] = pc[holder] \/ pc'[holder] = "sleep"
    BY <1>5, <2>1 DEF Crash
  <2> QED  BY <2>1, <2>2, <2>3, QuietBalanced DEF Sound
<1>6. ASSUME NEW r \in Runs, Fail(r) PROVE Balanced'
  <2>0. /\ pc' = [pc EXCEPT ![r] = IF r = Scheduler THEN "sleep" ELSE "done"]
        /\ pc \in [Runs -> Pc] /\ frame \in [Runs -> Frame] /\ UNCHANGED <<orders, stats>>
    BY <1>6 DEF Fail, Goto, Tables, TypeOK
  <2>1. holder' = holder /\ holder \in Runs /\ ~Underway(r)
    BY <1>6 DEF Fail, Held, Alone, TypeOK
  <2>2. frame' = frame
    BY <1>6, <2>0, <2>1 DEF Fail, Note
  <2>3. \/ pc'[holder] = pc[holder]
        \/ ~Underway(holder) /\ pc'[holder] \in {"done", "sleep"}
    BY <2>0, <2>1
  <2> QED  BY <2>0, <2>1, <2>2, <2>3, QuietBalanced DEF Sound
<1> QED  BY <1>1, <1>2, <1>3, <1>4, <1>5, <1>6 DEF Next, Step

\* Every state with a holder is balanced.
LEMMA Balances == Spec => [](TypeOK /\ Sound)
<1>1. Init => Held
  BY DEF Init, Held
<1>2. TypeOK /\ Held /\ [Next]_vars => Held'
  BY NextHeld
<1>3. Init => Sound
  BY FS_EmptySet DEF Init, Sound, StatsPast
<1>4. TypeOK /\ Held /\ Sound /\ [Next]_vars => Sound'
  BY NextSound
<1> QED  BY <1>1, <1>2, <1>3, <1>4, TypeCorrect, PTL DEF Spec

\* As long as no other refresh comes in between, the table has as many rows as the summary
\* counts as successful (GetTotalInfo.go:420-427, 441, 570).
THEOREM SummaryTrue == Spec => []SummaryAgrees
<1>1. Sound => SummaryAgrees
  BY RowsSummed DEF Sound, Balanced, Summed, SummaryAgrees
<1> QED  BY <1>1, Balances, PTL

\* What is shown once a run is over that had all its statistics inserted on one day and no
\* other refresh beside it are the orders of the table by branch (GetTotalInfo.go:514-517,
\* 429-457; getBranchStatistics.go:44-47).
THEOREM ShownTrue == Spec => []ShownAgrees
<1>1. ASSUME TypeOK, Sound PROVE ShownAgrees
  <2> SUFFICES ASSUME holder # Nobody, ~Underway(holder), frame[holder].whole,
                      NEW c \in Branches, Rows(Of(c)) > 0,
                      NEW b \in Branches
               PROVE  Shown(b) = Rows(Of(b))
    BY DEF ShownAgrees, Of
  <2>1. Latest /\ Tallied /\ frame[holder].counts = NoCounts
    BY <1>1 DEF Sound, Balanced, Counted, Filed, Underway
  <2>2. ASSUME NEW d \in Branches PROVE Rows(Of(d)) = SumOver(CountOf, Todays(d))
    <3>1. SumOver(orders, Of(d)) = SumOver(CountOf, Todays(d)) + 0
      BY <2>1 DEF Tallied, NoCounts
    <3>2. SumOver(CountOf, Todays(d)) \in Nat
      BY <1>1, Summable, SumNat DEF Sound
    <3> QED  BY <3>1, <3>2, RowsSummed
  <2>3. PICK last \in stats : last.day = frame[holder].day
    <3>1. Todays(c) # {}
      BY <2>2, SumEmpty
    <3> QED  BY <3>1 DEF Todays
  <2>4. {s \in stats : s.branch = b /\ \A q \in stats : q.day <= s.day} = Todays(b)
    <3>1. \A s \in stats : s.day \in Nat /\ s.day <= frame[holder].day
      BY <1>1, <2>1 DEF TypeOK, StatRow, Latest
    <3> QED  BY <2>3, <3>1 DEF Todays
  <2>5. Shown(b) = SumOver(CountOf, Todays(b))
    <3>1. MapThenSumSet(LAMBDA s : s.count, Todays(b)) = SumOver(CountOf, Todays(b))
      BY <1>1, Summable, CountsSummed DEF Sound
    <3> QED  BY <2>4, <3>1 DEF Shown
  <2> QED  BY <2>2, <2>5
<1> QED  BY <1>1, Balances, PTL
=============================================================================

--------------------------- MODULE OrdersRefresh ---------------------------
(***************************************************************************)
(* The copy of the external order list and its statistics by branch:       *)
(* GetTotalInfo.go, getBranchStatistics.go, and scheduler.go, which has    *)
(* due-date notices follow a refresh.                                      *)
(*                                                                         *)
(* The scheduler refreshes daily at two o'clock, a request whenever it     *)
(* comes; nothing keeps them apart, and each statement commits by itself.  *)
(* A day has two moments: before two o'clock (even) and after it (odd).    *)
(***************************************************************************)
EXTENDS DueNotices, Integers, FiniteSets, FiniteSetsExt

CONSTANTS
    Requests,    \* requests to refresh
    Scheduler,   \* the goroutine of StartDailyJob
    Nobody,
    Orders,      \* external orders, told apart by the columns of orderKey
    Anonymous,   \* those with none of these columns
    Branch,      \* the branch of an order, 0 if its dcode is no positive number
    Malformed,   \* a record that is no object
    Answers,     \* the lists of records an external answer may hold
    LastShared,  \* bound: when time goes past it, no request to refresh is left
    LastMoment   \* bound on time

Runs     == Requests \cup {Scheduler}
Named    == Orders \ Anonymous
Branches == {Branch[o] : o \in Orders} \ {0}
Years    == 2
MaxAttempts == 3

ASSUME RefreshAssumption ==
    /\ Scheduler \notin Requests /\ Nobody \notin Runs
    /\ IsFiniteSet(Orders) /\ Branch \in [Orders -> Nat] /\ Malformed \notin Orders
    /\ Anonymous \subseteq Orders /\ \A o \in Anonymous : Branch[o] = 0
    /\ Answers \subseteq Seq(Orders \cup {Malformed})
    /\ LastMoment \in Nat /\ LastMoment >= 3 /\ LastShared \in Nat

VARIABLES
    now,
    orders,  \* how many rows there are of an order
    stats,   \* rows of branch_statistics
    pc, frame,
    alarm,   \* when the scheduler wakes up
    holder,  \* history: the run whose rows alone the table of orders holds
    jobDay   \* history: the day of the last scheduled run

vars == <<now, orders, stats, notices, pc, frame, alarm, holder, jobDay>>

Pc == {"sleep", "truncate", "deleteStats", "token", "fetch", "insert", "due", "done"}

StatRow == [run : Runs, year : 1..Years, branch : Branches, count : Nat, day : Nat]

\* The local variables of a run: the year, the records to come, the orders seen, the orders
\* by branch, and the summary, of whose failures only whether there are any.  For the
\* properties, the answers it got, the day of its statistics, and whether all of them were
\* stored on that day.  Of the runs that are over only the holder's are kept.
Frame == [year : 1..Years, attempt : 1..MaxAttempts, todo : Seq(Orders \cup {Malformed}),
          seen : SUBSET Orders, counts : [Branches -> Nat], stored : Nat, failed : BOOLEAN,
          got : Nat, day : Nat, whole : BOOLEAN]

Day(t)   == t \div 2
NoCounts == [b \in Branches |-> 0]
NewFrame == [year |-> 1, attempt |-> 1, todo |-> <<>>, seen |-> {}, counts |-> NoCounts,
             stored |-> 0, failed |-> FALSE, got |-> 0, day |-> 0, whole |-> TRUE]

\* A plausible slip: not a day later when two o'clock is over.
AlarmToday(t) == IF t % 2 = 0 THEN t + 1 ELSE t

\* The next two o'clock.
Alarm(t) == IF t % 2 = 0 THEN t + 1 ELSE t + 2

Init ==
    /\ now \in {2, 3}
    /\ orders = [o \in Orders |-> 0]
    /\ stats = {}
    /\ NoticeInit
    /\ pc = [r \in Runs |-> IF r = Scheduler THEN "sleep" ELSE "truncate"]
    /\ frame = [r \in Runs |-> NewFrame]
    /\ alarm = Alarm(now)
    /\ holder = Nobody
    /\ jobDay = 0

Underway(r) == pc[r] \in {"deleteStats", "token", "fetch", "insert"}

Goto(r, label)  == pc' = [pc EXCEPT ![r] = label]
Note(r, f)      == frame' = [frame EXCEPT ![r] = f]
KeepClock       == UNCHANGED <<now, notices, jobDay>>
Tables          == <<orders, stats>>

-----------------------------------------------------------------------------
(* One run: refreshOrdersAndStatistics.                                    *)

Truncate(r) ==
    /\ pc[r] = "truncate"
    /\ orders' = [o \in Orders |-> 0]
    /\ holder' = IF \E q \in Runs : Underway(q) THEN Nobody ELSE r
    /\ frame' = [q \in Runs |-> IF Underway(q) THEN frame[q] ELSE NewFrame]
    /\ Goto(r, "deleteStats")
    /\ KeepClock /\ UNCHANGED <<stats, alarm>>

\* A plausible slip: the statistics of an earlier run of the day are kept.
KeepStats(day) == stats

OtherDays(day) == {s \in stats : s.day # day}

DeleteStats(r) ==
    /\ pc[r] = "deleteStats"
    /\ stats' = OtherDays(Day(now))
    /\ Note(r, [frame[r] EXCEPT !.day = Day(now)])
    /\ Goto(r, "token")
    /\ KeepClock /\ UNCHANGED <<orders, alarm, holder>>

\* A request to the token service by a client without a timeout.
GetToken(r) ==
    /\ pc[r] = "token"
    /\ Goto(r, "fetch")
    /\ KeepClock /\ UNCHANGED <<Tables, frame, alarm, holder>>

\* An error ends the run: what was removed stays removed, and no notice is made.
Fail(r) ==
    /\ pc[r] \in {"truncate", "deleteStats", "token"}
    /\ Goto(r, IF r = Scheduler THEN "sleep" ELSE "done")
    /\ alarm' = IF r = Scheduler THEN Alarm(now) ELSE alarm
    /\ holder' = IF holder = r /\ Underway(r) THEN Nobody ELSE holder
    /\ Note(r, IF Underway(r) THEN NewFrame ELSE frame[r])
    /\ KeepClock /\ UNCHANGED Tables

\* A plausible slip: off by one.
OneYearMore(y) == y <= Years

MoreYears(y) == y < Years

\* After the last year, the request is answered and the scheduler goes on to the notices.
NextYear(r, f) ==
    IF MoreYears(f.year)
    THEN Note(r, [f EXCEPT !.year = @ + 1, !.attempt = 1]) /\ Goto(r, "fetch")
    ELSE /\ Note(r, IF holder = r THEN f ELSE NewFrame)
         /\ Goto(r, IF r = Scheduler THEN "due" ELSE "done")

Answered(r) ==
    /\ pc[r] = "fetch"
    /\ \E a \in Answers : Note(r, [frame[r] EXCEPT !.todo = a, !.counts = NoCounts, !.got = @ + 1])
    /\ Goto(r, "insert")

\* A plausible slip: attempts are not bounded.
RetryForever(n) == (n % MaxAttempts) + 1

NextAttempt(n) == n + 1

Retry(r) ==
    /\ pc[r] = "fetch" /\ NextAttempt(frame[r].attempt) <= MaxAttempts
    /\ Note(r, [frame[r] EXCEPT !.attempt = NextAttempt(@)])
    /\ UNCHANGED pc

\* The third attempt failed, or an answer holds no list of records.
NoRecords(r) ==
    /\ pc[r] = "fetch"
    /\ NextYear(r, [frame[r] EXCEPT !.failed = TRUE])

Fetch(r) ==
    /\ Answered(r) \/ Retry(r) \/ NoRecords(r)
    /\ KeepClock /\ UNCHANGED <<Tables, alarm, holder>>

\* A plausible slip: records are compared with those of one answer only, or not at all.
NeverRepeated(r, rec) == FALSE

Repeated(r, rec) == rec \in Named /\ rec \in frame[r].seen

\* The order is remembered before it is inserted, so a failed one is not tried again.
Seen(r, rec) == frame[r].seen \cup ({rec} \cap Named)

InsertOrder(r, rec) ==
    /\ orders' = [orders EXCEPT ![rec] = @ + 1]
    /\ Note(r, [frame[r] EXCEPT !.todo = Tail(@), !.seen = Seen(r, rec), !.stored = @ + 1,
                !.counts = [b \in Branches |-> IF b = Branch[rec] THEN @[b] + 1 ELSE @[b]]])

\* A plausible slip: an order counts as stored before it is.
InsertLost(r, rec) ==
    /\ Note(r, [frame[r] EXCEPT !.todo = Tail(@), !.seen = Seen(r, rec), !.stored = @ + 1])
    /\ UNCHANGED orders

InsertFails(r, rec) ==
    /\ Note(r, [frame[r] EXCEPT !.todo = Tail(@), !.seen = Seen(r, rec), !.failed = TRUE])
    /\ UNCHANGED orders

SkipRecord(r) ==
    /\ Note(r, [frame[r] EXCEPT !.todo = Tail(@)])
    /\ UNCHANGED orders

\* One record of the answer.
Store(r) ==
    /\ pc[r] = "insert" /\ frame[r].todo # <<>>
    /\ LET rec == Head(frame[r].todo) IN
         \/ rec \in Orders /\ ~Repeated(r, rec) /\ InsertOrder(r, rec)
         \/ ~Repeated(r, rec) /\ InsertFails(r, rec)
         \/ Repeated(r, rec) /\ SkipRecord(r)
    /\ KeepClock /\ UNCHANGED <<stats, pc, alarm, holder>>

\* One row for each branch, in any order.  A failure is logged and not reported.
InsertStat(r) ==
    /\ pc[r] = "insert" /\ frame[r].todo = <<>>
    /\ \E b \in Branches, stored \in BOOLEAN :
         LET f == frame[r]
             row == [run |-> r, year |-> f.year, branch |-> b, count |-> f.counts[b],
                     day |-> Day(now)]
         IN  /\ f.counts[b] > 0
             /\ stats' = IF stored THEN stats \cup {row} ELSE stats
             /\ Note(r, [f EXCEPT !.counts[b] = 0,
                                  !.whole = @ /\ stored /\ f.day = Day(now)])
    /\ KeepClock /\ UNCHANGED <<orders, pc, alarm, holder>>

EndOfYear(r) ==
    /\ pc[r] = "insert" /\ frame[r].todo = <<>> /\ frame[r].counts = NoCounts
    /\ NextYear(r, frame[r])
    /\ KeepClock /\ UNCHANGED <<Tables, alarm, holder>>

-----------------------------------------------------------------------------
(* The scheduler, the user, failures.                                      *)

Wake ==
    /\ pc[Scheduler] = "sleep" /\ now >= alarm
    /\ Goto(Scheduler, "truncate")
    /\ jobDay' = Day(now)
    /\ UNCHANGED <<now, Tables, notices, frame, alarm, holder>>

\* The INSERT of the notices may fail.
Due ==
    /\ pc[Scheduler] = "due"
    /\ (\E open \in SUBSET Items : InsertDue(open, Day(now))) \/ UNCHANGED notices
    /\ Goto(Scheduler, "sleep")
    /\ alarm' = Alarm(now)
    /\ UNCHANGED <<now, Tables, frame, holder, jobDay>>

ReadNotices ==
    /\ MarkAllRead(now) \/ \E i \in Items : MarkRead(i, now)
    /\ UNCHANGED <<now, Tables, pc, frame, alarm, holder, jobDay>>

\* The process stops (connectDB ends it with log.Fatal) and starts again.
Crash ==
    /\ pc' = [r \in Runs |-> IF r = Scheduler THEN "sleep"
                             ELSE IF Underway(r) THEN "done" ELSE pc[r]]
    /\ alarm' = Alarm(now)
    /\ holder' = IF holder # Nobody /\ Underway(holder) THEN Nobody ELSE holder
    /\ frame' = [r \in Runs |-> IF Underway(r) THEN NewFrame ELSE frame[r]]
    /\ UNCHANGED <<now, Tables, notices, jobDay>>

\* A timer that is due fires before the moment is over.
Tick ==
    /\ now < LastMoment
    /\ now < LastShared \/ \A r \in Requests : pc[r] = "done"
    /\ pc[Scheduler] = "sleep" => now < alarm
    /\ now' = now + 1
    /\ UNCHANGED <<Tables, notices, pc, frame, alarm, holder, jobDay>>

\* Everything a run does but wait for the token service.
Step(r) ==
    \/ Truncate(r) \/ DeleteStats(r) \/ Fetch(r)
    \/ Store(r) \/ InsertStat(r) \/ EndOfYear(r)
    \/ r = Scheduler /\ Due

Next ==
    \/ \E r \in Runs : Step(r) \/ GetToken(r) \/ Fail(r)
    \/ Wake \/ ReadNotices \/ Crash \/ Tick

Spec == Init /\ [][Next]_vars

Fairness == \A r \in Runs : WF_vars(Step(r))
FairSpec == Spec /\ Fairness

-----------------------------------------------------------------------------
TypeOK ==
    /\ now \in 2..LastMoment
    /\ orders \in [Orders -> Nat]
    /\ stats \subseteq StatRow
    /\ NoticeType
    /\ pc \in [Runs -> Pc]
    /\ frame \in [Runs -> Frame]
    /\ alarm \in Nat
    /\ holder \in Runs \cup {Nobody}
    /\ jobDay \in Nat

\* What the table of orders holds of a set of orders.
Rows(S) == MapThenSumSet(LAMBDA o : orders[o], S)

\* As long as no other refresh comes in between, the table holds no order with a key
\* twice, though the answers of both years list it; and a summary without failures means
\* that both answers came and every order in them is there (GetTotalInfo.go:311-318,
\* 420-425, 562-565).
StoredOnce ==
    holder # Nobody =>
        LET f == frame[holder] IN
        /\ \A o \in Named : orders[o] <= 1
        /\ ~f.failed => \A o \in f.seen : orders[o] = 1
        /\ ~f.failed /\ ~Underway(holder) => f.got = Years

\* Under the same condition the table has as many rows as the summary counts as successful
\* (GetTotalInfo.go:420-427, 441, 570).
SummaryAgrees == holder # Nobody => Rows(Orders) = frame[holder].stored

\* getBranchStatistics.go: the sum over the rows of the latest day there is.
Shown(b) ==
    MapThenSumSet(LAMBDA s : s.count,
                  {s \in stats : s.branch = b /\ \A q \in stats : q.day <= s.day})

\* A run that is over, that had all its statistics inserted on one day and no other refresh
\* beside it: the statistics shown are those of the orders in the table, also when earlier
\* runs of that day, even broken ones, had left theirs (GetTotalInfo.go:514-517, 429-457;
\* getBranchStatistics.go:44-47).
ShownAgrees ==
    LET In(b) == {o \in Orders : Branch[o] = b} IN
    /\ holder # Nobody /\ ~Underway(holder) /\ frame[holder].whole
    /\ \E b \in Branches : Rows(In(b)) > 0
    => \A b \in Branches : Shown(b) = Rows(In(b))

\* A scheduled refresh starts at most once a day, whatever restarts and long runs there are
\* (scheduler.go:30-41).
OncePerDay ==
    [][pc[Scheduler] = "sleep" /\ pc'[Scheduler] = "truncate" => Day(now) > jobDay]_vars

\* The owner of an item is warned once, also after the notice has been read, on later days
\* and after restarts (Notifications.go:201-208).
WarnedOnce == \A i \in Items : Len(notices[i]) <= 1

\* A notice keeps the time when it was first read (Notifications.go:129, 155).
FirstReadStays ==
    [][\A i \in Items : \A k \in 1..Len(notices[i]) :
           notices[i][k] # Unread => notices'[i][k] = notices[i][k]]_vars

\* Under FairSpec, no refresh is under way for ever, but one that waits for the token
\* service (GetTotalInfo.go:95, 123).
RunsEnd == \A r \in Runs : []<>(pc[r] \in {"sleep", "token", "done"})

\* No order is there twice, as the message of GetTotalInfo.go:314 has it.
OrderOnce == \A o \in Named : orders[o] <= 1
=============================================================================

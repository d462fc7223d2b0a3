----------------------------- MODULE DueNotices -----------------------------
(***************************************************************************)
(* The due-date notices of one user: Notifications.go.  The refresh that   *)
(* the scheduler starts inserts them, the user reads them.                 *)
(***************************************************************************)
EXTENDS Naturals, Sequences

CONSTANTS
    Items,    \* basket items with a date by which they are due
    Deadline  \* the day of that date

ASSUME NoticeAssumption == Deadline \in [Items -> Nat]

\* For each item, the notices about it: when each was read, Unread if it was not.
VARIABLE notices

WarnDays == 3
Unread   == 0

NoticeInit == notices = [i \in Items |-> <<>>]
NoticeType == notices \in [Items -> Seq(Nat)]

\* A plausible slip: an item is announced again once its notice has been read.
UnreadAbout(i) == \E k \in 1..Len(notices[i]) : notices[i][k] = Unread

\* NOT EXISTS looks at every notice, read or not.
Announced(i) == notices[i] # <<>>

\* One INSERT ... SELECT for the items that are in baskets, neither returned nor arrived.
InsertDue(open, day) ==
    LET due == {i \in open : Deadline[i] <= day + WarnDays /\ ~Announced(i)}
    IN  notices' = [i \in Items |-> IF i \in due THEN Append(notices[i], Unread) ELSE notices[i]]

\* ReadAt = COALESCE(ReadAt, GETDATE()).
ReadAt(time, t) == IF time = Unread THEN t ELSE time

MarkRead(i, t) ==
    \E k \in 1..Len(notices[i]) : notices' = [notices EXCEPT ![i][k] = ReadAt(@, t)]

MarkAllRead(t) ==
    notices' = [i \in Items |-> [k \in 1..Len(notices[i]) |-> ReadAt(notices[i][k], t)]]
=============================================================================

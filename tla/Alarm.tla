-------------------------------- MODULE Alarm --------------------------------
(***************************************************************************)
(* The alarm manager of posix_multithread/programs_src/alarm_cond.c: main    *)
(* inserts alarms into a sorted list, the alarm thread takes the first and   *)
(* sleeps until its time unless it is told of an earlier one.  The alarm     *)
(* thread keeps alarm_mutex except while it waits; time goes on meanwhile.   *)
(***************************************************************************)
EXTENDS Integers, SequencesExt

CONSTANTS
  Alarms,       \* the alarms main reads, each once
  Seconds,      \* the numbers of seconds they are set to
  NULL,         \* no alarm
  MaxTime       \* bound: the clock stops here

ASSUME AlarmConstants == Seconds \subseteq Nat /\ NULL \notin Alarms

VARIABLES
  now,              \* time(NULL)
  alarm_list, current_alarm,
  time,             \* alarm->time
  pc,               \* the alarm thread; it has the mutex at "top"
  asleep,           \* it is in pthread_cond_wait and nothing has woken it
  alarm,            \* its local variable
  printed           \* the alarms whose message has been printed

vars == <<now, alarm_list, current_alarm, time, pc, asleep, alarm, printed>>

\* The clock shows seconds since the Epoch: it is not 0.
Init ==
  /\ now = 1 /\ alarm_list = <<>> /\ current_alarm = 0
  /\ time = [a \in Alarms |-> 0]
  /\ pc = "start" /\ asleep = FALSE /\ alarm = NULL /\ printed = {}

-----------------------------------------------------------------------------
\* A mistake: an alarm that comes later than another goes to the end.
InsertSorted_end(list, times, a) ==
  IF list # <<>> /\ times[Head(list)] >= times[a] THEN <<a>> \o list
                                                  ELSE Append(list, a)

\* In front of the first that is not earlier, or at the end.
InsertSorted(list, times, a) ==
  LET NotBefore(b) == times[b] >= times[a]
      n == SelectInSeq(list, NotBefore)
  IN  IF n = 0 THEN Append(list, a) ELSE InsertAt(list, n, a)

\* A mistake: only a thread that has nothing to do is woken.
MustWake_idle(t) == current_alarm = 0

MustWake(t) == current_alarm = 0 \/ t < current_alarm

\* The signal finds the alarm thread asleep, or nobody.
alarm_insert(times, a) ==
  /\ alarm_list' = InsertSorted(alarm_list, times, a)
  /\ IF MustWake(times[a])
     THEN current_alarm' = times[a] /\ asleep' = FALSE
     ELSE UNCHANGED <<current_alarm, asleep>>

\* main reads a command and has the mutex.
main_insert(a) ==
  /\ pc # "top"
  /\ time[a] = 0
  /\ \E s \in Seconds :
       /\ now + s <= MaxTime
       /\ time' = [time EXCEPT ![a] = now + s]
       /\ alarm_insert(time', a)
  /\ UNCHANGED <<now, pc, alarm, printed>>

-----------------------------------------------------------------------------
thread_start ==
  /\ pc = "start" /\ pc' = "top"
  /\ UNCHANGED <<now, alarm_list, current_alarm, time, asleep, alarm, printed>>

Unlink == alarm_list' = Tail(alarm_list)

\* The first alarm is taken off the list, and printed or waited for.
Take ==
  LET a == Head(alarm_list)
  IN  /\ Unlink
      /\ IF time[a] > now
         THEN /\ current_alarm' = time[a]
              /\ pc' = "timed" /\ asleep' = TRUE /\ alarm' = a
              /\ UNCHANGED printed
         ELSE /\ printed' = printed \cup {a}
              /\ pc' = "top" /\ current_alarm' = 0   \* the loop starts again
              /\ UNCHANGED <<asleep, alarm>>
      /\ UNCHANGED <<now, time>>

\* The head of the outer loop.
thread_top ==
  /\ pc = "top"
  /\ \/ alarm_list # <<>> /\ Take
     \/ /\ alarm_list = <<>>
        /\ current_alarm' = 0 /\ pc' = "idle" /\ asleep' = TRUE
        /\ UNCHANGED <<now, alarm_list, time, alarm, printed>>

\* Back from pthread_cond_wait.
idle_woken ==
  /\ pc = "idle" /\ ~asleep
  /\ \/ alarm_list # <<>> /\ Take
     \/ /\ alarm_list = <<>> /\ asleep' = TRUE
        /\ UNCHANGED <<now, alarm_list, current_alarm, time, pc, alarm, printed>>

\* The wait is called again; it returns at once when the time has come.
WaitAgain ==
  /\ current_alarm = time[alarm]
  /\ IF time[alarm] <= now THEN pc' = "expired" /\ UNCHANGED asleep
                           ELSE asleep' = TRUE /\ UNCHANGED pc
  /\ UNCHANGED <<alarm_list, current_alarm, alarm>>

\* A mistake: an alarm set aside for an earlier one is forgotten.
timed_woken_forget ==
  /\ pc = "timed" /\ ~asleep
  /\ \/ WaitAgain
     \/ /\ current_alarm # time[alarm]
        /\ pc' = "top" /\ alarm' = NULL
        /\ UNCHANGED <<alarm_list, current_alarm, asleep>>
  /\ UNCHANGED <<now, time, printed>>

\* Back from pthread_cond_timedwait before the time: if there is an earlier
\* alarm this one goes back to the list.
timed_woken ==
  /\ pc = "timed" /\ ~asleep
  /\ \/ WaitAgain
     \/ /\ current_alarm # time[alarm]
        /\ pc' = "top" /\ alarm' = NULL /\ alarm_insert(time, alarm)
  /\ UNCHANGED <<now, time, printed>>

\* pthread_cond_timedwait returns ETIMEDOUT, as soon as it gets the mutex.
timed_out ==
  /\ pc = "timed" /\ asleep /\ time[alarm] <= now
  /\ pc' = "expired" /\ asleep' = FALSE
  /\ UNCHANGED <<now, alarm_list, current_alarm, time, alarm, printed>>

timed_expired ==
  /\ pc = "expired"
  /\ printed' = printed \cup {alarm}
  /\ pc' = "top" /\ alarm' = NULL /\ current_alarm' = 0
  /\ UNCHANGED <<now, alarm_list, time, asleep>>

-----------------------------------------------------------------------------
Spurious ==
  /\ asleep /\ asleep' = FALSE
  /\ UNCHANGED <<now, alarm_list, current_alarm, time, pc, alarm, printed>>

tick ==
  /\ now < MaxTime /\ now' = now + 1
  /\ UNCHANGED <<alarm_list, current_alarm, time, pc, asleep, alarm, printed>>

alarm_thread ==
  \/ thread_start \/ thread_top \/ idle_woken
  \/ timed_woken \/ timed_out \/ timed_expired

Next == (\E a \in Alarms : main_insert(a)) \/ alarm_thread \/ Spurious \/ tick

\* Time passes and the alarm thread runs; main need not read anything.
FairSpec == Init /\ [][Next]_vars /\ WF_vars(alarm_thread) /\ WF_vars(tick)

-----------------------------------------------------------------------------
Listed == Range(alarm_list)

\* The alarm thread never oversleeps: asleep without a timeout it has nothing
\* to wait for, and asleep with one, no alarm on the list is earlier than the
\* one it waits for, whenever main inserts and whatever wakes the thread.
SleepsUntilEarliest ==
  asleep => CASE pc = "idle"  -> alarm_list = <<>>
              [] pc = "timed" -> \A a \in Listed : time[alarm] <= time[a]

\* The program implements AlarmClock: an alarm on the list or in the hands of
\* the alarm thread is pending.
Clock == INSTANCE AlarmClock WITH
           Alarm <- Alarms, clock <- now, due <- time,
           pending <- {a \in Alarms : time[a] # 0} \ printed

IsAlarmClock == Clock!ClockSpec

\* Every alarm that is set is printed.
AllPrinted == \A a \in Alarms : (time[a] # 0) ~> (a \in printed)
=============================================================================

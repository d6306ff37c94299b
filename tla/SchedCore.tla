----------------------------- MODULE SchedCore -----------------------------
(***************************************************************************)
(* Data structures of the green-thread scheduler in runtime/ncrt.c that    *)
(* both drivers of it share: the worker pool (__nc_scheduler_init) and the *)
(* inline scheduler (__nc_scheduler_run).                                  *)
(*                                                                         *)
(* The run queue and the wait queue of a mutex are singly linked lists     *)
(* with a head and a tail; they are sequences here.  The timer list is a   *)
(* sequence of records [g, left].  The code keeps absolute deadlines; a    *)
(* model value `left' is the number of clock units until the deadline,     *)
(* clipped at 0: every test the code makes on a deadline is                *)
(* "deadline <= now", which is "left = 0".                                 *)
(***************************************************************************)
EXTENDS Naturals, Sequences

(* One clock unit passes for a pending timer or a timed wait.              *)
Countdown(n) == IF n = 0 THEN 0 ELSE n - 1

(* The timer list after d clock units.                                     *)
Elapse(ts, d) ==
    [i \in DOMAIN ts |->
        [ts[i] EXCEPT !.left = IF @ <= d THEN 0 ELSE @ - d]]

(* Length of the leading run of expired timers: wake_expired_timers pops   *)
(* the head while its deadline has passed and stops at the first that has  *)
(* not.                                                                    *)
ExpiredCount(ts) ==
    CHOOSE n \in 0..Len(ts) :
        /\ \A i \in 1..n : ts[i].left = 0
        /\ n < Len(ts) => ts[n + 1].left # 0

(* The green threads of those timers, in list order.                       *)
Expired(ts) == [i \in 1..ExpiredCount(ts) |-> ts[i].g]

(* The timers that remain.                                                 *)
UnexpiredAll(ts) == ts   \* mutant: the timers stay in the list
Unexpired(ts) == SubSeq(ts, ExpiredCount(ts) + 1, Len(ts))

(* __nc_sleep walks past every timer whose deadline is not later than the  *)
(* new one, so equal deadlines keep their order of insertion.              *)
InsertPos(ts, left) ==
    CHOOSE n \in 0..Len(ts) :
        /\ \A i \in 1..n : ts[i].left <= left
        /\ n < Len(ts) => ts[n + 1].left > left

InsertTimer(ts, g, left) ==
    LET n == InsertPos(ts, left)
    IN  [i \in 1..Len(ts) + 1 |->
            IF i <= n THEN ts[i]
            ELSE IF i = n + 1 THEN [g |-> g, left |-> left]
            ELSE ts[i - 1]]

(* timer_next_deadline_ms: 0 means "no timer" and also "already expired".  *)
NextDeadline(ts) == IF ts = <<>> THEN 0 ELSE Head(ts).left

(* What a list contains, and that it contains nothing twice.               *)
Elements(s)  == {s[i] : i \in DOMAIN s}
Injective(s) == \A i, j \in DOMAIN s : s[i] = s[j] => i = j

=============================================================================

---------------------------- MODULE ServiceWalk ----------------------------
(***************************************************************************)
(* service_direct as its users see it: each call of it resends at most one *)
(* packet, and the iterator remembers how far the walk over the send       *)
(* window has come.  Between two calls anything of Endpoint may happen,    *)
(* time may pass, and the caller may drop the iterator.  The ServiceDirect *)
(* of Endpoint is a walk that nothing interrupts.                          *)
(***************************************************************************)
EXTENDS Endpoint

VARIABLE iter  \* the caller's Option<ServiceIter>
walkVars == <<vars, iter>>

ServiceIter == [seq_no : SeqNo, next_time : Nat]

WalkInit == Init /\ iter = None

\* iter.get_or_insert
Started ==
    IF iter # None THEN iter
    ELSE [seq_no |-> Wrap(seq.next_send_seq_no - CAP), next_time |-> MaxTime]

\* How many numbers the walk "it" has before it in s, and the slot of the k-th of them.
Left(s, it)  == Wrap(s.next_send_seq_no - it.seq_no)
Slot(it, k)  == Idx(Wrap(it.seq_no + k))
DueAt(it, k) == seq.send_window[Slot(it, k)] # None
                /\ seq.send_window[Slot(it, k)].next_resend_time <= clock
\* The earliest resend time the walk knows of after k more numbers.
NextTime(it, k) ==
    Min({it.next_time} \cup {seq.send_window[Slot(it, j)].next_resend_time :
            j \in {n \in 0 .. k - 1 : seq.send_window[Slot(it, n)] # None}})

\* A mistake: the time of the packet that is resent now is left out.
ResendOne_ForgetsResent(it, k) ==
    LET again == clock + ResendInterval
    IN  /\ seq' = [seq EXCEPT !.send_window[Slot(it, k)].next_resend_time = again]
        /\ iter' = [seq_no |-> Wrap(it.seq_no + k + 1), next_time |-> NextTime(it, k)]
\* service_direct meets the packet of the k-th number, which is due, and returns it.
ResendOne(it, k) ==
    LET again == clock + ResendInterval
    IN  /\ seq' = [seq EXCEPT !.send_window[Slot(it, k)].next_resend_time = again]
        /\ iter' = [seq_no |-> Wrap(it.seq_no + k + 1), next_time |-> Min({NextTime(it, k), again})]

WalkOn ==
    \E k \in 0 .. Left(seq, Started) - 1 :
        /\ DueAt(Started, k) /\ \A j \in 0 .. k - 1 : ~DueAt(Started, j)
        /\ IsServiceTime(seq, clock)
        /\ ResendOne(Started, k)
        /\ UNCHANGED <<clock, wake>>

\* A mistake: the walk forgets what it met in earlier calls.
Deadline_LastCall(it) == NextTime([it EXCEPT !.next_time = MaxTime], Left(seq, it))
Deadline(it) == NextTime(it, Left(seq, it))

\* It returns None: the walk is over, or there is nothing to do yet, and the caller, who
\* drops the iterator, knows how long to sleep.
WalkEnds ==
    /\ IsServiceTime(seq, clock) => \A k \in 0 .. Left(seq, Started) - 1 : ~DueAt(Started, k)
    /\ seq' = IF IsServiceTime(seq, clock)
              THEN [seq EXCEPT !.next_service_timestamp = Deadline(Started)]
              ELSE seq
    /\ wake' = clock + ServiceDelay(seq', clock)
    /\ iter' = None
    /\ UNCHANGED clock

\* The caller stops halfway.
WalkDropped == iter # None /\ iter' = None /\ UNCHANGED vars

\* A caller may take its time between two calls.
SlowTick == iter # None /\ clock < MaxClock /\ clock' = clock + 1 /\ UNCHANGED <<seq, wake, iter>>

\* Anything else happens between two calls.  Bound: not so many packets are sent meanwhile
\* that all sequence numbers are used up.
Between == Next /\ UNCHANGED iter
           /\ (iter # None => Left(seq', iter) >= Left(seq, iter))

WalkNext == WalkOn \/ WalkEnds \/ WalkDropped \/ SlowTick \/ Between
WalkSpec == WalkInit /\ [][WalkNext]_walkVars

----------------------------------------------------------------------------
\* Whatever happens between two calls, the walk misses no packet: each one in the send window
\* is still before it, or not due before the deadline it will set.
WalkMissesNone == iter # None =>
    /\ iter \in ServiceIter
    /\ \A i \in 0 .. CAP - 1 : seq.send_window[i] # None =>
        \/ Wrap(seq.send_window[i].seq_no - iter.seq_no) < Left(seq, iter)
        \/ iter.next_time <= seq.send_window[i].next_resend_time
=============================================================================

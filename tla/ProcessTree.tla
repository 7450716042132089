---------------------------- MODULE ProcessTree ----------------------------
(***************************************************************************)
(* One external process under supervision (process.rs): the supervising    *)
(* thread, the thread that drains the process's output, the operator who   *)
(* raises the cancellation flag, and the operating system's side of it,    *)
(* the child with the processes it starts in its group.  The supervisor    *)
(* writes all of the child's input before it watches it, tells the whole   *)
(* group to stop on cancellation, timeout or at the word of its tick, and  *)
(* returns when the output is at its end, which is when no process holds   *)
(* the pipe any more.  Standard error is a second pipe drained the same    *)
(* way; one of the two is modelled.                                        *)
(***************************************************************************)
EXTENDS Naturals, FiniteSets

CONSTANTS Member,        \* processes of the group, the child among them
          Child,         \* the process that was spawned: the group's leader
          Deaf,          \* members that handle TERM and go on
          Shy,           \* members that close the output pipe they inherit
          Input,         \* units the supervisor writes to the child's stdin
          PipeSize,      \* units a pipe holds
          Output,        \* units the group may write: a bound of the model
          OutputLimit,   \* units the reader retains
          Ticked,        \* supervise_with_tick rather than supervise
          None           \* no value

ASSUME GroupAssumption ==
    /\ IsFiniteSet(Member) /\ Child \in Member
    /\ Deaf \subseteq Member /\ Shy \subseteq Member \ {Child}

ASSUME SizeAssumption ==
    /\ Input \in Nat /\ Output \in Nat
    /\ PipeSize \in Nat \ {0} /\ OutputLimit \in Nat \ {0}
    /\ Ticked \in BOOLEAN

VARIABLES
    life,       \* [Member -> state of the process]
    holds,      \* members with the output pipe's writing end open
    inbox,      \* stdin: [fed, left]: units written, and those not read yet
    pipe,       \* output units written and not read yet
    produced,   \* output units written so far
    reader,     \* the draining thread: [retained, truncated, done]
    at,         \* where the supervisor is
    verdict,    \* the classification it will return, or None
    tickFailed, \* the tick returned an error
    signals,    \* signals sent to the group
    reaped,     \* the child's exit status was collected: its id is free
    raised,     \* what has become true outside: cancellation, time passed
    outcome     \* what supervise returned

world == <<life, holds, produced>>
desk  == <<verdict, tickFailed, signals, reaped, outcome>>
vars  == <<life, holds, inbox, pipe, produced, reader, at, verdict, tickFailed,
           signals, reaped, raised, outcome>>

Gone == {"exited", "erred", "signalled"}
Alarm == {"cancelled", "late", "grace"}     \* the flag, the deadline, the grace
Verdict == {"success", "failed", "timed_out", "cancelled", "signalled"}

ASSUME NoneAssumption == None \notin Verdict

Alive(m) == life[m] = "running"
Running  == {m \in Member : Alive(m)}

-----------------------------------------------------------------------------
(* The operating system's side. *)

\* A process of the group starts another, which inherits its end of the pipe.
Fork(p, m) ==
    /\ Alive(p)
    /\ life[m] = "unborn"
    /\ life' = [life EXCEPT ![m] = "running"]
    /\ holds' = IF p \in holds /\ m \notin Shy THEN holds \cup {m} ELSE holds
    /\ UNCHANGED <<inbox, pipe, produced, reader, at, raised, desk>>

\* A process ends by itself, or by a signal the supervisor did not send.
End(m, how) ==
    /\ Alive(m)
    /\ life' = [life EXCEPT ![m] = how]
    /\ holds' = holds \ {m}
    /\ UNCHANGED <<inbox, pipe, produced, reader, at, raised, desk>>

Emit(m) ==
    /\ Alive(m) /\ m \in holds
    /\ pipe < PipeSize /\ produced < Output
    /\ pipe' = pipe + 1
    /\ produced' = produced + 1
    /\ UNCHANGED <<life, holds, inbox, reader, at, raised, desk>>

ReadInput ==
    /\ Alive(Child)
    /\ inbox.left > 0
    /\ inbox' = [inbox EXCEPT !.left = @ - 1]
    /\ UNCHANGED <<pipe, reader, at, raised, world, desk>>

\* The operator's flag is raised, or time passes a deadline.
Raise(a) ==
    /\ a \notin raised
    /\ a = "grace" => at = "terminating"
    /\ raised' = raised \cup {a}
    /\ UNCHANGED <<inbox, pipe, reader, at, world, desk>>

-----------------------------------------------------------------------------
(* The draining thread: it reads to the end of the pipe, whatever it keeps. *)

Least(a, b) == IF a < b THEN a ELSE b

\* Fault: a read that fills what is available counts as a loss.
KeptFully(r, count) ==
    LET available == OutputLimit - r.retained IN
    [r EXCEPT !.retained = @ + Least(count, available),
              !.truncated = @ \/ count >= available]

Kept(r, count) ==
    LET available == OutputLimit - r.retained IN
    [r EXCEPT !.retained = @ + Least(count, available),
              !.truncated = @ \/ count > available]

Drain ==
    /\ ~reader.done
    /\ \E count \in 1..pipe :
        /\ reader' = Kept(reader, count)
        /\ pipe' = pipe - count
    /\ UNCHANGED <<inbox, at, raised, world, desk>>

EndOfOutput ==
    /\ ~reader.done
    /\ pipe = 0 /\ holds = {}
    /\ reader' = [reader EXCEPT !.done = TRUE]
    /\ UNCHANGED <<inbox, pipe, at, raised, world, desk>>

-----------------------------------------------------------------------------
(* The supervisor. *)

\* Each write waits for room; it fails when the child is gone, and supervise
\* returns the error without waiting for the child.
Feed ==
    /\ at = "feeding"
    /\ IF inbox.fed = Input
       THEN at' = "watching" /\ UNCHANGED inbox
       ELSE IF Alive(Child)
       THEN /\ inbox.left < PipeSize
            /\ inbox' = [fed |-> inbox.fed + 1, left |-> inbox.left + 1]
            /\ UNCHANGED at
       ELSE at' = "broken" /\ UNCHANGED inbox
    /\ UNCHANGED <<pipe, reader, raised, world, desk>>

Classified ==
    CASE life[Child] = "exited"    -> "success"
      [] life[Child] = "erred"     -> "failed"
      [] life[Child] = "signalled" -> "signalled"

\* try_wait: the child has ended, or the other reasons to stop are looked at.
LookAtChild ==
    /\ at = "watching"
    /\ IF Alive(Child)
       THEN at' = "deciding" /\ UNCHANGED <<verdict, reaped>>
       ELSE /\ verdict' = Classified
            /\ reaped' = TRUE
            /\ at' = "joining"
    /\ UNCHANGED <<inbox, pipe, reader, raised, tickFailed, signals, outcome, world>>

\* Fault: TERM to the child alone, not to its group.
SentToChild(signal) ==
    LET hit == IF signal = "TERM" THEN (Running \ Deaf) \cap {Child}
               ELSE Running \cap {Child} IN
    /\ signals' = signals \cup {signal}
    /\ life' = [m \in Member |-> IF m \in hit THEN "signalled" ELSE life[m]]
    /\ holds' = holds \ hit
    /\ UNCHANGED produced

\* A signal to the group: TERM ends the members that do not handle it, KILL
\* ends every one.
Sent(signal) ==
    LET hit == IF signal = "TERM" THEN Running \ Deaf ELSE Running IN
    /\ signals' = signals \cup {signal}
    /\ life' = [m \in Member |-> IF m \in hit THEN "signalled" ELSE life[m]]
    /\ holds' = holds \ hit
    /\ UNCHANGED produced

StopGroup(why, failed) ==
    /\ Sent("TERM")
    /\ verdict' = why
    /\ tickFailed' = failed
    /\ at' = "terminating"
    /\ UNCHANGED <<inbox, pipe, reader, raised, reaped, outcome>>

\* The flag, the deadline, then the tick when one is due: it may ask for a
\* stop or fail, and then the group is stopped as well.
Decide ==
    /\ at = "deciding"
    /\ \/ "cancelled" \in raised /\ StopGroup("cancelled", FALSE)
       \/ /\ "cancelled" \notin raised /\ "late" \in raised
          /\ StopGroup("timed_out", FALSE)
       \/ /\ raised \cap {"cancelled", "late"} = {} /\ Ticked
          /\ \E failed \in BOOLEAN : StopGroup("cancelled", failed)
       \/ /\ raised \cap {"cancelled", "late"} = {}
          /\ at' = "watching"
          /\ UNCHANGED <<inbox, pipe, reader, raised, world, desk>>

\* Fault: the child is reaped and the wait for the grace goes on.
ReapedButWaiting ==
    /\ at = "terminating"
    /\ "grace" \notin raised
    /\ ~Alive(Child)
    /\ reaped' = TRUE
    /\ UNCHANGED <<inbox, pipe, reader, at, raised, verdict, tickFailed, signals, outcome, world>>

\* Within the grace the child is polled: once it has ended no KILL follows.
StoppedInGrace ==
    /\ at = "terminating"
    /\ "grace" \notin raised
    /\ ~Alive(Child)
    /\ reaped' = TRUE
    /\ at' = "joining"
    /\ UNCHANGED <<inbox, pipe, reader, raised, verdict, tickFailed, signals, outcome, world>>

\* Fault: the child is waited for without a KILL.
GraceOverUnkilled ==
    /\ at = "terminating"
    /\ "grace" \in raised
    /\ at' = "reaping"
    /\ UNCHANGED <<inbox, pipe, reader, raised, desk, world>>

\* Once the grace is over the whole group is killed and the child waited for.
GraceOver ==
    /\ at = "terminating"
    /\ "grace" \in raised
    /\ Sent("KILL")
    /\ at' = "reaping"
    /\ UNCHANGED <<inbox, pipe, reader, raised, verdict, tickFailed, reaped, outcome>>

Wait ==
    /\ at = "reaping"
    /\ ~Alive(Child)
    /\ reaped' = TRUE
    /\ at' = "joining"
    /\ UNCHANGED <<inbox, pipe, reader, raised, verdict, tickFailed, signals, outcome, world>>

Join ==
    /\ at = "joining"
    /\ reader.done
    /\ outcome' = [class |-> IF tickFailed THEN "error" ELSE verdict,
                   retained |-> reader.retained, truncated |-> reader.truncated,
                   term |-> "TERM" \in signals, kill |-> "KILL" \in signals]
    /\ at' = "returned"
    /\ UNCHANGED <<inbox, pipe, reader, raised, verdict, tickFailed, signals, reaped, world>>

-----------------------------------------------------------------------------

Init ==
    /\ life = [m \in Member |-> IF m = Child THEN "running" ELSE "unborn"]
    /\ holds = {Child}
    /\ inbox = [fed |-> 0, left |-> 0]
    /\ pipe = 0
    /\ produced = 0
    /\ reader = [retained |-> 0, truncated |-> FALSE, done |-> FALSE]
    /\ at = "feeding"
    /\ verdict = None
    /\ tickFailed = FALSE
    /\ signals = {}
    /\ reaped = FALSE
    /\ raised = {}
    /\ outcome = None

Supervise ==
    Feed \/ LookAtChild \/ Decide \/ StoppedInGrace \/ GraceOver \/ Wait \/ Join
ReadOutput == Drain \/ EndOfOutput

Next ==
    \/ Supervise
    \/ ReadOutput
    \/ ReadInput
    \/ \E m \in Member :
        \/ \E p \in Member : Fork(p, m)
        \/ Emit(m)
        \/ \E how \in Gone : End(m, how)
    \/ \E a \in Alarm : Raise(a)

Spec == Init /\ [][Next]_vars

\* Both threads run and time passes; the processes need not do anything.
FairSpec ==
    /\ Spec
    /\ WF_vars(Supervise) /\ WF_vars(ReadOutput)
    /\ WF_vars(Raise("late")) /\ WF_vars(Raise("grace"))

-----------------------------------------------------------------------------

\* Every variable keeps its type; the child was born, and has not read more of
\* its input than it was given.
TreeTypeOK ==
    /\ life \in [Member -> {"unborn", "running"} \cup Gone]
    /\ life[Child] # "unborn"
    /\ holds \subseteq Member
    /\ inbox \in [fed : 0..Input, left : 0..Input] /\ inbox.left <= inbox.fed
    /\ pipe \in Nat /\ produced \in Nat
    /\ reader \in [retained : Nat, truncated : BOOLEAN, done : BOOLEAN]
    /\ at \in {"feeding", "watching", "deciding", "terminating", "reaping",
               "joining", "returned", "broken"}
    /\ verdict \in Verdict \cup {None}
    /\ tickFailed \in BOOLEAN /\ reaped \in BOOLEAN
    /\ signals \subseteq {"TERM", "KILL"}
    /\ raised \subseteq Alarm

\* What supervise returns is all the group ever wrote, up to the limit, and it
\* says so when something is missing: no process can write after the end, and
\* no read is lost between the two threads (process.rs, bounded_reader).
OutputIsWhole ==
    at = "returned" =>
        /\ outcome.retained = Least(produced, OutputLimit)
        /\ outcome.truncated = (produced > OutputLimit)

\* A success is the child's own: it ended with status zero before anyone told
\* it to stop; and a group that was killed has nobody left when the
\* supervisor returns (process.rs, supervise_inner, terminate_tree).
VerdictIsTrue ==
    at = "returned" =>
        /\ outcome.class = "success" =>
                life[Child] = "exited" /\ ~outcome.term /\ ~outcome.kill
        /\ outcome.kill => Running = {}
        /\ outcome.class = "timed_out" => "late" \in raised /\ outcome.term

\* The group is signalled only while the child has not been reaped: afterwards
\* its number may be another process group's (process.rs, terminate_tree).
NoSignalAfterReap ==
    [][signals' # signals => ~reaped]_vars

\* Past the deadline the supervisor ends, unless the child leaves its input
\* unread while the supervisor is still writing it, or a process that
\* outlived the child keeps the output open: nothing else can hold it up.
Unread   == at = "feeding" /\ inbox.left = PipeSize
Outlived == reaped /\ holds # {}
SupervisionEnds ==
    "late" \in raised ~> (at \in {"returned", "broken"} \/ Unread \/ Outlived)

=============================================================================

-------------------------- MODULE ProcessTreeProofs --------------------------
(***************************************************************************)
(* Supervision of a process, proved for every group of processes, deaf or  *)
(* not, and for every size of its input, its output and its pipe.          *)
(***************************************************************************)
EXTENDS ProcessTree, TLAPS

-----------------------------------------------------------------------------
(* Types. *)

Places == {"feeding", "watching", "deciding", "terminating", "reaping",
           "joining", "returned", "broken"}

\* A signal leaves every process in a state it may be in.
LEMMA SentType ==
    ASSUME TreeTypeOK, NEW signal \in {"TERM", "KILL"}, Sent(signal)
    PROVE  /\ life' \in [Member -> {"unborn", "running"} \cup Gone]
           /\ holds' \subseteq Member
           /\ produced' \in Nat
           /\ signals' \subseteq {"TERM", "KILL"}
           /\ life'[Child] # "unborn"
  BY GroupAssumption DEF TreeTypeOK, Sent, Gone

\* Every step keeps every variable within its type.
LEMMA TypeKept == TreeTypeOK /\ [Next]_vars => TreeTypeOK'
  <1> SUFFICES ASSUME TreeTypeOK, [Next]_vars PROVE TreeTypeOK'
      OBVIOUS
  <1> USE SizeAssumption, GroupAssumption
  <1>1. ASSUME NEW m \in Member, NEW p \in Member, Fork(p, m) PROVE TreeTypeOK'
    BY <1>1 DEF TreeTypeOK, Fork, Alive, desk
  <1>2. ASSUME NEW m \in Member, NEW how \in Gone, End(m, how) PROVE TreeTypeOK'
    BY <1>2 DEF TreeTypeOK, End, Alive, Gone, desk
  <1>3. ASSUME NEW m \in Member, Emit(m) PROVE TreeTypeOK'
    BY <1>3 DEF TreeTypeOK, Emit, Alive, desk
  <1>4. CASE ReadInput
    BY <1>4 DEF TreeTypeOK, ReadInput, Alive, desk, world
  <1>5. ASSUME NEW a \in Alarm, Raise(a) PROVE TreeTypeOK'
    BY <1>5 DEF TreeTypeOK, Raise, desk, world
  <1>6. CASE Drain
    <2>1. PICK count \in 1..pipe : reader' = Kept(reader, count) /\ pipe' = pipe - count
      BY <1>6 DEF Drain
    <2>2. pipe' \in Nat
      BY <2>1 DEF TreeTypeOK
    <2>3. reader' \in [retained : Nat, truncated : BOOLEAN, done : BOOLEAN]
      <3> DEFINE available == OutputLimit - reader.retained
      <3>1. reader.retained + Least(count, available) \in Nat
        BY DEF TreeTypeOK, Least
      <3>2. /\ (count > available) \in BOOLEAN
            /\ (reader.truncated \/ count > available) \in BOOLEAN
        OBVIOUS
      <3>3. reader' = [reader EXCEPT !.retained = reader.retained + Least(count, available),
                                    !.truncated = reader.truncated \/ count > available]
        BY <2>1 DEF Kept
      <3> HIDE DEF available
      <3> QED BY <3>1, <3>2, <3>3 DEF TreeTypeOK
    <2> QED BY <1>6, <2>2, <2>3 DEF TreeTypeOK, Drain, desk, world
  <1>7. CASE EndOfOutput
    BY <1>7 DEF TreeTypeOK, EndOfOutput, desk, world
  <1>8. CASE Feed
    BY <1>8 DEF TreeTypeOK, Feed, Alive, desk, world
  <1>9. CASE LookAtChild
    <2>1. life[Child] \in Gone \/ Alive(Child)
      BY DEF TreeTypeOK, Alive
    <2>2. life[Child] \in Gone => Classified \in Verdict
      BY DEF Gone, Classified, Verdict
    <2> QED BY <1>9, <2>1, <2>2 DEF TreeTypeOK, LookAtChild, world
  <1>10. CASE Decide
    <2>1. ASSUME NEW why \in {"cancelled", "timed_out"}, NEW failed \in BOOLEAN,
                 StopGroup(why, failed)
          PROVE  TreeTypeOK'
      <3>1. Sent("TERM")
        BY <2>1 DEF StopGroup
      <3> QED BY <2>1, <3>1, SentType DEF TreeTypeOK, StopGroup, Verdict
    <2>2. CASE UNCHANGED <<inbox, pipe, reader, raised, world, desk>> /\ at' = "watching"
      BY <2>2 DEF TreeTypeOK, desk, world
    <2> QED BY <1>10, <2>1, <2>2 DEF Decide
  <1>11. CASE StoppedInGrace
    BY <1>11 DEF TreeTypeOK, StoppedInGrace, world
  <1>12. CASE GraceOver
    <2>1. Sent("KILL")
      BY <1>12 DEF GraceOver
    <2> QED BY <1>12, <2>1, SentType DEF TreeTypeOK, GraceOver
  <1>13. CASE Wait
    BY <1>13 DEF TreeTypeOK, Wait, world
  <1>14. CASE Join
    BY <1>14 DEF TreeTypeOK, Join, world
  <1>15. CASE UNCHANGED vars
    BY <1>15 DEF TreeTypeOK, vars
  <1> QED
    BY <1>1, <1>2, <1>3, <1>4, <1>5, <1>6, <1>7, <1>8, <1>9, <1>10, <1>11, <1>12,
       <1>13, <1>14, <1>15 DEF Next, Supervise, ReadOutput

\* The first state has the types.
LEMMA TypeInit == Init => TreeTypeOK
  <1> SUFFICES ASSUME Init PROVE TreeTypeOK
      OBVIOUS
  <1>1. life \in [Member -> {"unborn", "running"} \cup Gone] /\ life[Child] # "unborn"
    BY GroupAssumption DEF Init
  <1>2. inbox \in [fed : 0..Input, left : 0..Input] /\ inbox.left <= inbox.fed
    BY SizeAssumption DEF Init
  <1>3. reader \in [retained : Nat, truncated : BOOLEAN, done : BOOLEAN]
    BY DEF Init
  <1> QED BY <1>1, <1>2, <1>3, GroupAssumption DEF Init, TreeTypeOK

\* Every variable keeps its type, for every group and every size.
THEOREM TreeTypesCorrect == Spec => []TreeTypeOK
  BY TypeInit, TypeKept, PTL DEF Spec

-----------------------------------------------------------------------------
(* Signals and the child's end. *)

\* Nobody is told to stop before there is a verdict, a success is the child's
\* own, and the child is reaped only on the way out.
Awaiting == {"feeding", "watching", "deciding", "broken"}
Leaving  == {"joining", "returned"}
SignalInv ==
    /\ at \in Awaiting => signals = {} /\ verdict = None
    /\ verdict = "success" => at \in Leaving /\ life[Child] = "exited" /\ signals = {}
    /\ verdict = "timed_out" => "late" \in raised /\ "TERM" \in signals
    /\ "KILL" \in signals => Running = {}
    /\ reaped => at \in Leaving

\* What has ended does not start again, and nobody starts when nobody runs.
LEMMA EndsAreFinal ==
    ASSUME TreeTypeOK, [Next]_vars
    PROVE  /\ life[Child] = "exited" => life'[Child] = "exited"
           /\ Running = {} => Running' = {}
  <1> USE GroupAssumption
  <1>1. ASSUME NEW m \in Member, NEW p \in Member, Fork(p, m)
        PROVE  /\ life[Child] = "exited" => life'[Child] = "exited"
               /\ Running # {}
    BY <1>1 DEF Fork, Alive, Running, TreeTypeOK
  <1>2. ASSUME NEW m \in Member, NEW how \in Gone, End(m, how)
        PROVE  /\ life[Child] = "exited" => life'[Child] = "exited"
               /\ Running # {}
    BY <1>2 DEF End, Alive, Running, TreeTypeOK, Gone
  <1>3. ASSUME NEW signal \in {"TERM", "KILL"}, Sent(signal)
        PROVE  /\ life[Child] = "exited" => life'[Child] = "exited"
               /\ Running = {} => Running' = {}
    BY <1>3 DEF Sent, Alive, Running, TreeTypeOK
  <1>4. ASSUME UNCHANGED life
        PROVE  /\ life[Child] = "exited" => life'[Child] = "exited"
               /\ Running = {} => Running' = {}
    BY <1>4 DEF Running, Alive
  <1>5. CASE Supervise
    <2>1. (\E signal \in {"TERM", "KILL"} : Sent(signal)) \/ UNCHANGED life
      BY <1>5 DEF Supervise, Feed, LookAtChild, Decide, StopGroup, StoppedInGrace, GraceOver,
                  Wait, Join, world
    <2> QED BY <2>1, <1>3, <1>4
  <1>6. CASE ReadOutput \/ ReadInput \/ (\E a \in Alarm : Raise(a)) \/ UNCHANGED vars
    <2>1. UNCHANGED life
      BY <1>6 DEF ReadOutput, Drain, EndOfOutput, ReadInput, Raise, world, vars
    <2> QED BY <2>1, <1>4
  <1>7. CASE \E m \in Member : Emit(m)
    <2>1. UNCHANGED life
      BY <1>7 DEF Emit
    <2> QED BY <2>1, <1>4
  <1> QED BY <1>1, <1>2, <1>5, <1>6, <1>7 DEF Next

\* A KILL leaves nobody of the group.
LEMMA KillEndsAll ==
    ASSUME TreeTypeOK, Sent("KILL")
    PROVE  Running' = {}
  BY DEF TreeTypeOK, Sent, Running, Alive

\* Only the supervisor touches what it knows; time only adds alarms.
LEMMA OthersLeaveTheDesk ==
    ASSUME [Next]_vars, ~Supervise
    PROVE  UNCHANGED <<at, desk>> /\ raised \subseteq raised'
  BY DEF Next, ReadOutput, Drain, EndOfOutput, ReadInput, Raise, Fork, End, Emit,
         world, desk, vars

LEMMA SignalInvKept == TreeTypeOK /\ SignalInv /\ [Next]_vars => SignalInv'
  <1> SUFFICES ASSUME TreeTypeOK, SignalInv, [Next]_vars PROVE SignalInv'
      OBVIOUS
  <1>0. /\ life[Child] = "exited" => life'[Child] = "exited"
        /\ Running = {} => Running' = {}
    BY EndsAreFinal
  <1>1. CASE ~Supervise
    BY <1>0, <1>1, OthersLeaveTheDesk DEF SignalInv, desk
  <1>2. CASE Feed
    BY <1>0, <1>2 DEF Feed, SignalInv, Awaiting, Leaving, desk, world
  <1>3. CASE LookAtChild
    <2>1. CASE Alive(Child)
      BY <1>0, <1>3, <2>1 DEF LookAtChild, SignalInv, Awaiting, Leaving, world
    <2>2. CASE ~Alive(Child)
      <3>1. at' = "joining" /\ verdict' = Classified /\ UNCHANGED <<life, signals, raised>>
        BY <1>3, <2>2 DEF LookAtChild, world
      <3>2. signals = {}
        BY <1>3 DEF LookAtChild, SignalInv, Awaiting
      <3>3. life[Child] \in Gone
        BY <2>2, GroupAssumption DEF TreeTypeOK, Alive, Gone
      <3>4. /\ Classified # "timed_out"
            /\ Classified = "success" => life[Child] = "exited"
        BY <3>3 DEF Classified, Gone
      <3> QED BY <3>1, <3>2, <3>4 DEF SignalInv, Awaiting, Leaving
    <2> QED BY <2>1, <2>2
  <1>4. CASE Decide
    <2>1. ASSUME NEW why, NEW failed \in BOOLEAN, StopGroup(why, failed),
                 \/ why = "cancelled"
                 \/ why = "timed_out" /\ "late" \in raised
          PROVE  SignalInv'
      <3>1. /\ at' = "terminating" /\ verdict' = why
            /\ UNCHANGED <<raised, reaped>>
        BY <2>1 DEF StopGroup
      <3>2. signals' = {"TERM"} /\ ~reaped
        BY <1>4, <2>1 DEF StopGroup, Sent, Decide, SignalInv, Awaiting, Leaving
      <3> QED BY <2>1, <3>1, <3>2 DEF SignalInv, Awaiting, Leaving
    <2>2. CASE UNCHANGED <<raised, desk>> /\ at' = "watching"
      BY <1>0, <1>4, <2>2 DEF SignalInv, Decide, Awaiting, Leaving, desk
    <2> QED BY <1>4, <2>1, <2>2 DEF Decide
  <1>5. CASE StoppedInGrace
    BY <1>0, <1>5 DEF StoppedInGrace, SignalInv, Awaiting, Leaving, world
  <1>6. CASE GraceOver
    <2>1. Running' = {}
      BY <1>6, KillEndsAll DEF GraceOver
    <2>2. /\ at = "terminating" /\ at' = "reaping"
          /\ signals' = signals \cup {"KILL"}
          /\ UNCHANGED <<verdict, raised, reaped>>
      BY <1>6 DEF GraceOver, Sent
    <2> QED BY <2>1, <2>2 DEF SignalInv, Awaiting, Leaving
  <1>7. CASE Wait
    BY <1>0, <1>7 DEF Wait, SignalInv, Awaiting, Leaving, world
  <1>8. CASE Join
    BY <1>0, <1>8 DEF Join, SignalInv, Awaiting, Leaving, world
  <1> QED BY <1>1, <1>2, <1>3, <1>4, <1>5, <1>6, <1>7, <1>8 DEF Supervise

-----------------------------------------------------------------------------
(* The output. *)

\* The reader has taken what was written and is not in the pipe, up to the
\* limit, and once it is done nobody can write any more.
Taken == produced - pipe
OutputInv ==
    /\ pipe <= produced
    /\ reader.retained = Least(Taken, OutputLimit)
    /\ reader.truncated <=> Taken > OutputLimit
    /\ reader.done => pipe = 0 /\ holds = {}

\* Steps that neither write nor read leave the output as it is.
LEMMA OutputKept ==
    ASSUME OutputInv, UNCHANGED <<pipe, produced, reader>>, holds = {} => holds' = {}
    PROVE  OutputInv'
  BY DEF OutputInv, Taken

\* Reading more of the pipe keeps what is read in step with what is written.
LEMMA KeptInStep ==
    ASSUME TreeTypeOK, OutputInv, NEW count \in 1..pipe,
           UNCHANGED <<produced, holds>>, ~reader.done,
           reader' = Kept(reader, count), pipe' = pipe - count
    PROVE  OutputInv'
  <1> DEFINE available == OutputLimit - reader.retained
             more == count > available
  <1>1. /\ pipe \in Nat /\ produced \in Nat /\ OutputLimit \in Nat /\ count \in Nat
        /\ pipe <= produced /\ count <= pipe /\ count >= 1
        /\ reader.retained = Least(Taken, OutputLimit)
    BY SizeAssumption DEF TreeTypeOK, OutputInv
  <1>2. Taken' = Taken + count /\ pipe' <= produced'
    BY <1>1 DEF Taken
  <1>3. reader.retained + Least(count, available) = Least(Taken', OutputLimit)
    BY <1>1, <1>2 DEF Least, Taken
  <1>4. (Taken > OutputLimit \/ more) <=> Taken' > OutputLimit
    BY <1>1, <1>2 DEF Least, Taken
  <1>5. reader' = [reader EXCEPT !.retained = reader.retained + Least(count, available),
                                !.truncated = reader.truncated \/ more]
    BY DEF Kept
  <1>6. /\ reader'.retained = reader.retained + Least(count, available)
        /\ reader'.truncated = (reader.truncated \/ more)
        /\ reader'.done = reader.done
    <2> HIDE DEF more, available
    <2> QED BY <1>5 DEF TreeTypeOK
  <1> HIDE DEF more, available
  <1>7. reader'.retained = Least(Taken', OutputLimit')
    BY <1>3, <1>6
  <1>8. reader'.truncated <=> Taken' > OutputLimit'
    BY <1>4, <1>6, Zenon DEF OutputInv
  <1>9. ~reader'.done
    BY <1>6
  <1> QED BY <1>2, <1>7, <1>8, <1>9 DEF OutputInv

LEMMA OutputInvKept == TreeTypeOK /\ OutputInv /\ [Next]_vars => OutputInv'
  <1> SUFFICES ASSUME TreeTypeOK, OutputInv, [Next]_vars PROVE OutputInv'
      OBVIOUS
  <1>1. ASSUME NEW m \in Member, NEW p \in Member, Fork(p, m) PROVE OutputInv'
    BY <1>1, OutputKept DEF Fork, desk
  <1>2. ASSUME NEW m \in Member, NEW how \in Gone, End(m, how) PROVE OutputInv'
    BY <1>2, OutputKept DEF End
  <1>3. ASSUME NEW m \in Member, Emit(m) PROVE OutputInv'
    <2>1. Taken' = Taken /\ pipe' <= produced' /\ ~reader.done
      BY <1>3 DEF Emit, Taken, TreeTypeOK, OutputInv
    <2> QED BY <1>3, <2>1 DEF Emit, OutputInv
  <1>4. CASE Drain
    <2>1. PICK count \in 1..pipe : reader' = Kept(reader, count) /\ pipe' = pipe - count
      BY <1>4 DEF Drain
    <2> QED BY <1>4, <2>1, KeptInStep DEF Drain, world
  <1>5. CASE EndOfOutput
    <2>1. /\ reader'.retained = reader.retained /\ reader'.truncated = reader.truncated
          /\ pipe' = 0 /\ holds' = {} /\ Taken' = Taken /\ pipe' <= produced'
      BY <1>5 DEF EndOfOutput, TreeTypeOK, OutputInv, Taken, world
    <2> QED BY <2>1 DEF OutputInv
  <1>6. CASE Supervise
    <2>1. UNCHANGED <<pipe, produced, reader>> /\ holds' \subseteq holds
      BY <1>6 DEF Supervise, Feed, LookAtChild, Decide, StopGroup, StoppedInGrace, GraceOver,
                  Wait, Join, Sent, world
    <2> QED BY <2>1, OutputKept
  <1>7. CASE ReadInput \/ (\E a \in Alarm : Raise(a)) \/ UNCHANGED vars
    <2>1. UNCHANGED <<pipe, produced, reader, holds>>
      BY <1>7 DEF ReadInput, Raise, world, vars
    <2> QED BY <2>1, OutputKept
  <1> QED BY <1>1, <1>2, <1>3, <1>4, <1>5, <1>6, <1>7 DEF Next, ReadOutput

-----------------------------------------------------------------------------
(* What is returned. *)

\* What supervise returned is what the supervisor and the reader knew at the
\* end, and neither learns anything afterwards.
OutcomeInv ==
    at = "returned" =>
        /\ reader.done
        /\ outcome = [class |-> IF tickFailed THEN "error" ELSE verdict,
                      retained |-> reader.retained, truncated |-> reader.truncated,
                      term |-> "TERM" \in signals, kill |-> "KILL" \in signals]

LEMMA OutcomeInvKept == OutcomeInv /\ [Next]_vars => OutcomeInv'
  <1> SUFFICES ASSUME OutcomeInv, [Next]_vars PROVE OutcomeInv'
      OBVIOUS
  <1>1. CASE Join
    BY <1>1 DEF Join, OutcomeInv
  <1>2. CASE at = "returned" /\ ~Supervise
    <2>1. UNCHANGED <<at, desk>>
      BY <1>2, OthersLeaveTheDesk
    <2>2. UNCHANGED reader
      BY <1>2 DEF Next, ReadOutput, Drain, EndOfOutput, ReadInput, Raise, Fork, End, Emit,
                  OutcomeInv, vars
    <2> QED BY <2>1, <2>2 DEF OutcomeInv, desk
  <1>3. CASE at # "returned" /\ ~Join
    <2>1. at' # "returned"
      BY <1>3 DEF Next, Supervise, Feed, LookAtChild, Decide, StopGroup, StoppedInGrace,
                  GraceOver, Wait, ReadOutput, Drain, EndOfOutput, ReadInput, Raise, Fork,
                  End, Emit, vars
    <2> QED BY <2>1 DEF OutcomeInv
  <1>4. CASE at = "returned" /\ Supervise
    BY <1>4 DEF Supervise, Feed, LookAtChild, Decide, StoppedInGrace, GraceOver, Wait, Join
  <1> QED BY <1>1, <1>2, <1>3, <1>4

TreeInv == TreeTypeOK /\ SignalInv /\ OutputInv /\ OutcomeInv

\* The types and the three invariants hold of every reachable state.
LEMMA TreeInvHolds == Spec => []TreeInv
  <1>1. Init => SignalInv /\ OutputInv /\ OutcomeInv
    BY NoneAssumption, SizeAssumption
       DEF Init, SignalInv, OutputInv, OutcomeInv, Awaiting, Leaving, Taken, Least, Verdict
  <1>2. Init => TreeInv
    BY <1>1, TypeInit DEF TreeInv
  <1>3. TreeInv /\ [Next]_vars => TreeInv'
    BY TypeKept, SignalInvKept, OutputInvKept, OutcomeInvKept DEF TreeInv
  <1> QED BY <1>2, <1>3, PTL DEF Spec

\* What supervise returns is the whole of the output, up to the limit, and a
\* loss is told, for every group and every size (process.rs, bounded_reader).
THEOREM OutputReturned == Spec => []OutputIsWhole
  <1>1. TreeInv => OutputIsWhole
    <2> SUFFICES ASSUME TreeInv, at = "returned"
                 PROVE  /\ outcome.retained = Least(produced, OutputLimit)
                        /\ outcome.truncated = (produced > OutputLimit)
        BY DEF OutputIsWhole
    <2>1. /\ outcome.retained = reader.retained /\ outcome.truncated = reader.truncated
          /\ reader.done
      BY DEF TreeInv, OutcomeInv
    <2>2. Taken = produced
      BY <2>1 DEF TreeInv, OutputInv, TreeTypeOK, Taken
    <2>3. reader.truncated \in BOOLEAN
      BY DEF TreeInv, TreeTypeOK
    <2> DEFINE more == produced > OutputLimit
    <2>4. reader.truncated <=> more
      BY <2>2 DEF TreeInv, OutputInv
    <2>5. more \in BOOLEAN
      OBVIOUS
    <2>6. reader.truncated = more
      <3> HIDE DEF more
      <3> QED BY <2>3, <2>4, <2>5, Zenon
    <2> QED BY <2>1, <2>2, <2>6 DEF TreeInv, OutputInv
  <1> QED BY <1>1, TreeInvHolds, PTL

\* A reported success is the child's own, a reported kill leaves nobody, and a
\* reported timeout was one, for every group (process.rs, supervise_inner).
THEOREM VerdictsAreTrue == Spec => []VerdictIsTrue
  <1>1. TreeInv => VerdictIsTrue
    <2> SUFFICES ASSUME TreeInv, at = "returned" PROVE VerdictIsTrue
        BY DEF VerdictIsTrue
    <2> DEFINE class == IF tickFailed THEN "error" ELSE verdict
               told  == "TERM" \in signals
               killed == "KILL" \in signals
    <2>1. outcome = [class |-> class, retained |-> reader.retained,
                     truncated |-> reader.truncated, term |-> told, kill |-> killed]
      BY DEF TreeInv, OutcomeInv
    <2>2. outcome.class = class /\ outcome.term = told /\ outcome.kill = killed
      <3> HIDE DEF class, told, killed
      <3> QED BY <2>1
    <2>3. /\ class = "success" => life[Child] = "exited" /\ ~told /\ ~killed
          /\ killed => Running = {}
          /\ class = "timed_out" => "late" \in raised /\ told
      BY DEF TreeInv, SignalInv
    <2> HIDE DEF class, told, killed
    <2> QED BY <2>2, <2>3, Zenon DEF VerdictIsTrue
  <1> QED BY <1>1, TreeInvHolds, PTL

\* No signal follows the collection of the child's status: the number of the
\* group may be another's by then (process.rs, terminate_tree).
THEOREM ReapedGroupsAreLeft == Spec => NoSignalAfterReap
  <1>1. TreeInv /\ [Next]_vars => (signals' # signals => ~reaped)
    <2> SUFFICES ASSUME TreeInv, [Next]_vars, signals' # signals PROVE ~reaped
        OBVIOUS
    <2>1. Supervise
      BY OthersLeaveTheDesk DEF desk
    <2>2. Decide \/ GraceOver
      BY <2>1 DEF Supervise, Feed, LookAtChild, StoppedInGrace, Wait, Join, desk
    <2>3. at \notin Leaving
      BY <2>2 DEF Decide, GraceOver, Leaving
    <2> QED BY <2>3 DEF TreeInv, SignalInv
  <1> QED BY <1>1, TreeInvHolds, PTL DEF Spec, NoSignalAfterReap

=============================================================================

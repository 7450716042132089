------------------------------ MODULE Projection ------------------------------
(***************************************************************************)
(* The task list a project shows to people (projections.rs): TASKS.md is   *)
(* written after each command that changed the tasks, by the process that  *)
(* ran it, through one temporary file every process shares, and a digest   *)
(* beside the file tells an edited list from a generated one.  Processes   *)
(* run their commands at the same time and may die between any two calls;  *)
(* a person edits the list or removes it.  An open file is an inode, which *)
(* keeps being written when its name has moved.                            *)
(***************************************************************************)
EXTENDS Naturals, FiniteSets

CONSTANTS Proc,          \* command line processes and daemons
          Inode,         \* files on disk: enough for every one open or named
          MaxVersion,    \* changes of the tasks: a bound of the model
          MaxTouches,    \* edits and removals: a bound of the model
          MaxCrashes,    \* deaths of processes: a bound of the model
          None

ASSUME BoundAssumption ==
    /\ IsFiniteSet(Proc) /\ IsFiniteSet(Inode)
    /\ Cardinality(Inode) >= Cardinality(Proc) + 2
    /\ MaxVersion \in Nat /\ MaxTouches \in Nat /\ MaxCrashes \in Nat

VARIABLES
    version,  \* changes of the project's tasks that were committed
    disk,     \* [Inode -> content]
    name,     \* [file, tmp -> inode, or None]
    digest,   \* the content the sidecar is the digest of, or None
    proc,     \* [Proc -> where the process is with its command]
    past      \* what happened: [touches, crashes, shared, stands, promised]

vars == <<version, disk, name, digest, proc, past>>

Empty   == [kind |-> "empty", of |-> 0]
Mixed   == [kind |-> "mixed", of |-> 0]     \* two lists written over each other
Edited  == [kind |-> "edit", of |-> 0]
List(v) == [kind |-> "list", of |-> v]      \* the tasks as of a version
Content == {Empty, Mixed, Edited} \cup {List(v) : v \in 0..MaxVersion}

ASSUME NoneAssumption == None \notin Inode /\ None \notin Content

Phase == {"idle", "listing", "reading", "comparing", "opening", "writing",
          "activating", "sealing", "signing"}
Idle  == [at |-> "idle", own |-> 0, lists |-> 0, saw |-> None, fd |-> None]

File == IF name.file = None THEN None ELSE disk[name.file]

\* An inode nobody has open and no name leads to.
Fresh == CHOOSE i \in Inode :
            i \notin {name.file, name.tmp} \cup {proc[p].fd : p \in Proc}

Move(p, at) == proc' = [proc EXCEPT ![p].at = at]

-----------------------------------------------------------------------------
(* Commands. *)

\* Fault: the tasks are listed before the change is made.
ListedFirst(p) ==
    /\ proc[p].at = "idle" /\ version < MaxVersion
    /\ version' = version + 1
    /\ proc' = [proc EXCEPT ![p] =
                    [Idle EXCEPT !.at = "reading", !.own = version', !.lists = version]]
    /\ past' = [past EXCEPT !.promised = version',
                            !.shared = @ \/ \E q \in Proc : proc[q].at # "idle"]
    /\ UNCHANGED <<disk, name, digest>>

\* A command commits its change of the tasks, and then refreshes the list.
Change(p) ==
    /\ proc[p].at = "idle" /\ version < MaxVersion
    /\ version' = version + 1
    /\ proc' = [proc EXCEPT ![p] = [Idle EXCEPT !.at = "listing", !.own = version']]
    /\ past' = [past EXCEPT !.promised = version',
                            !.shared = @ \/ \E q \in Proc : proc[q].at # "idle"]
    /\ UNCHANGED <<disk, name, digest>>

\* Scheduling, supervision and the lines of a local run change tasks and leave
\* the list alone.
ChangeUnseen ==
    /\ version < MaxVersion
    /\ version' = version + 1
    /\ UNCHANGED <<disk, name, digest, proc, past>>

ListTasks(p) ==
    /\ proc[p].at = "listing"
    /\ proc' = [proc EXCEPT ![p].at = "reading", ![p].lists = version]
    /\ UNCHANGED <<version, disk, name, digest, past>>

-----------------------------------------------------------------------------
(* write_projection, call by call. *)

\* The file is compared only when both it and its sidecar are there.
ReadCurrent(p) ==
    /\ proc[p].at = "reading"
    /\ IF File # None /\ digest # None
       THEN proc' = [proc EXCEPT ![p].at = "comparing", ![p].saw = File]
       ELSE Move(p, "opening")
    /\ UNCHANGED <<version, disk, name, digest, past>>

\* Fault: a conflict is told by the sidecar's presence alone.
CompareNothing(p) ==
    /\ proc[p].at = "comparing"
    /\ Move(p, IF digest = Empty THEN "idle" ELSE "opening")
    /\ UNCHANGED <<version, disk, name, digest, past>>

\* Another content than the sidecar's is a conflict, and the command fails.
Compare(p) ==
    /\ proc[p].at = "comparing"
    /\ proc' = [proc EXCEPT ![p] =
                    IF proc[p].saw = digest THEN [@ EXCEPT !.at = "opening"] ELSE Idle]
    /\ UNCHANGED <<version, disk, name, digest, past>>

\* Fault: the list is written in place.
OpenInPlace(p) ==
    LET i == IF name.file = None THEN Fresh ELSE name.file IN
    /\ proc[p].at = "opening"
    /\ disk' = [disk EXCEPT ![i] = Empty]
    /\ name' = [file |-> i, tmp |-> i]
    /\ proc' = [proc EXCEPT ![p].at = "writing", ![p].fd = i]
    /\ UNCHANGED <<version, digest, past>>

\* The temporary file is created, or the one that is there is truncated.
OpenTemporary(p) ==
    LET i == IF name.tmp = None THEN Fresh ELSE name.tmp IN
    /\ proc[p].at = "opening"
    /\ disk' = [disk EXCEPT ![i] = Empty]
    /\ name' = [name EXCEPT !.tmp = i]
    /\ proc' = [proc EXCEPT ![p].at = "writing", ![p].fd = i]
    /\ UNCHANGED <<version, digest, past>>

\* What another process wrote into the same file shows behind a shorter list.
WriteTemporary(p) ==
    /\ proc[p].at = "writing"
    /\ \E c \in {List(proc[p].lists)} \cup (IF disk[proc[p].fd] = Empty THEN {} ELSE {Mixed}) :
            disk' = [disk EXCEPT ![proc[p].fd] = c]
    /\ proc' = [proc EXCEPT ![p].at = "activating", ![p].fd = None]
    /\ UNCHANGED <<version, name, digest, past>>

\* Whatever the temporary file holds takes the name; when another process has
\* moved it, there is nothing to rename and the command fails.
Activate(p) ==
    /\ proc[p].at = "activating"
    /\ IF name.tmp = None
       THEN /\ proc' = [proc EXCEPT ![p] = Idle]
            /\ UNCHANGED <<name, past>>
       ELSE /\ name' = [file |-> name.tmp, tmp |-> None]
            /\ Move(p, "sealing")
            /\ UNCHANGED past
    /\ UNCHANGED <<version, disk, digest>>

TruncateDigest(p) ==
    /\ proc[p].at = "sealing"
    /\ digest' = Empty
    /\ Move(p, "signing")
    /\ UNCHANGED <<version, disk, name, past>>

WriteDigest(p) ==
    /\ proc[p].at = "signing"
    /\ digest' = List(proc[p].lists)
    /\ proc' = [proc EXCEPT ![p] = Idle]
    /\ UNCHANGED <<version, disk, name, past>>

-----------------------------------------------------------------------------
(* Deaths and people. *)

\* What the process had done stays as it is.
Die(p) ==
    /\ proc[p].at # "idle" /\ past.crashes < MaxCrashes
    /\ proc' = [proc EXCEPT ![p] = Idle]
    /\ past' = [past EXCEPT !.crashes = @ + 1]
    /\ UNCHANGED <<version, disk, name, digest>>

\* Someone edits the list.  The edit stands when the sidecar is there to tell
\* it and every refresh under way has yet to look at the file.
Edit ==
    /\ name.file # None /\ past.touches < MaxTouches
    /\ disk' = [disk EXCEPT ![name.file] = Edited]
    /\ past' = [past EXCEPT !.touches = @ + 1,
                            !.stands = /\ digest # None
                                       /\ \A p \in Proc :
                                            proc[p].at \in {"idle", "listing", "reading"}]
    /\ UNCHANGED <<version, name, digest, proc>>

\* Someone removes the list, an edited one to end the conflict.
Remove ==
    /\ name.file # None /\ past.touches < MaxTouches
    /\ name' = [name EXCEPT !.file = None]
    /\ past' = [past EXCEPT !.touches = @ + 1, !.stands = FALSE]
    /\ UNCHANGED <<version, disk, digest, proc>>

-----------------------------------------------------------------------------

\* The project was committed, and the process that added it writes the first
\* files: an empty list among them.
Init ==
    /\ version = 0
    /\ disk = [i \in Inode |-> Empty]
    /\ name = [file |-> None, tmp |-> None]
    /\ digest = None
    /\ \E first \in Proc :
        proc = [p \in Proc |-> IF p = first THEN [Idle EXCEPT !.at = "reading"] ELSE Idle]
    /\ past = [touches |-> 0, crashes |-> 0, shared |-> FALSE, stands |-> FALSE,
               promised |-> 0]

RefreshTasks(p) ==
    ListTasks(p) \/ ReadCurrent(p) \/ Compare(p) \/ OpenTemporary(p)
        \/ WriteTemporary(p) \/ Activate(p) \/ TruncateDigest(p) \/ WriteDigest(p)

Next ==
    \/ \E p \in Proc : Change(p) \/ RefreshTasks(p) \/ Die(p)
    \/ ChangeUnseen
    \/ Edit
    \/ Remove

Spec == Init /\ [][Next]_vars

-----------------------------------------------------------------------------
(* What the list promises. *)

Undisturbed == past.touches = 0 /\ past.crashes = 0 /\ ~past.shared
Quiet == \A p \in Proc : proc[p].at = "idle"

\* An edit that stands is still there: whatever processes do, together or one
\* after the other, dead or alive, only the person takes it back
\* (projections.rs:140-150, stale_human_edit_is_reported_without_overwrite).
\* An edit made between a refresh's look at the file and its rename is lost.
EditStands == past.stands => File = Edited

\* A process that dies at any call leaves a whole list or none, as long as no
\* two processes refresh it at once (projections.rs:151-155).
NeverTorn == ~past.shared /\ File # None => File.kind \in {"list", "edit"}

\* Left alone, the list shows every change a command made, and its sidecar
\* agrees with it, so that a conflict is always somebody's edit
\* (service.rs, refresh_tasks; projections.rs:156-158).
ListFollows ==
    Undisturbed /\ Quiet =>
        /\ File = digest
        /\ File.kind = "list" /\ File.of >= past.promised

=============================================================================

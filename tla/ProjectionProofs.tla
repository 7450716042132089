---------------------------- MODULE ProjectionProofs ----------------------------
(***************************************************************************)
(* What the task list promises, proved for any number of processes that    *)
(* refresh it, and any number of changes, edits, removals and deaths.      *)
(***************************************************************************)
EXTENDS Projection, FiniteSetTheorems, TLAPS

-----------------------------------------------------------------------------
(* Types. *)

ProcRow == [at: Phase, own: 0..MaxVersion, lists: 0..MaxVersion,
            saw: Content \cup {None}, fd: Inode \cup {None}]
NameRow == [file: Inode \cup {None}, tmp: Inode \cup {None}]
PastRow == [touches: Nat, crashes: Nat, shared: BOOLEAN, stands: BOOLEAN,
            promised: 0..MaxVersion]

\* A process has the temporary file open exactly while it writes it.
ListTypeOK ==
    /\ version \in 0..MaxVersion
    /\ disk \in [Inode -> Content]
    /\ name \in NameRow
    /\ digest \in Content \cup {None}
    /\ proc \in [Proc -> ProcRow]
    /\ past \in PastRow
    /\ \A p \in Proc : proc[p].fd # None <=> proc[p].at = "writing"

\* A process that has no file open finds an inode nobody uses.
LEMMA FreshExists ==
    ASSUME ListTypeOK, NEW p \in Proc, proc[p].fd = None
    PROVE  Fresh \in Inode /\ Fresh # name.file /\ \A q \in Proc : proc[q].fd # Fresh
<1> DEFINE fds == {proc[q].fd : q \in Proc}
           names == {name.file, name.tmp}
           used == names \cup fds
<1>1. IsFiniteSet(fds) /\ Cardinality(fds) <= Cardinality(Proc)
  <2>1. DEFINE open == [q \in Proc |-> proc[q].fd]
  <2>2. open \in Surjection(Proc, fds)
    BY DEF Surjection
  <2> HIDE DEF open, fds
  <2> QED
    BY <2>2, FS_Surjection, BoundAssumption
<1>2. IsFiniteSet(names) /\ Cardinality(names) <= 2
  <2>1. IsFiniteSet({name.file}) /\ Cardinality({name.file}) = 1
    BY FS_Singleton
  <2>2. names = {name.file} \cup {name.tmp}
    OBVIOUS
  <2> HIDE DEF names
  <2> QED
    BY <2>1, <2>2, FS_AddElement
<1>3. Cardinality(Proc) \in Nat /\ Cardinality(Inode) \in Nat /\ Cardinality(fds) \in Nat
      /\ Cardinality(names) \in Nat
  BY <1>1, <1>2, FS_CardinalityType, BoundAssumption
<1>4. IsFiniteSet(used) /\ Cardinality(used) <= Cardinality(fds) + Cardinality(names)
  <2> HIDE DEF fds, names
  <2>1. /\ IsFiniteSet(used) /\ IsFiniteSet(names \cap fds)
        /\ Cardinality(used) = Cardinality(names) + Cardinality(fds)
                                - Cardinality(names \cap fds)
    BY <1>1, <1>2, FS_Union, FS_Intersection
  <2>2. Cardinality(names \cap fds) \in Nat
    BY <2>1, FS_CardinalityType
  <2> QED
    BY <1>3, <2>1, <2>2
<1>5. None \in used
  OBVIOUS
<1>6. \E i \in Inode : i \notin used
  <2> SUFFICES ASSUME Inode \subseteq used PROVE FALSE
    OBVIOUS
  <2> HIDE DEF used, fds, names
  <2>1. /\ IsFiniteSet(used \ {None})
        /\ Cardinality(used \ {None}) = Cardinality(used) - 1
    BY <1>4, <1>5, FS_RemoveElement
  <2>2. Inode \subseteq used \ {None}
    BY NoneAssumption
  <2>3. Cardinality(Inode) <= Cardinality(used \ {None})
    BY <2>1, <2>2, FS_Subset
  <2>4. Cardinality(used) \in Nat
    BY <1>4, FS_CardinalityType
  <2> QED
    BY <1>1, <1>2, <1>3, <1>4, <2>1, <2>3, <2>4, BoundAssumption
<1> QED
  BY <1>6 DEF Fresh

\* A process opens an inode as the temporary file, not the one of the list unless
\* both have that name.
OpensAt(p, i) ==
    /\ i \in Inode
    /\ i = name.tmp \/ i # name.file
    /\ disk' = [disk EXCEPT ![i] = Empty]
    /\ name' = [name EXCEPT !.tmp = i]
    /\ proc' = [proc EXCEPT ![p].at = "writing", ![p].fd = i]

LEMMA TemporaryIs ==
    ASSUME ListTypeOK, NEW p \in Proc, OpenTemporary(p)
    PROVE  \E i \in Inode : OpensAt(p, i)
<1>1. proc[p].fd = None
  BY DEF ListTypeOK, OpenTemporary
<1>2. CASE name.tmp = None
  <2>1. Fresh \in Inode /\ Fresh # name.file
    BY <1>1, FreshExists
  <2>2. OpensAt(p, Fresh)
    BY <1>2, <2>1 DEF OpenTemporary, OpensAt
  <2> QED
    BY <2>1, <2>2
<1>3. CASE name.tmp # None
  <2>1. name.tmp \in Inode
    BY <1>3 DEF ListTypeOK, NameRow
  <2>2. OpensAt(p, name.tmp)
    BY <1>3, <2>1 DEF OpenTemporary, OpensAt
  <2> QED
    BY <2>1, <2>2
<1> QED
  BY <1>2, <1>3

LEMMA ContentIs ==
    /\ Empty \in Content /\ Mixed \in Content /\ Edited \in Content
    /\ \A v \in 0..MaxVersion : List(v) \in Content
    /\ None \notin Content /\ None \notin Inode
  BY NoneAssumption DEF Content

LEMMA IdleIs == Idle \in ProcRow /\ Idle.fd = None /\ Idle.at = "idle"
<1>1. 0 \in 0..MaxVersion
  BY BoundAssumption
<1> QED
  BY <1>1 DEF Idle, ProcRow, Phase

LEMMA ListTypesKept ==
    ASSUME ListTypeOK, [Next]_vars
    PROVE  ListTypeOK'
<1> USE BoundAssumption, ContentIs, IdleIs
<1>1. ASSUME NEW p \in Proc, Change(p) PROVE ListTypeOK'
  <2>1. PICK after : after = version'
    OBVIOUS
  <2>2. after \in 0..MaxVersion /\ version' = after
    BY <1>1, <2>1 DEF ListTypeOK, Change
  <2>3. past' = [past EXCEPT !.promised = after, !.shared = past'.shared]
        /\ past'.shared \in BOOLEAN
    <3>1. PICK busy : busy = (\E q \in Proc : proc[q].at # "idle")
      OBVIOUS
    <3>2. past' = [past EXCEPT !.promised = after, !.shared = past.shared \/ busy]
      BY <1>1, <2>1, <3>1 DEF Change
    <3> QED
      BY <3>2 DEF ListTypeOK, PastRow
  <2>4. past' \in PastRow
    BY <2>2, <2>3 DEF ListTypeOK, PastRow
  <2>5. proc' = [proc EXCEPT ![p] = [Idle EXCEPT !.at = "listing", !.own = after]]
    BY <1>1, <2>1 DEF Change
  <2>6. proc' \in [Proc -> ProcRow] /\ proc'[p].fd = None /\ proc'[p].at = "listing"
        /\ \A q \in Proc \ {p} : proc'[q] = proc[q]
    <3>1. PICK row : row = [Idle EXCEPT !.at = "listing", !.own = after]
      OBVIOUS
    <3>2. row \in ProcRow /\ row.fd = None /\ row.at = "listing"
      BY <2>2, <3>1, IdleIs DEF ProcRow, Phase
    <3> QED
      BY <2>5, <3>1, <3>2 DEF ListTypeOK
  <2> QED
    <3>1. disk' = disk /\ name' = name /\ digest' = digest
      BY <1>1 DEF Change
    <3>2. \A q \in Proc : proc'[q].fd # None <=> proc'[q].at = "writing"
      BY <2>6 DEF ListTypeOK
    <3> QED
      BY <2>2, <2>4, <2>6, <3>1, <3>2 DEF ListTypeOK
<1>2. ASSUME NEW p \in Proc, ListTasks(p) PROVE ListTypeOK'
  <2>1. proc' = [proc EXCEPT ![p] = [proc[p] EXCEPT !.at = "reading", !.lists = version]]
    BY <1>2 DEF ListTypeOK, ListTasks
  <2>2. [proc[p] EXCEPT !.at = "reading", !.lists = version] \in ProcRow
    BY DEF ListTypeOK, ProcRow, Phase
  <2> QED
    BY <1>2, <2>1, <2>2 DEF ListTypeOK, ListTasks, ProcRow
<1>3. ASSUME NEW p \in Proc, ReadCurrent(p) PROVE ListTypeOK'
  <2>1. File \in Content \cup {None}
    BY DEF ListTypeOK, File, NameRow
  <2>2. CASE File # None /\ digest # None
    BY <1>3, <2>1, <2>2 DEF ListTypeOK, ReadCurrent, ProcRow, Phase
  <2>3. CASE ~(File # None /\ digest # None)
    BY <1>3, <2>3 DEF ListTypeOK, ReadCurrent, Move, ProcRow, Phase
  <2> QED
    BY <2>2, <2>3
<1>4. ASSUME NEW p \in Proc, Compare(p) PROVE ListTypeOK'
  BY <1>4 DEF ListTypeOK, Compare, ProcRow, Idle, Phase
<1>5. ASSUME NEW p \in Proc, OpenTemporary(p) PROVE ListTypeOK'
  <2>1. UNCHANGED <<version, digest, past>>
    BY <1>5 DEF OpenTemporary
  <2>2. PICK i \in Inode : OpensAt(p, i)
    BY <1>5, TemporaryIs
  <2>3. disk' \in [Inode -> Content] /\ name' \in NameRow
    BY <2>2 DEF ListTypeOK, OpensAt, NameRow
  <2>4. proc' = [proc EXCEPT ![p] = [proc[p] EXCEPT !.at = "writing", !.fd = i]]
    BY <2>2 DEF ListTypeOK, OpensAt
  <2>5. [proc[p] EXCEPT !.at = "writing", !.fd = i] \in ProcRow
    BY DEF ListTypeOK, ProcRow, Phase
  <2>6. proc' \in [Proc -> ProcRow] /\ proc'[p].fd # None /\ proc'[p].at = "writing"
        /\ \A q \in Proc \ {p} : proc'[q] = proc[q]
    BY <2>4, <2>5 DEF ListTypeOK, ProcRow
  <2> QED
    BY <2>1, <2>3, <2>6 DEF ListTypeOK
<1>6. ASSUME NEW p \in Proc, WriteTemporary(p) PROVE ListTypeOK'
  <2>1. List(proc[p].lists) \in Content
    BY DEF ListTypeOK, ProcRow
  <2>2. PICK c \in Content : disk' = [disk EXCEPT ![proc[p].fd] = c]
    BY <1>6, <2>1 DEF WriteTemporary
  <2> QED
    BY <1>6, <2>2 DEF ListTypeOK, WriteTemporary, ProcRow, Phase
<1>7. ASSUME NEW p \in Proc, Activate(p) PROVE ListTypeOK'
  BY <1>7 DEF ListTypeOK, Activate, Move, ProcRow, NameRow, Idle, Phase
<1>8. ASSUME NEW p \in Proc, TruncateDigest(p) PROVE ListTypeOK'
  BY <1>8 DEF ListTypeOK, TruncateDigest, Move, ProcRow, Phase
<1>9. ASSUME NEW p \in Proc, WriteDigest(p) PROVE ListTypeOK'
  BY <1>9 DEF ListTypeOK, WriteDigest, ProcRow, Idle, Phase
<1>10. ASSUME NEW p \in Proc, Die(p) PROVE ListTypeOK'
  BY <1>10 DEF ListTypeOK, Die, ProcRow, PastRow, Idle, Phase
<1>11. CASE ChangeUnseen
  BY <1>11 DEF ListTypeOK, ChangeUnseen
<1>12. CASE Edit
  <2>1. PICK stands : stands = (digest # None /\ \A p \in Proc :
                                    proc[p].at \in {"idle", "listing", "reading"})
    OBVIOUS
  <2>2. past' = [past EXCEPT !.touches = past.touches + 1, !.stands = stands]
    BY <1>12, <2>1 DEF Edit
  <2>3. stands \in BOOLEAN
    BY <2>1
  <2> HIDE <2>1
  <2>4. /\ past' = [past EXCEPT !.touches = past'.touches, !.stands = past'.stands]
        /\ past'.touches \in Nat /\ past'.stands \in BOOLEAN
    BY <2>2, <2>3 DEF ListTypeOK, PastRow
  <2>5. past' \in PastRow
    BY <2>4 DEF ListTypeOK, PastRow
  <2>6. /\ version' = version /\ name' = name /\ digest' = digest /\ proc' = proc
        /\ disk' \in [Inode -> Content]
    BY <1>12 DEF ListTypeOK, Edit
  <2> QED
    BY <2>5, <2>6 DEF ListTypeOK
<1>13. CASE Remove
  <2>1. /\ past' = [past EXCEPT !.touches = past'.touches, !.stands = past'.stands]
        /\ past'.touches \in Nat /\ past'.stands \in BOOLEAN
    BY <1>13 DEF ListTypeOK, Remove, PastRow
  <2>2. past' \in PastRow
    BY <2>1 DEF ListTypeOK, PastRow
  <2>3. name' \in NameRow
    BY <1>13 DEF ListTypeOK, Remove, NameRow
  <2> QED
    BY <1>13, <2>3, <2>2 DEF ListTypeOK, Remove
<1>14. CASE UNCHANGED vars
  BY <1>14 DEF ListTypeOK, vars
<1> QED
  BY <1>1, <1>2, <1>3, <1>4, <1>5, <1>6, <1>7, <1>8, <1>9, <1>10, <1>11, <1>12, <1>13, <1>14
  DEF Next, RefreshTasks

LEMMA ListTypesInit == Init => ListTypeOK
  BY BoundAssumption, ContentIs DEF Init, ListTypeOK, Idle, ProcRow, NameRow, PastRow, Phase

\* Every variable keeps its type, whatever refreshes, edits and deaths interleave.
THEOREM ListTypesCorrect == Spec => []ListTypeOK
  BY ListTypesInit, ListTypesKept, PTL DEF Spec

-----------------------------------------------------------------------------
(* An edit that stands. *)

\* A refresh that has yet to look at the list, or that has seen the edit.
Warned(p) ==
    \/ proc[p].at \in {"idle", "listing", "reading"}
    \/ proc[p].at = "comparing" /\ proc[p].saw = Edited

\* The sidecar of an edit that stands is there, and no sidecar is that of an edit.
EditInv ==
    /\ digest # Edited
    /\ past.stands => /\ digest # None
                      /\ File = Edited
                      /\ \A p \in Proc : Warned(p)

LEMMA EditKept ==
    ASSUME ListTypeOK, EditInv, [Next]_vars
    PROVE  EditInv'
<1> USE ContentIs
<1>1. ASSUME NEW p \in Proc, Change(p) PROVE EditInv'
  BY <1>1 DEF ListTypeOK, EditInv, Warned, File, Change, ProcRow, PastRow, Idle
<1>2. ASSUME NEW p \in Proc, ListTasks(p) PROVE EditInv'
  BY <1>2 DEF ListTypeOK, EditInv, Warned, File, ListTasks, ProcRow
<1>3. ASSUME NEW p \in Proc, ReadCurrent(p) PROVE EditInv'
  <2>1. past.stands => File # None /\ digest # None
    BY DEF EditInv
  <2>2. CASE past.stands
    <3>1. proc' = [proc EXCEPT ![p].at = "comparing", ![p].saw = Edited]
      BY <1>3, <2>1, <2>2 DEF ReadCurrent, EditInv
    <3> QED
      BY <1>3, <3>1 DEF ListTypeOK, EditInv, Warned, File, ReadCurrent, ProcRow
  <2>3. CASE ~past.stands
    BY <1>3, <2>3 DEF EditInv, ReadCurrent
  <2> QED
    BY <2>2, <2>3
<1>4. ASSUME NEW p \in Proc, Compare(p) PROVE EditInv'
  <2>1. CASE past.stands
    <3>1. proc' = [proc EXCEPT ![p] = Idle]
      BY <1>4, <2>1 DEF EditInv, Warned, Compare
    <3> QED
      BY <1>4, <3>1 DEF ListTypeOK, EditInv, Warned, File, Compare, Idle
  <2>2. CASE ~past.stands
    BY <1>4, <2>2 DEF EditInv, Compare
  <2> QED
    BY <2>1, <2>2
<1>5. ASSUME NEW p \in Proc, OpenTemporary(p) \/ WriteTemporary(p) \/ Activate(p) PROVE EditInv'
  BY <1>5 DEF EditInv, Warned, OpenTemporary, WriteTemporary, Activate
<1>6. ASSUME NEW p \in Proc, TruncateDigest(p) \/ WriteDigest(p) PROVE EditInv'
  BY <1>6 DEF EditInv, Warned, TruncateDigest, WriteDigest, Empty, Edited, List
<1>7. ASSUME NEW p \in Proc, Die(p) PROVE EditInv'
  BY <1>7 DEF ListTypeOK, EditInv, Warned, File, Die, PastRow, Idle
<1>8. CASE ChangeUnseen
  BY <1>8 DEF EditInv, Warned, File, ChangeUnseen
<1>9. CASE Edit
  BY <1>9 DEF ListTypeOK, EditInv, Warned, File, Edit, NameRow, PastRow
<1>10. CASE Remove
  BY <1>10 DEF ListTypeOK, EditInv, Remove, PastRow
<1>11. CASE UNCHANGED vars
  BY <1>11 DEF EditInv, Warned, File, vars
<1> QED
  BY <1>1, <1>2, <1>3, <1>4, <1>5, <1>6, <1>7, <1>8, <1>9, <1>10, <1>11
  DEF Next, RefreshTasks

LEMMA EditInit == Init => EditInv
  BY ContentIs DEF Init, EditInv

\* An edit that was there before every refresh under way looked, with a sidecar
\* to tell it, is kept until the person changes or removes it.
THEOREM EditsAreKept == Spec => []EditStands
<1>1. EditInv => EditStands
  BY DEF EditInv, EditStands
<1> QED
  BY <1>1, EditInit, EditKept, ListTypesCorrect, PTL DEF Spec

-----------------------------------------------------------------------------
(* A list that is refreshed by one process at a time. *)

Busy(p) == proc[p].at # "idle"
Alone(p) == \A q \in Proc \ {p} : ~Busy(q)

\* The temporary file is whole before it takes the name, and another inode than
\* the list as long as it is not.
SoleInv ==
    /\ \A p \in Proc : Busy(p) => Alone(p)
    /\ name.file # None => name.file # name.tmp
    /\ \A p \in Proc : proc[p].at = "writing" =>
            name.tmp = proc[p].fd /\ disk[name.tmp] = Empty
    /\ \A p \in Proc : proc[p].at = "activating" =>
            name.tmp # None /\ disk[name.tmp] = List(proc[p].lists)
    /\ File # None => File.kind \in {"list", "edit"}

TornInv == ~past.shared => SoleInv

\* Nothing is shared by the step of a process that found nobody else at work.
LEMMA SharedStays == ASSUME [Next]_vars, ListTypeOK, past.shared PROVE past'.shared
<1>1. ASSUME NEW p \in Proc, Change(p) PROVE past'.shared
  BY <1>1 DEF Change, ListTypeOK, PastRow
<1>2. ASSUME NEW p \in Proc, RefreshTasks(p) PROVE past' = past
  BY <1>2 DEF RefreshTasks, ListTasks, ReadCurrent, Compare, OpenTemporary, WriteTemporary,
              Activate, TruncateDigest, WriteDigest
<1>3. ASSUME NEW p \in Proc, Die(p) PROVE past'.shared
  BY <1>3 DEF Die, ListTypeOK, PastRow
<1>4. CASE ChangeUnseen \/ Edit \/ Remove \/ UNCHANGED vars
  BY <1>4 DEF ChangeUnseen, Edit, Remove, vars, ListTypeOK, PastRow
<1> QED
  BY <1>1, <1>2, <1>3, <1>4 DEF Next

LEMMA TornKept ==
    ASSUME ListTypeOK, TornInv, [Next]_vars
    PROVE  TornInv'
<1> SUFFICES ASSUME ~past'.shared PROVE SoleInv'
  BY DEF TornInv
<1> USE ContentIs
<1>1. ~past.shared /\ SoleInv
  BY SharedStays DEF TornInv
<1>2. ASSUME NEW p \in Proc, Change(p) PROVE SoleInv'
  <2>1. \A q \in Proc : ~Busy(q)
    BY <1>2 DEF Change, ListTypeOK, PastRow, Busy
  <2>2. /\ proc'[p].at = "listing" /\ \A q \in Proc \ {p} : proc'[q] = proc[q]
        /\ disk' = disk /\ name' = name
    BY <1>2 DEF Change, ListTypeOK, ProcRow, Idle
  <2> QED
    BY <1>1, <2>1, <2>2 DEF SoleInv, Busy, Alone, File
<1>3. ASSUME NEW p \in Proc, ListTasks(p) \/ ReadCurrent(p) \/ Compare(p) PROVE SoleInv'
  <2>1. /\ proc'[p].at \notin {"writing", "activating"}
        /\ \A q \in Proc \ {p} : proc'[q] = proc[q]
        /\ disk' = disk /\ name' = name /\ Busy(p)
    BY <1>3 DEF ListTasks, ReadCurrent, Compare, Move, ListTypeOK, ProcRow, Idle, Busy
  <2> QED
    BY <1>1, <2>1 DEF SoleInv, Busy, Alone, File
<1>4. ASSUME NEW p \in Proc, OpenTemporary(p) PROVE SoleInv'
  <2>1. PICK i \in Inode : OpensAt(p, i)
    BY <1>4, TemporaryIs
  <2>2. i # name.file
    BY <1>1, <2>1 DEF OpensAt, SoleInv
  <2>3. /\ proc'[p].at = "writing" /\ proc'[p].fd = i
        /\ \A q \in Proc \ {p} : proc'[q] = proc[q]
    BY <2>1 DEF OpensAt, ListTypeOK, ProcRow
  <2>4. /\ disk'[i] = Empty /\ \A k \in Inode \ {i} : disk'[k] = disk[k]
        /\ name'.tmp = i /\ name'.file = name.file
    BY <2>1 DEF OpensAt, ListTypeOK, NameRow
  <2>5. Alone(p)
    BY <1>1, <1>4 DEF SoleInv, Busy, OpenTemporary
  <2>6. File' = File
    BY <2>2, <2>4 DEF File, ListTypeOK, NameRow
  <2> QED
    BY <1>1, <2>2, <2>3, <2>4, <2>5, <2>6 DEF SoleInv, Busy, Alone
<1>5. ASSUME NEW p \in Proc, WriteTemporary(p) PROVE SoleInv'
  <2>1. name.tmp = proc[p].fd /\ disk[name.tmp] = Empty /\ Alone(p)
    BY <1>1, <1>5 DEF SoleInv, Busy, WriteTemporary
  <2>2. disk' = [disk EXCEPT ![name.tmp] = List(proc[p].lists)] /\ name' = name
    BY <1>5, <2>1 DEF WriteTemporary
  <2>3. /\ proc'[p].at = "activating" /\ proc'[p].lists = proc[p].lists
        /\ \A q \in Proc \ {p} : proc'[q] = proc[q]
    BY <1>5 DEF WriteTemporary, ListTypeOK, ProcRow
  <2>4. name.tmp \in Inode
    BY <1>5, <2>1 DEF WriteTemporary, ListTypeOK, ProcRow
  <2>5. File' = File
    BY <1>1, <2>2, <2>4 DEF File, SoleInv, ListTypeOK, NameRow
  <2> QED
    BY <1>1, <2>1, <2>2, <2>3, <2>4, <2>5 DEF SoleInv, Busy, Alone, ListTypeOK
<1>6. ASSUME NEW p \in Proc, Activate(p) PROVE SoleInv'
  <2>1. name.tmp \in Inode /\ disk[name.tmp] = List(proc[p].lists) /\ Alone(p)
    BY <1>1, <1>6 DEF SoleInv, Busy, Activate, ListTypeOK, NameRow
  <2>2. /\ name' = [file |-> name.tmp, tmp |-> None] /\ disk' = disk
        /\ proc'[p].at = "sealing" /\ \A q \in Proc \ {p} : proc'[q] = proc[q]
    BY <1>6, <2>1 DEF Activate, Move, ListTypeOK, ProcRow
  <2>3. File' = List(proc[p].lists)
    BY <2>1, <2>2 DEF File
  <2> QED
    BY <2>1, <2>2, <2>3 DEF SoleInv, Busy, Alone, List
<1>7. ASSUME NEW p \in Proc, TruncateDigest(p) \/ WriteDigest(p) \/ Die(p) PROVE SoleInv'
  <2>1. /\ proc'[p].at \notin {"writing", "activating"}
        /\ \A q \in Proc \ {p} : proc'[q] = proc[q]
        /\ disk' = disk /\ name' = name /\ Busy(p)
    BY <1>7 DEF TruncateDigest, WriteDigest, Die, Move, ListTypeOK, ProcRow, Idle, Busy
  <2> QED
    BY <1>1, <2>1 DEF SoleInv, Busy, Alone, File
<1>8. CASE ChangeUnseen \/ UNCHANGED vars
  BY <1>1, <1>8 DEF SoleInv, Busy, Alone, File, ChangeUnseen, vars
<1>9. CASE Edit
  <2>1. /\ name.file \in Inode /\ disk' = [disk EXCEPT ![name.file] = Edited]
        /\ name' = name /\ proc' = proc
    BY <1>9 DEF Edit, ListTypeOK, NameRow
  <2>2. File' = Edited
    BY <2>1 DEF File, ListTypeOK
  <2>3. \A k \in Inode \ {name.file} : disk'[k] = disk[k]
    BY <2>1 DEF ListTypeOK
  <2>4. \A p \in Proc : proc[p].at = "writing" => name.tmp \in Inode
    BY <1>1 DEF SoleInv, ListTypeOK, ProcRow
  <2>5. \A p \in Proc : proc[p].at = "activating" => name.tmp \in Inode
    BY <1>1 DEF SoleInv, ListTypeOK, NameRow
  <2> QED
    BY <1>1, <2>1, <2>2, <2>3, <2>4, <2>5 DEF SoleInv, Busy, Alone, Edited
<1>10. CASE Remove
  <2>1. /\ name'.file = None /\ name'.tmp = name.tmp
        /\ disk' = disk /\ proc' = proc
    BY <1>10 DEF Remove, ListTypeOK, NameRow
  <2> QED
    BY <1>1, <2>1 DEF SoleInv, Busy, Alone, File
<1> QED
  BY <1>2, <1>3, <1>4, <1>5, <1>6, <1>7, <1>8, <1>9, <1>10 DEF Next, RefreshTasks

LEMMA TornInit == Init => TornInv
  BY DEF Init, TornInv, SoleInv, Busy, Alone, File, Idle

LEMMA TornInvariant == Spec => []TornInv
  BY TornInit, TornKept, ListTypesCorrect, PTL DEF Spec

\* A process that dies between any two calls of write_projection leaves a whole
\* list or none, as long as no two processes were at it.
THEOREM ListsAreWhole == Spec => []NeverTorn
<1>1. TornInv => NeverTorn
  BY DEF TornInv, SoleInv, NeverTorn
<1> QED
  BY <1>1, TornInvariant, PTL

-----------------------------------------------------------------------------
(* A list nobody touches. *)

\* Where a refresh stands: the list and its sidecar agree until the new list,
\* which shows what was promised, takes the name.
OnCourse(p) ==
    CASE proc[p].at = "idle" -> TRUE
      [] proc[p].at = "listing" -> File = digest
      [] proc[p].at = "comparing" ->
            File = digest /\ proc[p].saw = File /\ proc[p].lists >= past.promised
      [] proc[p].at \in {"sealing", "signing"} ->
            File = List(proc[p].lists) /\ proc[p].lists >= past.promised
      [] OTHER -> File = digest /\ proc[p].lists >= past.promised

Shown == \E v \in 0..MaxVersion :
            v >= past.promised /\ File = List(v) /\ digest = List(v)

CourseInv ==
    /\ past.promised <= version
    /\ \A p \in Proc : OnCourse(p)
    /\ Quiet => Shown

FollowInv == Undisturbed => CourseInv

\* A refresh is on course when the four stages it may be in are.
LEMMA CourseOf ==
    ASSUME NEW p \in Proc
    PROVE  /\ proc[p].at = "listing" => (OnCourse(p) <=> File = digest)
           /\ proc[p].at = "comparing" =>
                (OnCourse(p) <=> File = digest /\ proc[p].saw = File
                                    /\ proc[p].lists >= past.promised)
           /\ proc[p].at \in {"sealing", "signing"} =>
                (OnCourse(p) <=> File = List(proc[p].lists)
                                    /\ proc[p].lists >= past.promised)
           /\ proc[p].at \in {"reading", "opening", "writing", "activating"} =>
                (OnCourse(p) <=> File = digest /\ proc[p].lists >= past.promised)
           /\ proc[p].at = "idle" => OnCourse(p)
  BY DEF OnCourse

\* The step of a process at work, when every other one is idle.
LEMMA CourseStep ==
    ASSUME NEW p \in Proc, Alone(p), OnCourse(p)', past'.promised <= version',
           \A q \in Proc \ {p} : proc'[q] = proc[q],
           proc'[p].at # "idle" \/ Shown'
    PROVE  CourseInv'
<1>1. \A q \in Proc : OnCourse(q)'
  BY DEF Alone, Busy, OnCourse
<1> QED
  BY <1>1 DEF CourseInv, Quiet

LEMMA FollowKept ==
    ASSUME ListTypeOK, TornInv, FollowInv, [Next]_vars
    PROVE  FollowInv'
<1> SUFFICES ASSUME Undisturbed' PROVE CourseInv'
  BY DEF FollowInv
<1> USE ContentIs
<1>1. ASSUME NEW p \in Proc, RefreshTasks(p) PROVE past' = past
  BY <1>1 DEF RefreshTasks, ListTasks, ReadCurrent, Compare, OpenTemporary, WriteTemporary,
              Activate, TruncateDigest, WriteDigest
<1>2. ASSUME NEW p \in Proc, Die(p) PROVE FALSE
  BY <1>2 DEF Die, Undisturbed, ListTypeOK, PastRow
<1>3. CASE Edit \/ Remove
  <2>1. past'.touches = past.touches + 1 /\ past.touches \in Nat
    BY <1>3 DEF Edit, Remove, ListTypeOK, PastRow
  <2>2. past'.touches = 0
    BY DEF Undisturbed
  <2> QED
    BY <2>1, <2>2
<1>4. ASSUME ~(Edit \/ Remove), \A p \in Proc : ~Die(p)
      PROVE  past'.touches = past.touches /\ past'.crashes = past.crashes
  <2>1. ASSUME NEW p \in Proc, Change(p)
        PROVE  past'.touches = past.touches /\ past'.crashes = past.crashes
    BY <2>1 DEF Change, ListTypeOK, PastRow
  <2>2. CASE ChangeUnseen \/ UNCHANGED vars
    BY <2>2 DEF ChangeUnseen, vars
  <2> QED
    BY <1>1, <1>4, <2>1, <2>2 DEF Next
<1>5. CASE ~(Edit \/ Remove)
  <2>1. SoleInv /\ CourseInv /\ past.promised \in 0..MaxVersion /\ version \in 0..MaxVersion
    BY <1>2, <1>4, <1>5, SharedStays DEF Undisturbed, TornInv, FollowInv, ListTypeOK, PastRow
  <2>2. ASSUME NEW p \in Proc, Change(p) PROVE CourseInv'
    <3>1. \A q \in Proc : ~Busy(q)
      BY <2>2 DEF Change, ListTypeOK, PastRow, Busy, Undisturbed
    <3>2. File = digest
      BY <2>1, <3>1 DEF CourseInv, Quiet, Shown, Busy
    <3>3. /\ proc'[p].at = "listing" /\ \A q \in Proc \ {p} : proc'[q] = proc[q]
          /\ disk' = disk /\ name' = name /\ digest' = digest
          /\ past'.promised = version' /\ version' \in Nat
      BY <2>2, <2>1 DEF Change, ListTypeOK, ProcRow, PastRow, Idle
    <3>4. OnCourse(p)'
      BY <3>2, <3>3 DEF OnCourse, File
    <3> QED
      BY <3>1, <3>3, <3>4, CourseStep DEF Alone
  <2>3. ASSUME NEW p \in Proc, RefreshTasks(p) PROVE CourseInv'
    <3>1. Alone(p) /\ OnCourse(p) /\ past' = past
      BY <1>1, <2>1, <2>3
      DEF SoleInv, Busy, CourseInv, RefreshTasks, ListTasks, ReadCurrent, Compare,
          OpenTemporary, WriteTemporary, Activate, TruncateDigest, WriteDigest
    <3>2. version' = version
      BY <2>3 DEF RefreshTasks, ListTasks, ReadCurrent, Compare,
          OpenTemporary, WriteTemporary, Activate, TruncateDigest, WriteDigest
    <3>3. past'.promised <= version'
      BY <2>1, <3>1, <3>2 DEF CourseInv
    <3>4. ASSUME proc' = [proc EXCEPT ![p] = proc'[p]],
                 OnCourse(p)', proc'[p].at # "idle" \/ Shown'
          PROVE  CourseInv'
      <4>1. \A q \in Proc \ {p} : proc'[q] = proc[q]
        BY <3>4 DEF ListTypeOK
      <4> QED
        BY <3>1, <3>3, <3>4, <4>1, CourseStep
    <3>5. CASE ListTasks(p)
      <4>1. /\ proc' = [proc EXCEPT ![p] = proc'[p]]
            /\ proc'[p].at = "reading" /\ proc'[p].lists = version
            /\ disk' = disk /\ name' = name /\ digest' = digest
        BY <3>5 DEF ListTasks, ListTypeOK, ProcRow
      <4>2. File' = digest'
        BY <3>1, <3>5, <4>1, CourseOf DEF ListTasks, File
      <4> QED
        BY <2>1, <3>1, <3>4, <4>1, <4>2 DEF OnCourse, CourseInv
    <3>6. CASE ReadCurrent(p)
      <4>1. /\ proc' = [proc EXCEPT ![p] = proc'[p]] /\ proc'[p].lists = proc[p].lists
            /\ \/ proc'[p].at = "comparing" /\ proc'[p].saw = File
               \/ proc'[p].at = "opening"
            /\ disk' = disk /\ name' = name /\ digest' = digest
        BY <3>6 DEF ReadCurrent, Move, ListTypeOK, ProcRow
      <4>2. File' = File /\ File = digest /\ proc[p].lists >= past.promised
        BY <3>1, <3>6, <4>1, CourseOf DEF ReadCurrent, File
      <4> QED
        BY <3>1, <3>4, <4>1, <4>2 DEF OnCourse
    <3>7. CASE Compare(p)
      <4>1. File = digest /\ proc[p].saw = File /\ proc[p].lists >= past.promised
        BY <3>1, <3>7, CourseOf DEF Compare
      <4>2. /\ proc' = [proc EXCEPT ![p] = proc'[p]] /\ proc'[p].lists = proc[p].lists
            /\ proc'[p].at = "opening"
            /\ disk' = disk /\ name' = name /\ digest' = digest
        BY <3>7, <4>1 DEF Compare, ListTypeOK, ProcRow
      <4>3. File' = File
        BY <4>2 DEF File
      <4> QED
        BY <3>1, <3>4, <4>1, <4>2, <4>3 DEF OnCourse
    <3>8. CASE OpenTemporary(p)
      <4>1. PICK i \in Inode : OpensAt(p, i)
        BY <3>8, TemporaryIs
      <4>2. i # name.file
        BY <2>1, <4>1 DEF OpensAt, SoleInv
      <4>3. /\ proc' = [proc EXCEPT ![p] = proc'[p]] /\ proc'[p].lists = proc[p].lists
            /\ proc'[p].at = "writing"
        BY <4>1 DEF OpensAt, ListTypeOK, ProcRow
      <4>4. File' = File /\ digest' = digest
        BY <3>8, <4>1, <4>2 DEF OpensAt, OpenTemporary, File, ListTypeOK, NameRow
      <4>5. File = digest /\ proc[p].lists >= past.promised
        BY <3>1, <3>8, CourseOf DEF OpenTemporary
      <4> QED
        BY <3>1, <3>4, <4>3, <4>4, <4>5 DEF OnCourse
    <3>9. CASE WriteTemporary(p)
      <4>1. proc[p].fd = name.tmp /\ proc[p].fd \in Inode
        BY <2>1, <3>9 DEF SoleInv, WriteTemporary, ListTypeOK, ProcRow
      <4>2. /\ proc' = [proc EXCEPT ![p] = proc'[p]] /\ proc'[p].lists = proc[p].lists
            /\ proc'[p].at = "activating" /\ name' = name /\ digest' = digest
            /\ \A k \in Inode \ {name.tmp} : disk'[k] = disk[k]
        BY <3>9, <4>1 DEF WriteTemporary, ListTypeOK, ProcRow
      <4>3. File' = File
        BY <2>1, <4>1, <4>2 DEF SoleInv, File, ListTypeOK, NameRow
      <4>4. File = digest /\ proc[p].lists >= past.promised
        BY <3>1, <3>9, CourseOf DEF WriteTemporary
      <4> QED
        BY <3>1, <3>4, <4>2, <4>3, <4>4 DEF OnCourse
    <3>10. CASE Activate(p)
      <4>1. name.tmp # None /\ disk[name.tmp] = List(proc[p].lists)
        BY <2>1, <3>10 DEF SoleInv, Activate
      <4>2. /\ proc' = [proc EXCEPT ![p] = proc'[p]] /\ proc'[p].lists = proc[p].lists
            /\ proc'[p].at = "sealing" /\ disk' = disk
            /\ name' = [file |-> name.tmp, tmp |-> None]
        BY <3>10, <4>1 DEF Activate, Move, ListTypeOK, ProcRow
      <4>3. File' = List(proc[p].lists)
        BY <4>1, <4>2 DEF File
      <4>4. proc[p].lists >= past.promised
        BY <3>1, <3>10, CourseOf DEF Activate
      <4> QED
        BY <3>1, <3>4, <4>2, <4>3, <4>4 DEF OnCourse
    <3>11. CASE TruncateDigest(p)
      <4>1. /\ proc' = [proc EXCEPT ![p] = proc'[p]] /\ proc'[p].lists = proc[p].lists
            /\ proc'[p].at = "signing" /\ disk' = disk /\ name' = name
        BY <3>11 DEF TruncateDigest, Move, ListTypeOK, ProcRow
      <4>2. File = List(proc[p].lists) /\ proc[p].lists >= past.promised
        BY <3>1, <3>11, CourseOf DEF TruncateDigest
      <4>3. File' = File
        BY <4>1 DEF File
      <4> QED
        BY <3>1, <3>4, <4>1, <4>2, <4>3 DEF OnCourse
    <3>12. CASE WriteDigest(p)
      <4>1. File = List(proc[p].lists) /\ proc[p].lists >= past.promised
        BY <3>1, <3>12, CourseOf DEF WriteDigest
      <4>2. /\ proc' = [proc EXCEPT ![p] = proc'[p]] /\ proc'[p].at = "idle"
            /\ disk' = disk /\ name' = name /\ digest' = List(proc[p].lists)
        BY <3>12 DEF WriteDigest, Idle, ListTypeOK
      <4>3. File' = File /\ proc[p].lists \in 0..MaxVersion
        BY <4>2 DEF File, ListTypeOK, ProcRow
      <4>4. Shown'
        BY <3>1, <4>1, <4>2, <4>3 DEF Shown
      <4> QED
        BY <3>4, <4>2, <4>4 DEF OnCourse
    <3> QED
      BY <2>3, <3>5, <3>6, <3>7, <3>8, <3>9, <3>10, <3>11, <3>12 DEF RefreshTasks
  <2>4. CASE ChangeUnseen
    BY <2>1, <2>4 DEF ChangeUnseen, CourseInv, OnCourse, Quiet, Shown, File
  <2>5. CASE UNCHANGED vars
    BY <2>1, <2>5 DEF vars, CourseInv, OnCourse, Quiet, Shown, File
  <2> QED
    BY <1>2, <1>5, <2>2, <2>3, <2>4, <2>5 DEF Next
<1> QED
  BY <1>3, <1>5

LEMMA FollowInit == Init => FollowInv
<1> SUFFICES ASSUME Init PROVE CourseInv
  BY DEF FollowInv
<1>1. PICK first \in Proc :
        proc = [p \in Proc |-> IF p = first THEN [Idle EXCEPT !.at = "reading"] ELSE Idle]
  BY DEF Init
<1>2. File = None /\ digest = None /\ past.promised = 0 /\ version = 0
  BY DEF Init, File
<1>3. /\ proc[first].at = "reading" /\ proc[first].lists = 0
      /\ \A p \in Proc \ {first} : proc[p].at = "idle"
  BY <1>1 DEF Idle
<1>4. \A p \in Proc : OnCourse(p)
  BY <1>2, <1>3 DEF OnCourse
<1> QED
  BY <1>2, <1>3, <1>4 DEF CourseInv, Quiet

\* When nobody touches the list, dies or runs beside another, it shows every
\* change a command made and agrees with its sidecar: every conflict told is an
\* edit.
THEOREM ListsFollow == Spec => []ListFollows
<1>1. FollowInv => ListFollows
  BY DEF FollowInv, CourseInv, Shown, ListFollows, List
<1> QED
  BY <1>1, FollowInit, FollowKept, ListTypesCorrect, TornInvariant, PTL DEF Spec

=============================================================================

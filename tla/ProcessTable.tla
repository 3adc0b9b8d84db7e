----------------------------- MODULE ProcessTable -----------------------------
(***************************************************************************)
(* The operating system's side of a run, as a value: the child a Process   *)
(* starts (the leader of a process group of its own), its descendants, and *)
(* what kill(2) does to them.  Nothing here is code of this library: it is *)
(* what process.go and LocalCancellor rely on.                             *)
(*                                                                         *)
(* The leader stays in its group and is a zombie between its exit and its  *)
(* wait; descendants are reaped by init.  Once the leader is reaped and    *)
(* its group is empty the system may give its pid to a stranger, which may *)
(* go on to lead a group of that number.                                   *)
(***************************************************************************)
EXTENDS Integers

CONSTANTS
  Leader,   \* the child
  Kin       \* its descendants

ASSUME KinAssumption == Leader \notin Kin

Procs == {Leader} \union Kin

NoProcesses ==
  [alive |-> {}, born |-> {}, group |-> {}, holders |-> {}, doomed |-> {},
   zombie |-> FALSE, stranger |-> "none"]

TableType ==
  [alive : SUBSET Procs, born : SUBSET Procs, group : SUBSET Procs,
   holders : SUBSET Procs,          \* have the write end of the output open
   doomed : SUBSET Procs,           \* have a SIGKILL pending
   zombie : BOOLEAN,                \* the leader exited and was not waited for
   stranger : {"none", "member", "leader"}]   \* who got the leader's pid

\* Setpgid or Setsid: the child leads a new group and holds the output.
Started ==
  [NoProcesses EXCEPT !.alive = {Leader}, !.born = {Leader},
                      !.group = {Leader}, !.holders = {Leader}]

GroupAlive(os) == os.alive \cap os.group

Reaped(os) == Leader \in os.born /\ Leader \notin os.alive /\ ~os.zombie

\* A child inherits the group and the open files of its parent.
Fork(os, parent, p) ==
  [os EXCEPT !.alive = @ \union {p}, !.born = @ \union {p},
             !.group = IF parent \in @ THEN @ \union {p} ELSE @,
             !.holders = IF parent \in @ THEN @ \union {p} ELSE @]

Leave(os, p) == [os EXCEPT !.group = @ \ {p}]

CloseOutput(os, p) == [os EXCEPT !.holders = @ \ {p}]

Die(os, dead) ==
  [os EXCEPT !.alive = @ \ dead, !.holders = @ \ dead, !.doomed = @ \ dead,
             !.zombie = @ \/ Leader \in dead]

Wait(os) == [os EXCEPT !.zombie = FALSE]

CanRecycle(os) ==
  Reaped(os) /\ GroupAlive(os) = {} /\ os.stranger = "none"

-----------------------------------------------------------------------------
(* kill(2) on -pid ("group") or on pid ("pid").                            *)

Victims(os, target) ==
  IF target = "group" THEN GroupAlive(os) ELSE os.alive \cap {Leader}

HitsStranger(os, target) ==
  IF target = "group" THEN os.stranger = "leader" ELSE os.stranger # "none"

\* ESRCH is the negation of this.
Exists(os, target) ==
  Victims(os, target) # {} \/ os.zombie \/ HitsStranger(os, target)

\* A group of zombies alone: some systems answer EPERM instead of success.
MayDeny(os, target) == Victims(os, target) = {} /\ os.zombie

\* SIGTERM ends the victims that do not catch it.
Terminated(os, target) ==
  {Die(os, dead) : dead \in SUBSET Victims(os, target)}

Killed(os, target) == [os EXCEPT !.doomed = @ \union Victims(os, target)]

=============================================================================

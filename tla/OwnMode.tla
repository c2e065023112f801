------------------------------- MODULE OwnMode -------------------------------
(***************************************************************************)
(* Own mode (owncontrol.cpp): one process plans and drives.  The threads   *)
(* are the drive thread of module Agent, the planner, the display and the  *)
(* main thread, which reads the user's commands.                           *)
(*                                                                         *)
(* Planner and display share owncontrol.cpp's mutex_agent (ownLock);       *)
(* planner and drive thread share robot_driver_agent.cpp's (agentLock),    *)
(* which the planner takes inside setPath while it holds ownLock.          *)
(***************************************************************************)
EXTENDS Agent

CONSTANTS Planner, Display, Main,   \* the other threads
          Goals                     \* the goals a user may name, on the floor or off it

ASSUME OwnAssumption ==
  /\ {Planner, Display, Main} \subseteq Threads
  /\ Planner # Display /\ Main # Planner /\ Main # Display
  /\ Drive \notin {Planner, Display, Main}
  /\ Goals \subseteq Int \X Int
  /\ \A from \in Cells : \E p \in Plans : p # << >> /\ p[1] = from

VARIABLES
  goal,     \* Agent::goal
  ownLock,  \* the owner of owncontrol.cpp's mutex_agent
  pl,       \* the planner: where it is, and newPath
  disp,     \* where the display thread is
  main      \* where the main thread is

ownVars == <<goal, ownLock, pl, disp, main>>
vars == <<agentVars, ownVars>>

OwnTypeOK ==
  /\ AgentTypeOK
  /\ goal \in Cells \cup Goals
  /\ ownLock \in {Nobody, Planner, Display}
  /\ pl \in [pc : {"sleep", "plan", "setpath", "assign", "resize", "unlock", "exited"},
             newPath : Plans \cup {<< >>}]
  /\ disp \in {"sleep", "mark", "print", "exited", "threw"}
  /\ main \in {"input", "wait", "spin", "turn", "spinning", "teardown", "exited"}

OwnInit ==
  /\ AgentInit
  /\ goal = StartCell
  /\ ownLock = Nobody
  /\ pl = [pc |-> "sleep", newPath |-> << >>]
  /\ disp = "sleep"
  /\ main = "input"

-----------------------------------------------------------------------------
(* update_path_thread_i                                                     *)

LockToPlan ==
  /\ pl.pc = "sleep" /\ ownLock = Nobody
  /\ ownLock' = Planner
  /\ pl' = [pl EXCEPT !.pc = "plan"]
  /\ UNCHANGED <<agentVars, goal, disp, main>>

(* The planner reads the agent's position once, when it starts, and its goal *)
(* by reference: when no path reaches the goal it overwrites the agent's     *)
(* goal with the cell the path does reach.                                   *)
LastCell(p) == p[Len(p)]
PlansFrom(from) == {p \in Plans : p # << >> /\ p[1] = from}
PlansTo(from, to) ==
  LET reaching == {p \in PlansFrom(from) : LastCell(p) = to}
  IN  IF reaching # {} THEN reaching ELSE PlansFrom(from)

\* Variant with a bug: a planner that may come back with an empty path.
PlanPath_MayFail ==
  /\ pl.pc = "plan"
  /\ \E p \in PlansTo(pos, goal) \cup {<< >>} : pl' = [pc |-> "setpath", newPath |-> p]
  /\ UNCHANGED <<agentVars, goal, ownLock, disp, main>>

PlanPath ==
  /\ pl.pc = "plan"
  /\ \E p \in PlansTo(pos, goal) :
       /\ pl' = [pc |-> "setpath", newPath |-> p]
       /\ goal' = LastCell(p)
  /\ UNCHANGED <<agentVars, ownLock, disp, main>>

\* setPath: lock agent.cpp's mutex, assign, unlock.
LockToSetPath ==
  /\ pl.pc = "setpath" /\ agentLock = Nobody
  /\ agentLock' = Planner
  /\ pl' = [pl EXCEPT !.pc = "assign"]
  /\ UNCHANGED <<route, pos, direction, spinning, driving, velocity, done,
                 drv, body, goal, ownLock, disp, main>>

\* path = p copies the vector, then the size counted beside it.
SetPath ==
  /\ pl.pc = "assign"
  /\ path' = pl.newPath /\ deficit' = 0
  /\ pl' = [pl EXCEPT !.pc = "resize"]
  /\ UNCHANGED <<size, pos, direction, spinning, driving, velocity, done,
                 agentLock, drv, body, goal, ownLock, disp, main>>

SetSize ==
  /\ pl.pc = "resize"
  /\ size' = Len(pl.newPath)
  /\ agentLock' = Nobody
  /\ pl' = [pl EXCEPT !.pc = "unlock"]
  /\ UNCHANGED <<path, deficit, pos, direction, spinning, driving, velocity, done,
                 drv, body, goal, ownLock, disp, main>>

UnlockPlan ==
  /\ pl.pc = "unlock"
  /\ ownLock' = Nobody
  /\ pl' = [pc |-> IF done THEN "exited" ELSE "sleep", newPath |-> << >>]
  /\ UNCHANGED <<agentVars, goal, disp, main>>

PlannerThread ==
  LockToPlan \/ PlanPath \/ LockToSetPath \/ SetPath \/ SetSize \/ UnlockPlan

-----------------------------------------------------------------------------
(* display_menu_thread_i                                                    *)

\* Variant with a bug: the display does not take the mutex.
LockToDisplay_Unlocked ==
  /\ disp = "sleep"
  /\ disp' = "mark"
  /\ UNCHANGED <<agentVars, goal, ownLock, pl, main>>

LockToDisplay ==
  /\ disp = "sleep" /\ ownLock = Nobody
  /\ ownLock' = Display
  /\ disp' = "mark"
  /\ UNCHANGED <<agentVars, goal, pl, main>>

\* markPath: path.at(0), then path.at(i) for each i below size, outside any handler.
MarkPath ==
  /\ disp = "mark"
  /\ disp' = IF path = << >> \/ size > Len(path) THEN "threw" ELSE "print"
  /\ UNCHANGED <<agentVars, goal, ownLock, pl, main>>

UnlockDisplay ==
  /\ disp = "print"
  /\ ownLock' = Nobody
  /\ disp' = IF done THEN "exited" ELSE "sleep"
  /\ UNCHANGED <<agentVars, goal, pl, main>>

DisplayThread == LockToDisplay \/ MarkPath \/ UnlockDisplay

-----------------------------------------------------------------------------
(* get_input: none of the user's commands takes a mutex.                    *)

InputGoal ==
  /\ main = "input"
  /\ goal' \in Goals
  /\ UNCHANGED <<agentVars, ownLock, pl, disp, main>>

InputSpin ==
  /\ main = "input"
  /\ main' = "wait"
  /\ UNCHANGED <<agentVars, goal, ownLock, pl, disp>>

WaitToFinishDriving ==
  /\ main = "wait" /\ ~driving
  /\ main' = "spin"
  /\ UNCHANGED <<agentVars, goal, ownLock, pl, disp>>

SetSpinning ==
  /\ main = "spin"
  /\ spinning' = TRUE
  /\ main' = "turn"
  /\ UNCHANGED <<route, pos, direction, driving, velocity, done,
                 agentLock, drv, body, goal, ownLock, pl, disp>>

StartSpin ==
  /\ main = "turn"
  /\ StartTurn(Main, 360)
  /\ main' = "spinning"
  /\ UNCHANGED <<route, pos, direction, spinning, driving, velocity, done,
                 agentLock, drv, goal, ownLock, pl, disp>>

EndSpin ==
  /\ main = "spinning"
  /\ StopWheels(Main)
  /\ spinning' = FALSE
  /\ main' = "input"
  /\ UNCHANGED <<route, pos, direction, driving, velocity, done,
                 agentLock, drv, cell, heading, faults, goal, ownLock, pl, disp>>

Quit ==
  /\ main = "input"
  /\ done' = TRUE
  /\ main' = "teardown"
  /\ UNCHANGED <<route, pos, direction, spinning, driving, velocity,
                 agentLock, drv, body, goal, ownLock, pl, disp>>

\* The agent and the grid are deleted and the process exits; the threads were
\* detached, so nobody waits for them.
Exit ==
  /\ main = "teardown"
  /\ main' = "exited"
  /\ UNCHANGED <<agentVars, goal, ownLock, pl, disp>>

MainThread ==
  \/ InputGoal \/ InputSpin \/ WaitToFinishDriving \/ SetSpinning
  \/ StartSpin \/ EndSpin \/ Quit \/ Exit

-----------------------------------------------------------------------------
\* An exception that leaves a thread, and the end of main, stop the process.
Alive == main # "exited" /\ disp # "threw"

Next ==
  /\ Alive
  /\ \/ DriveThread /\ UNCHANGED ownVars
     \/ PlannerThread \/ DisplayThread \/ MainThread

Init == OwnInit
Spec == Init /\ [][Next]_vars

(* Every thread that can run keeps running, and nobody waits for ever for a  *)
(* mutex that others release again and again; the user types nothing.       *)
FairSpec ==
  /\ Spec
  /\ WF_vars(Alive /\ DriveThread /\ UNCHANGED ownVars)
  /\ SF_vars(Alive /\ LockToPlan) /\ SF_vars(Alive /\ LockToSetPath)
  /\ WF_vars(Alive /\ (PlanPath \/ SetPath \/ SetSize \/ UnlockPlan))
  /\ SF_vars(Alive /\ LockToDisplay)
  /\ WF_vars(Alive /\ (MarkPath \/ UnlockDisplay))
  /\ WF_vars(Alive /\ (WaitToFinishDriving \/ SetSpinning \/ StartSpin \/ EndSpin))

-----------------------------------------------------------------------------
(* Properties.                                                              *)

\* Every variable stays in its range.
TypeOK == OwnTypeOK

(* Planner and display never both work on the grid and the path: each does   *)
(* so only between taking and releasing owncontrol.cpp's mutex, which they   *)
(* take and release correctly.                                              *)
GridExclusion ==
  ~(pl.pc \in {"plan", "setpath", "assign", "resize", "unlock"} /\ disp \in {"mark", "print", "threw"})

(* stepPath returns to its caller without unlocking when it finds nothing to *)
(* drive.  Unless the planner is at that moment inside setPath, the path     *)
(* never changes again, for the drive thread is the only one that could      *)
(* release the mutex setPath needs.                                         *)
Frozen ==
  /\ agentLock = Drive /\ pl.pc \notin {"assign", "resize"}
  /\ drv.pc \in {"enter", "check", "exited"} /\ size <= 1
FrozenForEver == [][Frozen => Frozen' /\ UNCHANGED path]_vars

(* A planner that reaches setPath while the drive thread idles on the mutex  *)
(* keeps the display out as well: nobody ever marks the grid again.          *)
DisplayLockedOut ==
  [][Frozen /\ pl.pc = "setpath" => disp' = disp /\ pl' = pl]_vars

(* In own mode a step never pops an empty path: the path is only ever        *)
(* replaced whole, and no plan is empty.                                     *)
PopHasAPosition == deficit = 0 /\ (drv.pc = "pop" => path # << >>)

(* The next says what a comment of the code promises and the code does not   *)
(* keep.                                                                    *)

(* owncontrol.cpp says the path is updated for as long as the program runs.  *)
PlannerKeepsPlanning == []<>(pl.pc = "plan" \/ ~Alive \/ done)
=============================================================================

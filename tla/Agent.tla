-------------------------------- MODULE Agent --------------------------------
(***************************************************************************)
(* The Agent object of the program that runs beside a robot (client or own *)
(* mode), the Robot it drives, and the drive thread that calls             *)
(* Agent::stepPath in a loop.  The modules that extend this one add the    *)
(* other threads that share the object.                                    *)
(*                                                                         *)
(* "mutex_agent" is a static variable of a header, so every source file    *)
(* that includes it has a mutex of its own.  agentLock is the one of       *)
(* robot_driver_agent.cpp, which only stepPath, setPath, setPosition and   *)
(* setDirection lock.  It is a normal mutex: a thread that unlocks a mutex *)
(* it does not own frees it all the same, and trylock fails on a mutex the *)
(* caller already owns.                                                    *)
(***************************************************************************)
EXTENDS Motion

CONSTANTS Threads,      \* the threads of the program
          Drive,        \* the drive thread, a member of Threads
          Nobody,       \* the owner of a free mutex
          Cells,        \* the cells of the floor the model keeps track of
          Plans,        \* the paths a planner may produce
          Velocities,   \* the default velocities in use
          StartCell, StartDirection, StartVelocity

ASSUME AgentAssumption ==
  /\ Drive \in Threads /\ Nobody \notin Threads
  /\ Cells \subseteq Int \X Int
  /\ Plans \subseteq Seq(Cells)
  /\ Velocities \subseteq Int
  /\ StartCell \in Cells /\ StartDirection \in Directions
  /\ StartVelocity \in Velocities

VARIABLES
  path,       \* the vector of Agent::path, the positions still to be driven
  deficit,    \* elements popped off an empty vector (its size is -deficit)
  size,       \* Path::size, counted beside the vector
  pos,        \* Agent::pos
  direction,  \* Agent::direction
  spinning,   \* Agent::spinning
  driving,    \* Agent::driving
  velocity,   \* Robot::defaultVelocity
  done,       \* the flag that ends the program's loops
  agentLock,  \* the owner of agent.cpp's mutex_agent
  drv,        \* the drive thread: where it is in stepPath, and its locals
  cell,       \* the cell the robot stands on
  heading,    \* where the robot faces
  moving,     \* the threads inside a call that turns or drives the robot
  faults      \* history: what first parted the tracked pose from the robot

agentVars == <<path, deficit, size, pos, direction, spinning, driving, velocity,
               done, agentLock, drv, cell, heading, moving, faults>>

route == <<path, deficit, size>>
body  == <<cell, heading, moving, faults>>

DriveLabels == {"enter", "check", "relock", "guard", "commit", "fetch0", "fetch1",
                "aim", "turn", "turning", "advance", "moving", "arrive", "pop",
                "shrink", "pause", "release", "unlock", "exited"}

NoCell == << >>

(***************************************************************************)
(* What can part the pose the program tracks (pos, direction) from the     *)
(* robot's (cell, heading):                                                *)
(*   overlap     two threads are inside such calls at once, even if one of *)
(*               them asks for a turn by zero and sends the wheels nothing   *)
(*   stale       a step starts from a path that does not start at pos      *)
(*   velocity    the default velocity changed between the reads of a step, *)
(*               or is zero when a turn is recorded                        *)
(*   redirected  another thread changed the direction inside a step        *)
(*   ghost       a step is read from a vector whose size is negative: at()   *)
(*               takes that for a large size and returns what is in memory   *)
(* faults is a history variable, no part of the program: it keeps the first*)
(* causes met, and ghost whenever it is met.                               *)
(***************************************************************************)
Causes == {"overlap", "stale", "velocity", "redirected", "ghost"}

Blame(causes) == faults' = IF faults = {} THEN causes ELSE faults
Cause(condition, name) == IF condition THEN {name} ELSE {}

AgentTypeOK ==
  /\ path \in Seq(Cells) /\ deficit \in Nat /\ size \in Int
  /\ pos \in Cells /\ direction \in Directions
  /\ spinning \in BOOLEAN /\ driving \in BOOLEAN
  /\ velocity \in Velocities /\ done \in BOOLEAN
  /\ agentLock \in Threads \cup {Nobody}
  /\ drv \in [pc : DriveLabels, init : Cells \cup {NoCell},
              next : Cells \cup {NoCell}, after : Directions]
  /\ cell \in Cells \cup {Lost} /\ heading \in Directions
  /\ moving \subseteq Threads
  /\ faults \subseteq Causes

AgentInit ==
  /\ path = << >> /\ deficit = 0 /\ size = 0
  /\ pos = StartCell /\ direction = StartDirection
  /\ spinning = FALSE /\ driving = FALSE
  /\ velocity = StartVelocity /\ done = FALSE
  /\ agentLock = Nobody
  /\ drv = [pc |-> "enter", init |-> NoCell, next |-> NoCell, after |-> EAST]
  /\ cell = StartCell /\ heading = StartDirection
  /\ moving = {} /\ faults = {}

-----------------------------------------------------------------------------
(* Commands to the wheels.                                                  *)

\* A robot that leaves the cells of the model, or that two threads command
\* at once, is lost.
Settle(p) == IF p \in Cells THEN p ELSE Lost

\* t enters a call that rotates the robot by degree at the default velocity.
StartTurn(t, degree) ==
  /\ moving' = moving \cup {t}
  /\ heading' = TurnXDegrees(heading, degree, velocity)
  /\ cell' = IF moving = {} THEN cell ELSE Lost
  /\ Blame(Cause(moving # {}, "overlap") \cup
           Cause(velocity = 0 /\ degree \notin {0, 360}, "velocity"))

\* t's call ends with Robot::stop.
StopWheels(t) == moving' = moving \ {t}

-----------------------------------------------------------------------------
(* Agent::stepPath, one action per access to shared state.                  *)

At(l) == drv.pc = l
Goto(l) == drv' = [drv EXCEPT !.pc = l]

\* while(!done) stepPath(): a trylock whose result is not looked at.
EnterStepPath ==
  /\ At("enter")
  /\ IF done
     THEN Goto("exited") /\ UNCHANGED agentLock
     ELSE /\ agentLock' = IF agentLock = Nobody THEN Drive ELSE agentLock
          /\ Goto("check")
  /\ UNCHANGED <<route, pos, direction, spinning, driving, velocity,
                 done, body>>

\* Variant with a bug fixed: the mutex is released when the loop is left.
CheckPath_Unlocks ==
  /\ At("check")
  /\ agentLock' = Nobody
  /\ Goto(IF size > 1 THEN "relock" ELSE "enter")
  /\ UNCHANGED <<route, pos, direction, spinning, driving, velocity,
                 done, body>>

\* while(path.getSize() > 1) { unlock ...: the loop is left without unlocking.
CheckPath ==
  /\ At("check")
  /\ IF size > 1
     THEN agentLock' = Nobody /\ Goto("relock")
     ELSE UNCHANGED agentLock /\ Goto("enter")
  /\ UNCHANGED <<route, pos, direction, spinning, driving, velocity,
                 done, body>>

Relock ==
  /\ At("relock")
  /\ agentLock' = IF agentLock = Nobody THEN Drive ELSE agentLock
  /\ Goto("guard")
  /\ UNCHANGED <<route, pos, direction, spinning, driving, velocity,
                 done, body>>

\* !spinning && !driving && getDefaultVelocity() != 0
MayDrive == ~spinning /\ ~driving /\ velocity # 0

\* Variant with a bug: the driving flag is not tested.
Guard_IgnoresDriving ==
  /\ At("guard")
  /\ Goto(IF ~spinning /\ velocity # 0 THEN "commit" ELSE "unlock")
  /\ UNCHANGED <<route, pos, direction, spinning, driving, velocity, done,
                 agentLock, body>>

Guard ==
  /\ At("guard")
  /\ Goto(IF MayDrive THEN "commit" ELSE "unlock")
  /\ UNCHANGED <<route, pos, direction, spinning, driving, velocity, done,
                 agentLock, body>>

Commit ==
  /\ At("commit")
  /\ driving' = TRUE
  /\ Goto("fetch0")
  /\ UNCHANGED <<route, pos, direction, spinning, velocity,
                 done, agentLock, body>>

(* path.at(0), then path.at(1).  at() throws when the vector has become too *)
(* short; the handler outside the loop is empty, so stepPath returns with   *)
(* driving set and the mutex not released.  A negative size counts as a     *)
(* large one: at() then returns whatever cell the memory holds.             *)
Found(i) ==
  IF i <= Len(path) THEN {path[i]} ELSE IF deficit > 0 THEN Cells ELSE {}

FetchInit ==
  /\ At("fetch0")
  /\ \/ \E c \in Found(1) : drv' = [drv EXCEPT !.pc = "fetch1", !.init = c]
     \/ Found(1) = {} /\ Goto("enter")
  /\ faults' = faults \cup Cause(deficit > 0, "ghost")
  /\ UNCHANGED <<route, pos, direction, spinning, driving, velocity, done,
                 agentLock, cell, heading, moving>>

FetchNext ==
  /\ At("fetch1")
  /\ \/ \E c \in Found(2) : drv' = [drv EXCEPT !.pc = "aim", !.next = c]
     \/ Found(2) = {} /\ drv' = [drv EXCEPT !.pc = "enter", !.init = NoCell]
  /\ faults' = faults \cup Cause(deficit > 0, "ghost")
  /\ UNCHANGED <<route, pos, direction, spinning, driving, velocity, done,
                 agentLock, cell, heading, moving>>

\* step(init, next): refuse unconnected cells, else choose a direction.  Two
\* equal cells count as a step that needs no motion.
Aim ==
  /\ At("aim")
  /\ drv' = IF ~Connected(drv.init, drv.next)
            THEN [drv EXCEPT !.pc = "release"]
            ELSE IF drv.init = drv.next
            THEN [drv EXCEPT !.pc = "arrive"]
            ELSE [drv EXCEPT !.pc = "turn",
                             !.after = Facing(drv.init, drv.next, velocity)]
  /\ Blame(Cause(Connected(drv.init, drv.next) /\ drv.init # pos, "stale"))
  /\ UNCHANGED <<route, pos, direction, spinning, driving, velocity,
                 done, agentLock, cell, heading, moving>>

\* change_direction(after): turn, and when the turn is over record it.
StartChangeDirection ==
  /\ At("turn")
  /\ StartTurn(Drive, TurnDegrees(direction, drv.after))
  /\ Goto("turning")
  /\ UNCHANGED <<route, pos, direction, spinning, driving, velocity,
                 done, agentLock>>

\* Variant with a bug: the new direction is not recorded.
EndChangeDirection_Unrecorded ==
  /\ At("turning")
  /\ StopWheels(Drive)
  /\ Goto("advance")
  /\ UNCHANGED <<route, pos, direction, spinning, driving, velocity,
                 done, agentLock, cell, heading, faults>>

EndChangeDirection ==
  /\ At("turning")
  /\ direction' = drv.after
  /\ StopWheels(Drive)
  /\ Goto("advance")
  /\ UNCHANGED <<route, pos, spinning, driving, velocity,
                 done, agentLock, cell, heading, faults>>

\* robot->driveXDistance(unit), which reads the default velocity again.
StartDrive ==
  /\ At("advance")
  /\ moving' = moving \cup {Drive}
  /\ cell' = IF moving # {} THEN Lost
             ELSE Settle(DriveXDistance(cell, heading,
                           IsDiagonal(Bearing(drv.init, drv.next)), velocity))
  /\ Blame(Cause(moving # {}, "overlap") \cup
           Cause(direction # drv.after, "redirected") \cup
           Cause(velocity = 0 \/ drv.after # Facing(drv.init, drv.next, velocity),
                 "velocity"))
  /\ Goto("moving")
  /\ UNCHANGED <<route, pos, direction, spinning, driving, velocity,
                 done, agentLock, heading>>

EndDrive ==
  /\ At("moving")
  /\ StopWheels(Drive)
  /\ Goto("arrive")
  /\ UNCHANGED <<route, pos, direction, spinning, driving, velocity,
                 done, agentLock, cell, heading, faults>>

\* pos = next
Arrive ==
  /\ At("arrive")
  /\ pos' = drv.next
  /\ Goto("pop")
  /\ UNCHANGED <<route, direction, spinning, driving, velocity,
                 done, agentLock, body>>

(* path.pop_front(): erase the first element, then size--.  Erasing the     *)
(* first element of an empty vector moves its end before its beginning: the  *)
(* next push_back is written in front of the buffer and only brings the      *)
(* vector's size back to zero.                                              *)
PopFront ==
  /\ At("pop")
  /\ IF path # << >> THEN path' = Tail(path) /\ UNCHANGED deficit
                     ELSE deficit' = deficit + 1 /\ UNCHANGED path
  /\ drv' = [drv EXCEPT !.pc = "shrink", !.init = NoCell, !.next = NoCell,
                        !.after = EAST]
  /\ UNCHANGED <<size, pos, direction, spinning, driving, velocity,
                 done, agentLock, body>>

Shrink ==
  /\ At("shrink")
  /\ size' = size - 1
  /\ Goto("pause")
  /\ UNCHANGED <<path, deficit, pos, direction, spinning, driving, velocity,
                 done, agentLock, body>>

\* usleep: time for the new position to reach the server.
Pause ==
  /\ At("pause")
  /\ Goto("release")
  /\ UNCHANGED <<route, pos, direction, spinning, driving, velocity, done,
                 agentLock, body>>

Release ==
  /\ At("release")
  /\ driving' = FALSE
  /\ drv' = [drv EXCEPT !.pc = "unlock", !.init = NoCell, !.next = NoCell]
  /\ UNCHANGED <<route, pos, direction, spinning, velocity,
                 done, agentLock, body>>

Unlock ==
  /\ At("unlock")
  /\ agentLock' = Nobody
  /\ Goto("check")
  /\ UNCHANGED <<route, pos, direction, spinning, driving, velocity,
                 done, body>>

DriveThread ==
  \/ EnterStepPath \/ CheckPath \/ Relock \/ Guard \/ Commit
  \/ FetchInit \/ FetchNext \/ Aim
  \/ StartChangeDirection \/ EndChangeDirection \/ StartDrive \/ EndDrive
  \/ Arrive \/ PopFront \/ Shrink \/ Pause \/ Release \/ Unlock

-----------------------------------------------------------------------------
\* The control points at which the drive thread has announced that it drives.
DrivingLabels == {"fetch0", "fetch1", "aim", "turn", "turning", "advance",
                  "moving", "arrive", "pop", "shrink", "pause", "release"}

\* The drive thread has left the driving section and the flag is still set.
Stranded == driving /\ drv.pc \notin DrivingLabels

(* The pose the agent tracks is where the robot is, except inside the drive  *)
(* call that moves it: the program's position and direction can part from    *)
(* the robot's only through one of the causes named above.              *)
PoseExplained ==
  faults = {} =>
    /\ cell = IF drv.pc \in {"moving", "arrive"} THEN drv.next ELSE pos
    /\ moving = {} => heading = direction
=============================================================================

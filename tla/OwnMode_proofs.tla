--------------------------- MODULE OwnMode_proofs ---------------------------
(* Safety of own mode, for every floor, set of plans, goals and velocities.  *)
EXTENDS OwnMode, Agent_proofs

\* Planner and display work on the grid exactly while they own the mutex.
LockInv ==
  /\ pl.pc \in {"plan", "setpath", "assign", "resize", "unlock"} <=> ownLock = Planner
  /\ disp \in {"mark", "print", "threw"} <=> ownLock = Display

\* The user's thread commands the wheels exactly while it spins the robot.
SpinMoves == Main \in moving <=> main = "spinning"

\* While only the spin moves the robot it still counts as facing direction.
SpinPose == faults = {} /\ Main \in moving => heading = direction

\* No path that is being driven or installed is empty.
PathInv ==
  /\ deficit = 0
  /\ pl.pc \in {"setpath", "assign", "resize"} => pl.newPath # << >>
  /\ drv.pc \in {"aim", "turn", "turning", "advance", "moving", "arrive", "pop"}
       => path # << >>

OwnInv ==
  /\ TypeOK /\ AgentInv /\ LockInv /\ SpinMoves
  /\ PoseInv /\ SpinPose /\ PathInv

-----------------------------------------------------------------------------
LEMMA OwnInitInv == Init => OwnInv
PROOF
  <1> SUFFICES ASSUME Init
               PROVE  OwnInv
    OBVIOUS
  <1> USE DEF Init, OwnInit
  <1>1. AgentInv
    BY AgentInitInv
  <1>2. TypeOK
    BY <1>1, AgentAssumption DEF AgentInv, TypeOK, OwnTypeOK
  <1>3. LockInv /\ SpinMoves /\ SpinPose
    BY AgentAssumption, OwnAssumption DEF LockInv, AgentInit, SpinMoves, SpinPose
  <1>4. PoseInv /\ PathInv
    BY DEF AgentInit, PoseInv, PathInv
  <1> QED
    BY <1>1, <1>2, <1>3, <1>4 DEF OwnInv

LEMMA DriveStepInv ==
  ASSUME OwnInv, DriveThread, UNCHANGED ownVars
  PROVE  OwnInv'
PROOF
  <1>1. AgentInv' /\ PoseInv'
    BY DriveThreadInv, DriveThreadPose DEF OwnInv
  <1>2. TypeOK'
    BY <1>1 DEF OwnInv, TypeOK, OwnTypeOK, ownVars, AgentInv
  <1>3. LockInv'
    BY DEF OwnInv, LockInv, ownVars
  <1>4. moving' \in {moving, moving \cup {Drive}, moving \ {Drive}}
    BY DriveFrame
  <1>5. SpinMoves'
    BY <1>4, OwnAssumption DEF OwnInv, SpinMoves, ownVars
  <1>6. SpinPose'
    <2> SUFFICES ASSUME faults' = {}, Main \in moving'
                 PROVE  heading' = direction'
      BY DEF SpinPose
    <2>1. Main \in moving /\ faults = {}
      BY <1>4, DriveFrame, OwnAssumption
    <2>2. moving' = {Main} /\ Drive \notin moving
      BY <1>1, <2>1, OwnAssumption DEF OwnInv, PoseInv
    <2>3. drv.pc \notin {"turning", "moving"} /\ drv'.pc \notin {"turning", "moving"}
      BY <1>1, <2>2, OwnAssumption DEF OwnInv, AgentInv, DriveMoves
    <2>4. UNCHANGED <<heading, direction>>
      BY <2>3, DriveKeepsHeading DEF OwnInv
    <2> QED
      BY <2>1, <2>4 DEF OwnInv, SpinPose
  <1>7. PathInv'
    <2>1. CASE drv.pc = "pop"
      <3>1. PopFront
        BY <2>1 DEF DriveThread, At, EnterStepPath, CheckPath, Relock, Guard, Commit,
              FetchInit, FetchNext, Aim, StartChangeDirection, EndChangeDirection,
              StartDrive, EndDrive, Arrive, Shrink, Pause, Release, Unlock
      <3>2. drv'.pc = "shrink" /\ deficit' = deficit
        BY <2>1, <3>1 DEF PopFront, OwnInv, PathInv, AgentInv, AgentTypeOK
      <3> QED
        BY <3>2 DEF OwnInv, PathInv, ownVars
    <2>2. CASE drv.pc # "pop"
      <3>1. Len(path) >= 2 => path # << >>
        OBVIOUS
      <3> QED
        BY <2>2, <3>1, DriveKeepsPath DEF OwnInv, PathInv, ownVars
    <2> QED
      BY <2>1, <2>2
  <1> QED
    BY <1>1, <1>2, <1>3, <1>5, <1>6, <1>7 DEF OwnInv

-----------------------------------------------------------------------------
(* The planner always finds some plan, and it ends on the floor.             *)
LEMMA PlanExists ==
  ASSUME NEW from \in Cells, NEW to
  PROVE  /\ PlansTo(from, to) # {}
         /\ \A p \in PlansTo(from, to) : p \in Plans /\ p # << >> /\ LastCell(p) \in Cells
PROOF
  <1>1. PlansFrom(from) # {}
    BY OwnAssumption DEF PlansFrom
  <1>2. \A p \in PlansFrom(from) : p \in Plans /\ p # << >>
    BY DEF PlansFrom
  <1>3. \A p \in Plans : p # << >> => LastCell(p) \in Cells
    BY AgentAssumption DEF LastCell
  <1>4. PlansTo(from, to) # {} /\ PlansTo(from, to) \subseteq PlansFrom(from)
    BY <1>1 DEF PlansTo
  <1> QED
    BY <1>2, <1>3, <1>4

LEMMA PlannerStepInv ==
  ASSUME OwnInv, PlannerThread
  PROVE  OwnInv'
PROOF
  <1> USE DEF OwnInv
  <1>1. CASE LockToPlan
    <2>1. UNCHANGED <<agentVars, goal, disp, main>>
      BY <1>1 DEF LockToPlan
    <2>2. /\ ownLock = Nobody /\ ownLock' = Planner
          /\ pl'.pc = "plan" /\ pl'.newPath = pl.newPath
      BY <1>1 DEF LockToPlan, TypeOK, OwnTypeOK
    <2>3. TypeOK' /\ AgentInv'
      BY <1>1, <2>1, <2>2, OthersKeepAgent
      DEF LockToPlan, TypeOK, OwnTypeOK, AgentTypeOK, agentVars
    <2>4. LockInv'
      BY <2>1, <2>2, AgentAssumption, OwnAssumption DEF LockInv
    <2> QED
      BY <2>1, <2>2, <2>3, <2>4 DEF agentVars, SpinMoves, PoseInv, SpinPose, PathInv
  <1>2. CASE PlanPath
    <2>1. UNCHANGED <<agentVars, ownLock, disp, main>>
      BY <1>2 DEF PlanPath
    <2>2. PICK p \in PlansTo(pos, goal) :
            pl' = [pc |-> "setpath", newPath |-> p] /\ goal' = LastCell(p)
      BY <1>2 DEF PlanPath
    <2>3. p \in Plans /\ p # << >> /\ LastCell(p) \in Cells
      BY PlanExists DEF TypeOK, OwnTypeOK, AgentTypeOK
    <2>4. TypeOK' /\ AgentInv'
      BY <2>1, <2>2, <2>3, OthersKeepAgent
      DEF TypeOK, OwnTypeOK, AgentTypeOK, agentVars
    <2>5. LockInv'
      BY <1>2, <2>1, <2>2 DEF PlanPath, LockInv
    <2>6. PathInv'
      BY <2>1, <2>2, <2>3 DEF PathInv, agentVars
    <2> QED
      BY <2>1, <2>4, <2>5, <2>6 DEF agentVars, SpinMoves, PoseInv, SpinPose
  <1>3. CASE LockToSetPath
    <2>1. /\ agentLock' = Planner /\ pl.pc = "setpath"
          /\ pl'.pc = "assign" /\ pl'.newPath = pl.newPath
          /\ UNCHANGED <<path, deficit, size, pos, direction, spinning, driving, velocity,
                         done, drv, cell, heading, moving, faults, goal, ownLock,
                         disp, main>>
      BY <1>3 DEF LockToSetPath, route, body, TypeOK, OwnTypeOK
    <2>2. pl' \in [pc : {"sleep", "plan", "setpath", "assign", "resize", "unlock",
                          "exited"},
                   newPath : Plans \cup {<< >>}]
      BY <1>3 DEF LockToSetPath, TypeOK, OwnTypeOK
    <2>3. AgentTypeOK'
      BY <2>1, OwnAssumption DEF TypeOK, OwnTypeOK, AgentTypeOK
    <2>4. TypeOK' /\ AgentInv'
      BY <2>1, <2>2, <2>3, OthersKeepAgent DEF TypeOK, OwnTypeOK
    <2> QED
      BY <2>1, <2>4 DEF LockInv, SpinMoves, PoseInv, SpinPose, PathInv
  <1>4. CASE SetPath
    <2>1. /\ path' = pl.newPath /\ deficit' = 0
          /\ pl.pc = "assign" /\ pl'.pc = "resize" /\ pl'.newPath = pl.newPath
          /\ UNCHANGED <<size, pos, direction, spinning, driving, velocity,
                         done, agentLock, drv, cell, heading, moving, faults, goal, ownLock,
                         disp, main>>
      BY <1>4 DEF SetPath, body, TypeOK, OwnTypeOK
    <2>2. pl' \in [pc : {"sleep", "plan", "setpath", "assign", "resize", "unlock",
                          "exited"},
                   newPath : Plans \cup {<< >>}]
      BY <1>4 DEF SetPath, TypeOK, OwnTypeOK
    <2>3. path' \in Seq(Cells) /\ path' # << >>
      BY <2>1, AgentAssumption DEF TypeOK, OwnTypeOK, PathInv
    <2>4. AgentTypeOK'
      BY <2>1, <2>3 DEF TypeOK, OwnTypeOK, AgentTypeOK
    <2>5. TypeOK' /\ AgentInv'
      BY <2>1, <2>2, <2>4, OthersKeepAgent DEF TypeOK, OwnTypeOK
    <2> QED
      BY <2>1, <2>3, <2>5 DEF LockInv, SpinMoves, PoseInv, SpinPose, PathInv
  <1>5. CASE UnlockPlan
    <2>1. /\ UNCHANGED <<agentVars, goal, disp, main>>
          /\ ownLock' = Nobody /\ pl.pc = "unlock"
          /\ pl' \in [pc : {"sleep", "exited"}, newPath : {<< >>}]
      BY <1>5 DEF UnlockPlan
    <2>2. TypeOK' /\ AgentInv'
      BY <2>1, OthersKeepAgent DEF TypeOK, OwnTypeOK, AgentTypeOK, agentVars
    <2>3. LockInv'
      BY <2>1, AgentAssumption, OwnAssumption DEF LockInv
    <2> QED
      BY <2>1, <2>2, <2>3 DEF agentVars, SpinMoves, PoseInv, SpinPose, PathInv
  <1>6. CASE SetSize
    <2>1. /\ size' = Len(pl.newPath) /\ agentLock' = Nobody
          /\ pl.pc = "resize" /\ pl'.pc = "unlock"
          /\ UNCHANGED <<path, deficit, pos, direction, spinning, driving, velocity,
                         done, drv, cell, heading, moving, faults, goal, ownLock,
                         disp, main>>
      BY <1>6 DEF SetSize, body, TypeOK, OwnTypeOK
    <2>2. pl' \in [pc : {"sleep", "plan", "setpath", "assign", "resize", "unlock",
                          "exited"},
                   newPath : Plans \cup {<< >>}]
      BY <1>6 DEF SetSize, TypeOK, OwnTypeOK
    <2>3. size' \in Int
      BY <2>1, AgentAssumption DEF TypeOK, OwnTypeOK
    <2>4. AgentTypeOK'
      BY <2>1, <2>3 DEF TypeOK, OwnTypeOK, AgentTypeOK
    <2>5. TypeOK' /\ AgentInv'
      BY <2>1, <2>2, <2>4, OthersKeepAgent DEF TypeOK, OwnTypeOK
    <2> QED
      BY <2>1, <2>5 DEF LockInv, SpinMoves, PoseInv, SpinPose, PathInv
  <1> QED
    BY <1>1, <1>2, <1>3, <1>4, <1>5, <1>6 DEF PlannerThread

LEMMA DisplayStepInv ==
  ASSUME OwnInv, DisplayThread
  PROVE  OwnInv'
PROOF
  <1> USE DEF OwnInv
  <1>1. UNCHANGED <<agentVars, goal, pl, main>>
    BY DEF DisplayThread, LockToDisplay, MarkPath, UnlockDisplay
  <1>2. LockInv'
    BY <1>1, AgentAssumption, OwnAssumption
    DEF DisplayThread, LockToDisplay, MarkPath, UnlockDisplay, LockInv
  <1>3. /\ ownLock' \in {Nobody, Planner, Display}
        /\ disp' \in {"sleep", "mark", "print", "exited", "threw"}
    BY DEF DisplayThread, LockToDisplay, MarkPath, UnlockDisplay, TypeOK, OwnTypeOK
  <1>4. TypeOK' /\ AgentInv'
    BY <1>1, <1>3, OthersKeepAgent DEF TypeOK, OwnTypeOK, AgentTypeOK, agentVars
  <1> QED
    BY <1>1, <1>2, <1>4 DEF agentVars, SpinMoves, PoseInv, SpinPose, PathInv

LEMMA MainStepInv ==
  ASSUME OwnInv, MainThread
  PROVE  OwnInv'
PROOF
  <1> USE DEF OwnInv
  <1>1. CASE InputGoal \/ InputSpin \/ WaitToFinishDriving \/ Exit
    <2>1. /\ UNCHANGED <<agentVars, ownLock, pl, disp>>
          /\ goal' \in Cells \cup Goals
          /\ main' \in {"input", "wait", "spin", "exited"} /\ main # "spinning"
      BY <1>1 DEF InputGoal, InputSpin, WaitToFinishDriving, Exit, TypeOK, OwnTypeOK
    <2>2. TypeOK' /\ AgentInv'
      BY <2>1, OthersKeepAgent DEF TypeOK, OwnTypeOK, AgentTypeOK, agentVars
    <2> QED
      BY <2>1, <2>2 DEF agentVars, LockInv, SpinMoves, PoseInv, SpinPose, PathInv
  <1>2. CASE SetSpinning \/ Quit
    <2>1. /\ UNCHANGED <<path, deficit, size, pos, direction, driving, velocity, agentLock,
                         drv, cell, heading, moving, faults, goal, ownLock, pl, disp>>
          /\ spinning' \in BOOLEAN /\ done' \in BOOLEAN
          /\ main' \in {"turn", "teardown"} /\ main # "spinning"
      BY <1>2 DEF SetSpinning, Quit, route, body, TypeOK, OwnTypeOK, AgentTypeOK
    <2>2. TypeOK' /\ AgentInv'
      BY <2>1, OthersKeepAgent DEF TypeOK, OwnTypeOK, AgentTypeOK
    <2> QED
      BY <2>1, <2>2 DEF LockInv, SpinMoves, PoseInv, SpinPose, PathInv
  <1>3. CASE StartSpin
    <2>1. /\ UNCHANGED <<path, deficit, size, pos, direction, spinning, driving, velocity,
                         done, agentLock, drv, goal, ownLock, pl, disp>>
          /\ main = "turn" /\ main' = "spinning"
          /\ moving' = moving \cup {Main}
          /\ cell' = IF moving = {} THEN cell ELSE Lost
      BY <1>3 DEF StartSpin, StartTurn, route
    <2>2. heading' = heading
      BY <1>3, SpinKeepsHeading, AgentAssumption
      DEF StartSpin, StartTurn, TypeOK, OwnTypeOK, AgentTypeOK
    <2>3. /\ faults' \subseteq Causes
          /\ faults' = {} => faults = {} /\ moving = {}
      BY <1>3, Blameless
      DEF StartSpin, StartTurn, Blame, Cause, Causes, TypeOK, OwnTypeOK, AgentTypeOK
    <2>4. AgentTypeOK'
      BY <2>1, <2>2, <2>3, OwnAssumption DEF TypeOK, OwnTypeOK, AgentTypeOK
    <2>5. AgentInv'
      BY <2>1, <2>4, OwnAssumption DEF AgentInv, StepLocals, DriveMoves
    <2>6. TypeOK'
      BY <2>1, <2>4 DEF TypeOK, OwnTypeOK
    <2>7. PoseInv' /\ SpinPose'
      BY <2>1, <2>2, <2>3 DEF PoseInv, SpinPose, AgentInv, DriveMoves
    <2> QED
      BY <2>1, <2>5, <2>6, <2>7 DEF LockInv, SpinMoves, PathInv
  <1>4. CASE EndSpin
    <2>1. /\ UNCHANGED <<path, deficit, size, pos, direction, driving, velocity, done,
                         agentLock, drv, cell, heading, faults, goal, ownLock, pl, disp>>
          /\ spinning' = FALSE /\ main = "spinning" /\ main' = "input"
          /\ moving' = moving \ {Main}
      BY <1>4 DEF EndSpin, StopWheels, route
    <2>2. AgentTypeOK' /\ TypeOK'
      <3>1. moving' \subseteq Threads /\ spinning' \in BOOLEAN
        BY <2>1 DEF TypeOK, OwnTypeOK, AgentTypeOK
      <3>2. AgentTypeOK'
        BY <2>1, <3>1 DEF TypeOK, OwnTypeOK, AgentTypeOK
      <3> QED
        BY <2>1, <3>2 DEF TypeOK, OwnTypeOK
    <2>3. AgentInv'
      BY <2>1, <2>2, OwnAssumption DEF AgentInv, StepLocals, DriveMoves
    <2>4. PoseInv' /\ SpinPose'
      BY <2>1 DEF PoseInv, SpinPose, SpinMoves
    <2> QED
      BY <2>1, <2>2, <2>3, <2>4 DEF LockInv, SpinMoves, PathInv
  <1> QED
    BY <1>1, <1>2, <1>3, <1>4 DEF MainThread

LEMMA OwnNextInv == OwnInv /\ [Next]_vars => OwnInv'
PROOF
  <1> SUFFICES ASSUME OwnInv, [Next]_vars
               PROVE  OwnInv'
    OBVIOUS
  <1>1. CASE Next
    BY <1>1, DriveStepInv, PlannerStepInv, DisplayStepInv, MainStepInv DEF Next
  <1>2. CASE UNCHANGED vars
    <2>1. UNCHANGED <<path, deficit, size, pos, direction, spinning, driving, velocity, done,
                      agentLock, drv, cell, heading, moving, faults,
                      goal, ownLock, pl, disp, main>>
      BY <1>2 DEF vars, agentVars, ownVars
    <2> QED
      BY <2>1 DEF OwnInv, TypeOK, OwnTypeOK, AgentTypeOK, AgentInv, StepLocals,
             DriveMoves, LockInv, SpinMoves, PoseInv, SpinPose, PathInv
  <1> QED
    BY <1>1, <1>2

(* Every reachable state satisfies the inductive invariant.                  *)
THEOREM OwnInvariant == Spec => []OwnInv
PROOF
  BY OwnInitInv, OwnNextInv, PTL DEF Spec

-----------------------------------------------------------------------------
(* Every variable of own mode stays in its range.                            *)
THEOREM TypeCorrect == Spec => []TypeOK
PROOF
  <1>1. OwnInv => TypeOK
    BY DEF OwnInv
  <1> QED
    BY <1>1, OwnInvariant, PTL

(* Planner and display never work on the shared grid at the same time.       *)
THEOREM GridIsExclusive == Spec => []GridExclusion
PROOF
  <1>1. OwnInv => GridExclusion
    BY OwnAssumption DEF OwnInv, LockInv, GridExclusion
  <1> QED
    BY <1>1, OwnInvariant, PTL

(* The tracked pose is the robot's until one of the named causes occurs.     *)
THEOREM PoseIsExplained == Spec => []PoseExplained
PROOF
  <1>1. OwnInv => PoseExplained
    BY PoseInvExplains DEF OwnInv
  <1> QED
    BY <1>1, OwnInvariant, PTL

(* A step of own mode never pops an empty path.                              *)
THEOREM PopsAPosition == Spec => []PopHasAPosition
PROOF
  <1>1. OwnInv => PopHasAPosition
    BY DEF OwnInv, PathInv, PopHasAPosition
  <1> QED
    BY <1>1, OwnInvariant, PTL

-----------------------------------------------------------------------------
(* Once the drive thread idles on the path's mutex, the path is fixed for    *)
(* ever: no step of any thread releases the mutex or changes the path.       *)
THEOREM FrozenIsForEver == Spec => FrozenForEver
PROOF
  <1>1. TypeOK /\ [Next]_vars => [Frozen => Frozen' /\ UNCHANGED path]_vars
    <2> SUFFICES ASSUME TypeOK, [Next]_vars, Frozen
                 PROVE  Frozen' /\ UNCHANGED path
      OBVIOUS
    <2> USE AgentAssumption, OwnAssumption
    <2>1. CASE DriveThread /\ UNCHANGED ownVars
      <3>1. /\ drv.pc \in {"enter", "check", "exited"}
            /\ agentLock = Drive /\ pl.pc \notin {"assign", "resize"} /\ size <= 1
        BY DEF Frozen
      <3>2. EnterStepPath \/ CheckPath
        BY <2>1, <3>1 DEF DriveThread, At, Relock, Guard, Commit, FetchInit, FetchNext,
              Aim, StartChangeDirection, EndChangeDirection, StartDrive, EndDrive,
              Arrive, PopFront, Shrink, Pause, Release, Unlock
      <3>3. ~(size > 1)
        BY <3>1 DEF TypeOK, OwnTypeOK, AgentTypeOK
      <3>4. /\ agentLock' = Drive /\ UNCHANGED <<path, size>> /\ drv'.pc \in {"enter", "check", "exited"}
        <4>1. CASE EnterStepPath
          BY <3>1, <4>1 DEF EnterStepPath, Goto, route, TypeOK, OwnTypeOK, AgentTypeOK
        <4>2. CASE CheckPath
          <5>1. UNCHANGED <<route, agentLock>> /\ drv' = [drv EXCEPT !.pc = "enter"]
            BY <3>3, <4>2 DEF CheckPath, Goto
          <5> QED
            BY <3>1, <5>1 DEF route, TypeOK, OwnTypeOK, AgentTypeOK
        <4> QED
          BY <3>2, <4>1, <4>2
      <3> QED
        BY <2>1, <3>1, <3>4 DEF Frozen, ownVars
    <2>2. CASE PlannerThread
      <3>1. ~LockToSetPath /\ ~SetPath /\ ~SetSize
        BY DEF LockToSetPath, SetPath, SetSize, Frozen
      <3>2. UNCHANGED agentVars /\ pl'.pc \notin {"assign", "resize"}
        <4>1. LockToPlan \/ PlanPath \/ UnlockPlan
          BY <2>2, <3>1 DEF PlannerThread
        <4>2. UNCHANGED agentVars
          BY <4>1 DEF LockToPlan, PlanPath, UnlockPlan
        <4>3. pl'.pc \in {"plan", "setpath", "sleep", "exited"}
          BY <4>1 DEF LockToPlan, PlanPath, UnlockPlan, TypeOK, OwnTypeOK
        <4> QED
          BY <4>2, <4>3
      <3>3. UNCHANGED <<path, size, agentLock, drv>>
        BY <3>2 DEF agentVars
      <3> QED
        BY <3>2, <3>3 DEF Frozen
    <2>3. CASE DisplayThread
      BY <2>3 DEF DisplayThread, LockToDisplay, MarkPath, UnlockDisplay, Frozen, agentVars
    <2>4. CASE MainThread
      BY <2>4 DEF MainThread, InputGoal, InputSpin, WaitToFinishDriving, SetSpinning,
             StartSpin, EndSpin, Quit, Exit, Frozen, agentVars, route
    <2>5. CASE UNCHANGED vars
      BY <2>5 DEF vars, agentVars, ownVars, Frozen
    <2> QED
      BY <2>1, <2>2, <2>3, <2>4, <2>5 DEF Next
  <1> QED
    BY <1>1, TypeCorrect, PTL DEF Spec, FrozenForEver

(* A planner that then reaches setPath stays there, and the display, which   *)
(* needs the mutex the planner holds, never marks the grid again.            *)
THEOREM DisplayIsLockedOut == Spec => DisplayLockedOut
PROOF
  <1>1. OwnInv /\ [Next]_vars =>
          [Frozen /\ pl.pc = "setpath" => disp' = disp /\ pl' = pl]_vars
    <2> SUFFICES ASSUME OwnInv, [Next]_vars, Frozen, pl.pc = "setpath"
                 PROVE  disp' = disp /\ pl' = pl
      OBVIOUS
    <2> USE AgentAssumption, OwnAssumption
    <2>1. ownLock = Planner /\ disp \notin {"mark", "print"} /\ agentLock = Drive
      BY DEF OwnInv, LockInv, Frozen
    <2>2. ~PlannerThread /\ ~DisplayThread
      BY <2>1 DEF PlannerThread, LockToPlan, PlanPath, LockToSetPath, SetPath, SetSize, UnlockPlan,
            DisplayThread, LockToDisplay, MarkPath, UnlockDisplay
    <2>3. DriveThread /\ UNCHANGED ownVars => disp' = disp /\ pl' = pl
      BY DEF ownVars
    <2>4. MainThread => disp' = disp /\ pl' = pl
      BY DEF MainThread, InputGoal, InputSpin, WaitToFinishDriving, SetSpinning,
             StartSpin, EndSpin, Quit, Exit
    <2>5. UNCHANGED vars => disp' = disp /\ pl' = pl
      BY DEF vars, ownVars
    <2> QED
      BY <2>2, <2>3, <2>4, <2>5 DEF Next
  <1> QED
    BY <1>1, OwnInvariant, PTL DEF Spec, DisplayLockedOut
=============================================================================

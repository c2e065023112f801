---------------------------- MODULE Agent_proofs ----------------------------
(* What the steps of the drive thread preserve, for every floor, plan and    *)
(* velocity.  The proofs about client and own mode build on these lemmas.    *)
EXTENDS Agent, SequenceTheorems, TLAPS

(* The geometry of module Motion, for every cell and velocity.               *)

(* The angles of change_direction's if-chain are multiples of 45 degrees.    *)
LEMMA TurnDegreesType ==
  \A b, a \in Directions :
    /\ TurnDegrees(b, a) \in Int
    /\ \E k \in 0..4 : TurnDegrees(b, a) = 45 * k \/ TurnDegrees(b, a) = -45 * k
PROOF
  BY DEF TurnDegrees, TurnTable, Directions

(* The two negations in turnXDegrees cancel: the sense of a turn is the sign *)
(* of the angle, whatever the sign of the velocity.                          *)
LEMMA SenseOfTurn ==
  ASSUME NEW h \in Directions, NEW degree \in Int, NEW v \in Int, v # 0
  PROVE  TurnXDegrees(h, degree, v) =
           IF degree < 0 THEN (h - ((-degree) \div 45)) % 8
                         ELSE (h + (degree \div 45)) % 8
PROOF
  BY DEF TurnXDegrees, Sign, AbsOf, Directions

(* The if-chain of change_direction is right: from every direction to every  *)
(* other, forwards or backwards, the angle it chooses leaves the robot facing*)
(* the direction asked for.                                                  *)
THEOREM TurnFaces ==
  ASSUME NEW b \in Directions, NEW a \in Directions,
         NEW v \in Int, v # 0
  PROVE  TurnXDegrees(b, TurnDegrees(b, a), v) = a
PROOF
  <1>1. TurnDegrees(b, a) \in Int
    BY TurnDegreesType
  <1>2. TurnXDegrees(b, TurnDegrees(b, a), v) =
          IF TurnDegrees(b, a) < 0 THEN (b - ((-TurnDegrees(b, a)) \div 45)) % 8
                                   ELSE (b + (TurnDegrees(b, a) \div 45)) % 8
    BY <1>1, SenseOfTurn
  <1>3. CASE b = 0
    BY <1>2, <1>3 DEF TurnDegrees, TurnTable, Directions
  <1>4. CASE b = 1
    BY <1>2, <1>4 DEF TurnDegrees, TurnTable, Directions
  <1>5. CASE b = 2
    BY <1>2, <1>5 DEF TurnDegrees, TurnTable, Directions
  <1>6. CASE b = 3
    BY <1>2, <1>6 DEF TurnDegrees, TurnTable, Directions
  <1>7. CASE b = 4
    BY <1>2, <1>7 DEF TurnDegrees, TurnTable, Directions
  <1>8. CASE b = 5
    BY <1>2, <1>8 DEF TurnDegrees, TurnTable, Directions
  <1>9. CASE b = 6
    BY <1>2, <1>9 DEF TurnDegrees, TurnTable, Directions
  <1>10. CASE b = 7
    BY <1>2, <1>10 DEF TurnDegrees, TurnTable, Directions
  <1> QED
    BY <1>3, <1>4, <1>5, <1>6, <1>7, <1>8, <1>9, <1>10 DEF Directions

(* Whatever it is told, turnXDegrees leaves the robot in some direction.     *)
LEMMA TurnXDegreesType ==
  ASSUME NEW h \in Directions, NEW degree \in Int, NEW v \in Int
  PROVE  TurnXDegrees(h, degree, v) \in Directions
PROOF
  BY DEF TurnXDegrees, Sign, AbsOf, Directions

-----------------------------------------------------------------------------
(* The eight neighbours of a cell are the eight offsets.                     *)
LEMMA OffsetTable ==
  /\ Offset(0) = <<0, 1>>  /\ Offset(1) = <<-1, 1>>
  /\ Offset(2) = <<-1, 0>> /\ Offset(3) = <<-1, -1>>
  /\ Offset(4) = <<0, -1>> /\ Offset(5) = <<1, -1>>
  /\ Offset(6) = <<1, 0>>  /\ Offset(7) = <<1, 1>>
PROOF
  BY DEF Offset, EAST, NORTHEAST, NORTH, NORTHWEST, WEST, SOUTHWEST, SOUTH, SOUTHEAST

(* Agent::step finds a compass direction for each pair of cells it accepts.  *)
LEMMA BearingExists ==
  ASSUME NEW a \in Int \X Int, NEW b \in Int \X Int, Connected(a, b), a # b
  PROVE  /\ Bearing(a, b) \in Directions
         /\ Offset(Bearing(a, b)) = << b[1] - a[1], b[2] - a[2] >>
PROOF
  <1>1. b[1] - a[1] \in {-1, 0, 1} /\ b[2] - a[2] \in {-1, 0, 1}
    BY DEF Connected, AbsOf
  <1>2. b[1] - a[1] # 0 \/ b[2] - a[2] # 0
    OBVIOUS
  <1>3. \E d \in Directions : Offset(d) = << b[1] - a[1], b[2] - a[2] >>
    BY <1>1, <1>2, OffsetTable DEF Directions
  <1> QED
    BY <1>3 DEF Bearing

(* The direction Agent::step chooses is a direction.                         *)
LEMMA FacingType ==
  ASSUME NEW a \in Int \X Int, NEW b \in Int \X Int, Connected(a, b), a # b,
         NEW v \in Int
  PROVE  Facing(a, b, v) \in Directions
PROOF
  BY BearingExists DEF Facing, Opposite, Directions

(* A step that nothing disturbs ends where it should: when Agent::step has   *)
(* turned a robot on cell a to the direction it chose, driving the unit it   *)
(* chose at the same velocity ends on the connected cell b.  Driving         *)
(* backwards is covered: both choices depend on the velocity's sign.         *)
THEOREM StepReaches ==
  ASSUME NEW a \in Int \X Int, NEW b \in Int \X Int, Connected(a, b), a # b,
         NEW v \in Int, v # 0
  PROVE  DriveXDistance(a, Facing(a, b, v),
                        IsDiagonal(Bearing(a, b)), v) = b
PROOF
  <1> DEFINE d == Bearing(a, b)
             h == Facing(a, b, v)
  <1>1. d \in Directions /\ Offset(d) = << b[1] - a[1], b[2] - a[2] >>
    BY BearingExists
  <1>2. \A e \in Directions :
          /\ Opposite(e) \in Directions
          /\ IsDiagonal(Opposite(e)) = IsDiagonal(e)
          /\ Offset(e) \in Int \X Int
          /\ Offset(Opposite(e))[1] = -Offset(e)[1]
          /\ Offset(Opposite(e))[2] = -Offset(e)[2]
    BY OffsetTable DEF Directions, Opposite, IsDiagonal
  <1>3. IsDiagonal(h) = IsDiagonal(d)
    BY <1>1, <1>2 DEF Facing
  <1>4. /\ Sign(v) * Offset(h)[1] = b[1] - a[1]
        /\ Sign(v) * Offset(h)[2] = b[2] - a[2]
    <2>1. CASE v > 0
      <3>1. h = d /\ Sign(v) = 1
        BY <2>1 DEF Facing, Sign
      <3> QED
        BY <3>1, <1>1
    <2>2. CASE v < 0
      <3>1. h = Opposite(d) /\ Sign(v) = -1
        BY <2>2 DEF Facing, Sign
      <3>2. Offset(h)[1] = -(b[1] - a[1]) /\ Offset(h)[2] = -(b[2] - a[2])
        BY <3>1, <1>1, <1>2
      <3> QED
        BY <3>1, <3>2
    <2> QED
      BY <2>1, <2>2
  <1>5. a # Lost
    BY DEF Lost
  <1>6. DriveXDistance(a, h, IsDiagonal(d), v) =
          << a[1] + Sign(v) * Offset(h)[1],
             a[2] + Sign(v) * Offset(h)[2] >>
    BY <1>3, <1>5 DEF DriveXDistance
  <1>7. << a[1] + (b[1] - a[1]), a[2] + (b[2] - a[2]) >> = b
    OBVIOUS
  <1> QED
    BY <1>4, <1>6, <1>7

-----------------------------------------------------------------------------
(* The drive thread.                                                         *)

(* The locals of a step hold cells from the moment they are read until the   *)
(* step ends, and while the step turns and drives they are two different,    *)
(* connected cells.                                                          *)
StepLocals ==
  /\ drv.pc \in {"fetch1", "aim", "turn", "turning", "advance", "moving", "arrive"}
       => drv.init \in Cells
  /\ drv.pc \in {"aim", "turn", "turning", "advance", "moving", "arrive"}
       => drv.next \in Cells
  /\ drv.pc \in {"turn", "turning", "advance", "moving"}
       => Connected(drv.init, drv.next) /\ drv.init # drv.next

\* The drive thread commands the wheels exactly inside its turn and its drive.
DriveMoves == Drive \in moving <=> drv.pc \in {"turning", "moving"}

AgentInv == AgentTypeOK /\ StepLocals /\ DriveMoves

(* The agent as main creates it satisfies the invariant.                     *)
LEMMA AgentInitInv ==
  ASSUME AgentInit
  PROVE  AgentInv
PROOF
  <1>1. EAST \in Directions
    BY DEF EAST, Directions
  <1>2. drv \in [pc : DriveLabels, init : Cells \cup {NoCell},
                 next : Cells \cup {NoCell}, after : Directions]
    BY <1>1 DEF AgentInit, DriveLabels
  <1>3. drv.pc = "enter"
    BY DEF AgentInit
  <1>4. AgentTypeOK
    <2>1. path \in Seq(Cells) /\ deficit \in Nat /\ size \in Int
      BY DEF AgentInit
    <2>2. /\ pos \in Cells /\ direction \in Directions
          /\ spinning \in BOOLEAN /\ driving \in BOOLEAN /\ done \in BOOLEAN
          /\ velocity \in Velocities /\ agentLock \in Threads \cup {Nobody}
      BY AgentAssumption DEF AgentInit
    <2>3. /\ cell \in Cells \cup {Lost} /\ heading \in Directions
          /\ moving \subseteq Threads /\ faults \subseteq Causes
      BY AgentAssumption DEF AgentInit
    <2> QED
      BY <1>2, <2>1, <2>2, <2>3 DEF AgentTypeOK
  <1>5. StepLocals
    BY <1>3 DEF StepLocals
  <1>6. DriveMoves
    BY <1>3 DEF AgentInit, DriveMoves
  <1> QED
    BY <1>4, <1>5, <1>6 DEF AgentInv

(* Popping the first position off a path leaves a path.                      *)
LEMMA TailOfPath ==
  ASSUME NEW p \in Seq(Cells), p # << >>
  PROVE  Tail(p) \in Seq(Cells)
PROOF
  BY HeadTailProperties

(* Whatever at() returns is taken for a cell.                                *)
LEMMA FoundCells ==
  ASSUME path \in Seq(Cells), NEW i \in {1, 2}
  PROVE  Found(i) \subseteq Cells
PROOF
  BY DEF Found

(* Every step of the drive thread preserves it.                              *)
LEMMA DriveThreadInv ==
  ASSUME AgentInv, DriveThread
  PROVE  AgentInv'
PROOF
  <1> USE AgentAssumption
      DEF AgentInv, AgentTypeOK, StepLocals, DriveMoves, DriveLabels, At, Goto,
          route, body
  <1>1. CASE EnterStepPath
    BY <1>1 DEF EnterStepPath
  <1>2. CASE CheckPath
    BY <1>2 DEF CheckPath
  <1>3. CASE Relock
    BY <1>3 DEF Relock
  <1>4. CASE Guard
    BY <1>4 DEF Guard
  <1>5. CASE Commit
    BY <1>5 DEF Commit
  <1>6. CASE FetchInit
    <2>1. Found(1) \subseteq Cells
      BY FoundCells
    <2>2. faults' \subseteq Causes
      BY <1>6 DEF FetchInit, Cause, Causes
    <2> QED
      BY <1>6, <2>1, <2>2 DEF FetchInit
  <1>7. CASE FetchNext
    <2>1. Found(2) \subseteq Cells
      BY FoundCells
    <2>2. faults' \subseteq Causes
      BY <1>7 DEF FetchNext, Cause, Causes
    <2>3. drv' \in [pc : DriveLabels, init : Cells \cup {NoCell},
                    next : Cells \cup {NoCell}, after : Directions]
      BY <1>7, <2>1 DEF FetchNext
    <2> QED
      BY <1>7, <2>1, <2>2, <2>3 DEF FetchNext
  <1>8. CASE Aim
    BY <1>8, FacingType DEF Aim, Blame, Cause, Causes
  <1>9. CASE StartChangeDirection
    BY <1>9, TurnDegreesType, TurnXDegreesType
       DEF StartChangeDirection, StartTurn, Blame, Cause, Causes, Lost
  <1>10. CASE EndChangeDirection
    BY <1>10 DEF EndChangeDirection, StopWheels
  <1>11. CASE StartDrive
    BY <1>11 DEF StartDrive, Settle, Blame, Cause, Causes
  <1>12. CASE EndDrive
    BY <1>12 DEF EndDrive, StopWheels
  <1>13. CASE Arrive
    BY <1>13 DEF Arrive
  <1>14. CASE PopFront
    <2>1. path' \in Seq(Cells) /\ deficit' \in Nat
      <3>1. CASE path # << >>
        <4>1. path' = Tail(path) /\ deficit' = deficit
          BY <1>14, <3>1 DEF PopFront
        <4> QED
          BY <3>1, <4>1, TailOfPath
      <3>2. CASE path = << >>
        <4>1. path' = path /\ deficit' = deficit + 1
          BY <1>14, <3>2 DEF PopFront
        <4> QED
          BY <4>1
      <3> QED
        BY <3>1, <3>2
    <2>2. EAST \in Directions
      BY DEF EAST, Directions
    <2>3. drv' \in [pc : DriveLabels, init : Cells \cup {NoCell},
                    next : Cells \cup {NoCell}, after : Directions]
      BY <1>14, <2>2 DEF PopFront
    <2>4. drv'.pc = "shrink" /\ moving' = moving /\ drv.pc = "pop"
      BY <1>14 DEF PopFront
    <2>5. AgentTypeOK'
      <3>1. UNCHANGED <<size, pos, direction, spinning, driving, velocity, done,
                        agentLock, cell, heading, moving, faults>>
        BY <1>14 DEF PopFront
      <3> QED
        BY <2>1, <2>3, <3>1
    <2>6. StepLocals'
      BY <2>4
    <2>7. DriveMoves'
      BY <2>4
    <2> QED
      BY <2>5, <2>6, <2>7
  <1>15. CASE Pause
    BY <1>15 DEF Pause
  <1>16. CASE Release
    BY <1>16 DEF Release, NoCell
  <1>17. CASE Unlock
    BY <1>17 DEF Unlock
  <1>18. CASE Shrink
    <2>1. size' \in Int /\ drv.pc = "shrink" /\ drv' = [drv EXCEPT !.pc = "pause"]
      BY <1>18 DEF Shrink
    <2>2. UNCHANGED <<path, deficit, pos, direction, spinning, driving, velocity, done,
                      agentLock, cell, heading, moving, faults>>
      BY <1>18 DEF Shrink
    <2> QED
      BY <2>1, <2>2
  <1> QED
    BY <1>1, <1>2, <1>3, <1>4, <1>5, <1>6, <1>7, <1>8, <1>9, <1>10, <1>11,
       <1>12, <1>13, <1>14, <1>15, <1>16, <1>17, <1>18 DEF DriveThread

-----------------------------------------------------------------------------
(* PoseExplained is not inductive: that a drive of one unit ends where the   *)
(* agent will record depends on where the step started and on where the turn *)
(* before it left the robot.  PoseInv says so, as long as nothing has gone   *)
(* wrong; it says nothing of a robot another thread is turning.              *)
PoseInv ==
  faults = {} =>
    /\ \A t, u \in moving : t = u
    /\ cell = IF drv.pc \in {"moving", "arrive"} THEN drv.next ELSE pos
    /\ drv.pc \in {"turn", "turning", "advance", "moving"} => drv.init = pos
    /\ drv.pc = "turning" => heading = drv.after
    /\ moving = {} \/ drv.pc = "moving" => heading = direction

LEMMA PoseInvExplains ==
  ASSUME PoseInv
  PROVE  PoseExplained
PROOF
  BY DEF PoseInv, PoseExplained

(* A step that leaves no fault behind found none and had no cause for one.   *)
LEMMA Blameless ==
  ASSUME NEW causes, Blame(causes), faults' = {}
  PROVE  faults = {} /\ causes = {}
PROOF
  BY DEF Blame

(* A turn by the angle of the turn table reaches its direction, or the       *)
(* velocity is to blame.                                                     *)
LEMMA TurnReaches ==
  ASSUME NEW b \in Directions, NEW a \in Directions, NEW v \in Int,
         Cause(v = 0 /\ TurnDegrees(b, a) \notin {0, 360}, "velocity") = {}
  PROVE  TurnXDegrees(b, TurnDegrees(b, a), v) = a
PROOF
  <1>1. CASE v # 0
    BY <1>1, TurnFaces
  <1>2. CASE v = 0
    <2>1. TurnDegrees(b, a) \in {0, 360}
      BY <1>2 DEF Cause
    <2>2. TurnDegrees(b, a) = 0
      BY <2>1, TurnDegreesType
    <2>3. TurnXDegrees(b, TurnDegrees(b, a), v) = b
      BY <1>2, <2>2 DEF TurnXDegrees, Sign, AbsOf, Directions
    <2>4. TurnXDegrees(b, TurnDegrees(b, a), 1) = b
      BY <2>2 DEF TurnXDegrees, Sign, AbsOf, Directions
    <2> QED
      BY <2>3, <2>4, TurnFaces
  <1> QED
    BY <1>1, <1>2

(* Every step of the drive thread preserves PoseInv.                         *)
LEMMA DriveThreadPose ==
  ASSUME AgentInv, PoseInv, DriveThread
  PROVE  PoseInv'
PROOF
  <1> SUFFICES ASSUME faults' = {}
               PROVE  PoseInv'
    BY DEF PoseInv
  <1> USE DEF At, Goto, route, body
  <1>1. CASE EnterStepPath \/ CheckPath \/ Relock \/ Guard \/ Commit \/ FetchInit
             \/ FetchNext \/ PopFront \/ Shrink \/ Pause \/ Release \/ Unlock
    <2>1. UNCHANGED <<pos, direction, cell, heading, moving>> /\ faults = {}
      BY <1>1 DEF EnterStepPath, CheckPath, Relock, Guard, Commit, FetchInit,
                  FetchNext, PopFront, Shrink, Pause, Release, Unlock
    <2>2. /\ drv.pc \notin {"turn", "turning", "advance", "moving", "arrive"}
          /\ drv'.pc \notin {"turn", "turning", "advance", "moving", "arrive"}
      BY <1>1 DEF EnterStepPath, CheckPath, Relock, Guard, Commit, FetchInit,
                  FetchNext, PopFront, Shrink, Pause, Release, Unlock, AgentInv,
                  AgentTypeOK, DriveLabels
    <2> QED
      BY <2>1, <2>2 DEF PoseInv
  <1>2. CASE Aim
    <2>1. faults = {} /\ (Connected(drv.init, drv.next) => drv.init = pos)
      BY <1>2, Blameless DEF Aim, Cause
    <2>2. UNCHANGED <<pos, direction, cell, heading, moving>> /\ drv.pc = "aim"
      BY <1>2 DEF Aim
    <2>3. /\ drv'.pc \in {"turn", "arrive", "release"}
          /\ drv'.init = drv.init /\ drv'.next = drv.next
          /\ drv'.pc \in {"turn", "arrive"} => Connected(drv.init, drv.next)
          /\ drv'.pc = "arrive" => drv.init = drv.next
      BY <1>2 DEF Aim, AgentInv, AgentTypeOK, DriveLabels
    <2> QED
      BY <2>1, <2>2, <2>3 DEF PoseInv
  <1>3. CASE StartChangeDirection
    <2>1. /\ faults = {} /\ moving = {}
          /\ Cause(velocity = 0 /\ TurnDegrees(direction, drv.after) \notin {0, 360},
                   "velocity") = {}
      BY <1>3, Blameless DEF StartChangeDirection, StartTurn, Cause
    <2>2. heading = direction /\ cell = pos /\ drv.init = pos
      BY <1>3, <2>1 DEF StartChangeDirection, PoseInv
    <2>3. heading' = drv.after
      <3>1. direction \in Directions /\ drv.after \in Directions /\ velocity \in Int
        BY AgentAssumption DEF AgentInv, AgentTypeOK
      <3>2. heading' = TurnXDegrees(heading, TurnDegrees(direction, drv.after), velocity)
        BY <1>3 DEF StartChangeDirection, StartTurn
      <3> QED
        BY <2>1, <2>2, <3>1, <3>2, TurnReaches
    <2>4. /\ cell' = cell /\ pos' = pos /\ moving' = {Drive}
          /\ drv'.pc = "turning" /\ drv'.init = drv.init /\ drv'.after = drv.after
      BY <1>3, <2>1 DEF StartChangeDirection, StartTurn, AgentInv, AgentTypeOK
    <2> QED
      BY <2>2, <2>3, <2>4 DEF PoseInv
  <1>4. CASE EndChangeDirection
    <2>1. /\ drv.pc = "turning" /\ faults = {}
          /\ UNCHANGED <<pos, cell, heading>>
          /\ direction' = drv.after /\ moving' = moving \ {Drive}
          /\ drv'.pc = "advance" /\ drv'.init = drv.init
      BY <1>4 DEF EndChangeDirection, StopWheels, AgentInv, AgentTypeOK
    <2> QED
      BY <2>1 DEF PoseInv
  <1>5. CASE StartDrive
    <2>1. /\ faults = {} /\ moving = {} /\ direction = drv.after
          /\ velocity # 0 /\ drv.after = Facing(drv.init, drv.next, velocity)
      BY <1>5, Blameless DEF StartDrive, Cause
    <2>2. heading = Facing(drv.init, drv.next, velocity) /\ cell = drv.init
          /\ drv.init = pos
      BY <1>5, <2>1 DEF StartDrive, PoseInv
    <2>3. cell' = drv.next
      <3>1. /\ drv.init \in Int \X Int /\ drv.next \in Cells
            /\ drv.next \in Int \X Int /\ velocity \in Int
            /\ Connected(drv.init, drv.next) /\ drv.init # drv.next
        BY <1>5, AgentAssumption DEF StartDrive, AgentInv, AgentTypeOK, StepLocals
      <3>2. DriveXDistance(drv.init, Facing(drv.init, drv.next, velocity),
                           IsDiagonal(Bearing(drv.init, drv.next)), velocity)
              = drv.next
        BY <2>1, <3>1, StepReaches
      <3>3. cell' = Settle(DriveXDistance(cell, heading,
                           IsDiagonal(Bearing(drv.init, drv.next)), velocity))
        BY <1>5, <2>1 DEF StartDrive
      <3> QED
        BY <2>2, <3>1, <3>2, <3>3 DEF Settle
    <2>4. /\ drv'.pc = "moving" /\ drv'.init = drv.init /\ drv'.next = drv.next
          /\ pos' = pos /\ direction' = direction /\ heading' = heading
          /\ moving' = {Drive}
      BY <1>5, <2>1 DEF StartDrive, AgentInv, AgentTypeOK
    <2> QED
      BY <2>1, <2>2, <2>3, <2>4 DEF PoseInv
  <1>6. CASE EndDrive
    <2>1. /\ drv.pc = "moving" /\ faults = {}
          /\ UNCHANGED <<pos, cell, heading, direction>>
          /\ moving' = moving \ {Drive}
          /\ drv'.pc = "arrive" /\ drv'.next = drv.next
      BY <1>6 DEF EndDrive, StopWheels, AgentInv, AgentTypeOK
    <2> QED
      BY <2>1 DEF PoseInv
  <1>7. CASE Arrive
    <2>1. /\ drv.pc = "arrive" /\ faults = {}
          /\ UNCHANGED <<cell, heading, direction, moving>>
          /\ pos' = drv.next /\ drv'.pc = "pop"
      BY <1>7 DEF Arrive, AgentInv, AgentTypeOK
    <2> QED
      BY <2>1 DEF PoseInv
  <1> QED
    BY <1>1, <1>2, <1>3, <1>4, <1>5, <1>6, <1>7 DEF DriveThread

-----------------------------------------------------------------------------
(* What the drive thread leaves to the other threads.                        *)

\* It adds and removes only itself from the threads that move the robot, and it
\* never clears the record of a fault.
LEMMA DriveFrame ==
  ASSUME DriveThread
  PROVE  /\ moving' \in {moving, moving \cup {Drive}, moving \ {Drive}}
         /\ faults' = {} => faults = {}
         /\ UNCHANGED <<spinning, velocity, done>>
PROOF
  <1>1. CASE FetchInit \/ FetchNext
    <2>1. /\ UNCHANGED <<moving, spinning, velocity, done>>
          /\ faults' = faults \cup Cause(deficit > 0, "ghost")
      BY <1>1 DEF FetchInit, FetchNext
    <2> QED
      BY <2>1
  <1>2. CASE ~(FetchInit \/ FetchNext)
    BY <1>2 DEF DriveThread, EnterStepPath, CheckPath, Relock, Guard, Commit, Aim,
         StartChangeDirection, EndChangeDirection, StartDrive, EndDrive, Arrive,
         PopFront, Shrink, Pause, Release, Unlock, StartTurn, StopWheels, Blame, body
  <1> QED
    BY <1>1, <1>2

\* Outside its turn and its drive the robot keeps its heading.
LEMMA DriveKeepsHeading ==
  ASSUME DriveThread, AgentInv,
         drv.pc \notin {"turning", "moving"}, drv'.pc \notin {"turning", "moving"}
  PROVE  UNCHANGED <<heading, direction>>
PROOF
  <1>1. CASE EnterStepPath \/ CheckPath \/ Relock \/ Guard \/ Commit \/ FetchInit
             \/ FetchNext \/ Aim
    BY <1>1 DEF EnterStepPath, CheckPath, Relock, Guard, Commit, FetchInit, FetchNext,
         Aim, body
  <1>2. CASE StartChangeDirection \/ EndChangeDirection \/ StartDrive \/ EndDrive
    BY <1>2 DEF StartChangeDirection, EndChangeDirection, StartDrive, EndDrive, At, Goto,
         AgentInv, AgentTypeOK
  <1>3. CASE Arrive \/ PopFront \/ Shrink \/ Pause \/ Release \/ Unlock
    BY <1>3 DEF Arrive, PopFront, Shrink, Pause, Release, Unlock, body
  <1> QED
    BY <1>1, <1>2, <1>3 DEF DriveThread

\* It changes the path only by popping a position, at the end of a step that began
\* with two positions to read, or with a vector in debt.
LEMMA DriveKeepsPath ==
  ASSUME DriveThread, AgentInv, drv.pc # "pop"
  PROVE  /\ UNCHANGED <<path, deficit>>
         /\ drv'.pc \in {"aim", "turn", "turning", "advance", "moving", "arrive", "pop"}
              => \/ drv.pc \in {"aim", "turn", "turning", "advance", "moving", "arrive"}
                 \/ drv.pc = "fetch1" /\ (Len(path) >= 2 \/ deficit > 0)
PROOF
  <1> USE DEF At, Goto, route, AgentInv, AgentTypeOK
  <1>1. CASE EnterStepPath \/ CheckPath \/ Relock \/ Guard \/ Commit \/ FetchInit
             \/ Shrink \/ Pause \/ Release \/ Unlock
    BY <1>1 DEF EnterStepPath, CheckPath, Relock, Guard, Commit, FetchInit, Shrink,
                Pause, Release, Unlock
  <1>2. CASE FetchNext
    BY <1>2 DEF FetchNext, Found
  <1>3. CASE Aim \/ StartChangeDirection \/ EndChangeDirection \/ StartDrive
             \/ EndDrive \/ Arrive
    BY <1>3 DEF Aim, StartChangeDirection, EndChangeDirection, StartDrive, EndDrive,
                Arrive
  <1>4. ~PopFront
    BY DEF PopFront
  <1> QED
    BY <1>1, <1>2, <1>3, <1>4 DEF DriveThread

\* It is about to set the driving flag only after it has found it clear.
LEMMA DriveReachesCommit ==
  ASSUME DriveThread, AgentInv, drv'.pc = "commit"
  PROVE  ~driving'
PROOF
  <1> USE DEF At, Goto, AgentInv, AgentTypeOK
  <1>1. CASE Guard
    BY <1>1 DEF Guard, MayDrive
  <1>2. CASE EnterStepPath \/ CheckPath \/ Relock \/ Commit \/ FetchInit \/ FetchNext
             \/ Aim \/ StartChangeDirection \/ EndChangeDirection
    BY <1>2 DEF EnterStepPath, CheckPath, Relock, Commit, FetchInit, FetchNext, Aim,
                StartChangeDirection, EndChangeDirection
  <1>3. CASE StartDrive \/ EndDrive \/ Arrive \/ PopFront \/ Shrink \/ Pause \/ Release
             \/ Unlock
    BY <1>3 DEF StartDrive, EndDrive, Arrive, PopFront, Shrink, Pause, Release, Unlock
  <1> QED
    BY <1>1, <1>2, <1>3 DEF DriveThread

\* The invariant survives what another thread does, if that leaves alone the drive
\* thread's locals and the set of threads that move the robot.
LEMMA OthersKeepAgent ==
  ASSUME AgentInv, UNCHANGED <<drv, moving>>, AgentTypeOK'
  PROVE  AgentInv'
PROOF
  BY DEF AgentInv, StepLocals, DriveMoves

\* A spin leaves the robot facing where it faced.
LEMMA SpinKeepsHeading ==
  ASSUME NEW h \in Directions, NEW v \in Int
  PROVE  TurnXDegrees(h, 360, v) = h
PROOF
  BY DEF TurnXDegrees, Sign, AbsOf, Directions
=============================================================================

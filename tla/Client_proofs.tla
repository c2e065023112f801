---------------------------- MODULE Client_proofs ----------------------------
(* Safety of client mode, for every floor, set of plans, velocities and      *)
(* commands of the server.                                                   *)
EXTENDS Client, Agent_proofs

\* Main and update are inside their critical sections exactly while they own the
\* mutex of tcpclient.cpp.
LockInv ==
  /\ main.pc \in Commanding <=> tcpLock = Main
  /\ upd.pc = "read" <=> tcpLock = Update

\* The main thread commands the wheels exactly while it spins or turns the robot.
MainMoves == Main \in moving <=> main.pc \in {"spinning", "changing"}

\* While only the main thread moves the robot, a spin leaves it facing direction and
\* a turn brings it to the direction asked for.
MainPose ==
  faults = {} /\ Main \in moving =>
    heading = IF main.pc = "changing" THEN main.after ELSE direction

\* A drive thread about to set the flag has found it clear, and nobody else sets it.
CommitInv == drv.pc = "commit" => ~driving

\* A position is pushed that is there.
TodoInv == main.pc = "push" => main.todo # << >>

ClientInv ==
  /\ TypeOK /\ AgentInv /\ LockInv /\ MainMoves
  /\ PoseInv /\ MainPose /\ CommitInv /\ TodoInv

-----------------------------------------------------------------------------
LEMMA ClientInitInv == Init => ClientInv
PROOF
  <1> SUFFICES ASSUME Init
               PROVE  ClientInv
    OBVIOUS
  <1> USE DEF Init, ClientInit
  <1>1. AgentInv
    BY AgentInitInv
  <1>2. main \in [pc : MainLabels, todo : Seq(Cells), after : Directions]
    BY DEF MainIdle, MainLabels, EAST, Directions
  <1>3. upd \in [pc : {"sleep", "read", "exited"}, row : Int]
    OBVIOUS
  <1>4. TypeOK
    BY <1>1, <1>2, <1>3 DEF AgentInv, TypeOK, ClientTypeOK
  <1>5. LockInv /\ MainMoves /\ MainPose /\ CommitInv /\ TodoInv
    BY AgentAssumption, ClientAssumption
    DEF LockInv, Commanding, Rebuilding, AgentInit, MainMoves, MainPose, CommitInv, TodoInv, MainIdle
  <1>6. PoseInv
    BY DEF AgentInit, PoseInv
  <1> QED
    BY <1>1, <1>4, <1>5, <1>6 DEF ClientInv

LEMMA DriveStepInv ==
  ASSUME ClientInv, DriveThread, UNCHANGED clientVars
  PROVE  ClientInv'
PROOF
  <1>1. AgentInv' /\ PoseInv'
    BY DriveThreadInv, DriveThreadPose DEF ClientInv
  <1>2. TypeOK'
    BY <1>1 DEF ClientInv, TypeOK, ClientTypeOK, clientVars, AgentInv
  <1>3. LockInv'
    BY DEF ClientInv, LockInv, clientVars
  <1>4. moving' \in {moving, moving \cup {Drive}, moving \ {Drive}}
    BY DriveFrame
  <1>5. MainMoves'
    BY <1>4, ClientAssumption DEF ClientInv, MainMoves, clientVars
  <1>6. MainPose'
    <2> SUFFICES ASSUME faults' = {}, Main \in moving'
                 PROVE  MainPose'
      BY DEF MainPose
    <2>1. Main \in moving /\ faults = {}
      BY <1>4, DriveFrame, ClientAssumption
    <2>2. moving' = {Main} /\ Drive \notin moving
      BY <1>1, <2>1, ClientAssumption DEF ClientInv, PoseInv
    <2>3. drv.pc \notin {"turning", "moving"} /\ drv'.pc \notin {"turning", "moving"}
      BY <1>1, <2>2, ClientAssumption DEF ClientInv, AgentInv, DriveMoves
    <2>4. UNCHANGED <<heading, direction>>
      BY <2>3, DriveKeepsHeading DEF ClientInv
    <2> QED
      BY <2>1, <2>4 DEF ClientInv, MainPose, clientVars
  <1>7. CommitInv' /\ TodoInv'
    BY DriveReachesCommit DEF ClientInv, CommitInv, TodoInv, clientVars
  <1> QED
    BY <1>1, <1>2, <1>3, <1>5, <1>6, <1>7 DEF ClientInv

LEMMA UpdateStepInv ==
  ASSUME ClientInv, UpdateThread
  PROVE  ClientInv'
PROOF
  <1> USE DEF ClientInv
  <1>1. UNCHANGED <<agentVars, main, agent>>
    BY DEF UpdateThread, ReadRow, ReadRest
  <1>2. LockInv'
    BY AgentAssumption, ClientAssumption DEF UpdateThread, ReadRow, ReadRest, LockInv
  <1>3. tcpLock' \in {Nobody, Main, Update}
    BY DEF UpdateThread, ReadRow, ReadRest
  <1>4. upd' \in [pc : {"sleep", "read", "exited"}, row : Int]
    <2>1. pos[1] \in Int
      BY AgentAssumption DEF TypeOK, ClientTypeOK, AgentTypeOK
    <2> QED
      BY <2>1 DEF UpdateThread, ReadRow, ReadRest
  <1>5. AgentInv'
    BY <1>1 DEF AgentInv, AgentTypeOK, StepLocals, DriveMoves, agentVars
  <1>6. TypeOK'
    BY <1>1, <1>3, <1>4, <1>5 DEF TypeOK, ClientTypeOK, AgentInv
  <1> QED
    BY <1>1, <1>2, <1>5, <1>6 DEF agentVars, MainMoves, PoseInv, MainPose, CommitInv, TodoInv

LEMMA MainStepInv ==
  ASSUME ClientInv, MainThread
  PROVE  ClientInv'
PROOF
  <1> USE DEF ClientInv
  <1> DEFINE MainSet == [pc : MainLabels, todo : Seq(Cells), after : Directions]
  <1>0. main \in MainSet /\ MainIdle \in MainSet
    BY DEF TypeOK, ClientTypeOK, MainIdle, MainLabels, Directions, EAST
  <1>1. CASE RecvPath \/ RecvSpin \/ WaitToFinishDriving \/ RecvDirection \/ Exit
    <2>1. /\ UNCHANGED <<agentVars, tcpLock, upd, agent>>
          /\ main.pc \notin Commanding /\ main'.pc \notin Commanding
      BY <1>0, <1>1
      DEF Commanding, Rebuilding, RecvPath, RecvSpin, WaitToFinishDriving, RecvDirection, Exit, Receiving
    <2>2. main' \in MainSet /\ TodoInv'
      BY <1>0, <1>1, AgentAssumption
      DEF RecvPath, RecvSpin, WaitToFinishDriving, RecvDirection, Exit, MainLabels, TodoInv
    <2>3. TypeOK' /\ AgentInv'
      BY <2>1, <2>2, OthersKeepAgent DEF TypeOK, ClientTypeOK, AgentTypeOK, agentVars
    <2> QED
      BY <2>1, <2>2, <2>3 DEF agentVars, LockInv, Commanding, Rebuilding, MainMoves,
         PoseInv, MainPose, CommitInv
  <1>2. CASE LockToClear \/ TestEmpty \/ PopBack \/ ResetSize \/ CountPosition
             \/ AddPosition \/ EndPath
    <2>1. /\ UNCHANGED <<pos, direction, spinning, driving, velocity, done, agentLock,
                         drv, cell, heading, moving, faults, upd, agent>>
          /\ main.pc \in {"clear"} \cup Rebuilding
          /\ main'.pc \in {"recv"} \cup Rebuilding
      <3>1. UNCHANGED <<pos, direction, spinning, driving, velocity, done, agentLock,
                        drv, cell, heading, moving, faults, upd, agent>>
        <4>1. CASE LockToClear \/ TestEmpty \/ EndPath
          BY <4>1 DEF LockToClear, TestEmpty, EndPath, agentVars
        <4>2. CASE PopBack \/ ResetSize \/ CountPosition \/ AddPosition
          BY <4>2 DEF PopBack, ResetSize, CountPosition, AddPosition, body
        <4> QED
          BY <1>2, <4>1, <4>2
      <3>2. CASE LockToClear \/ TestEmpty \/ PopBack \/ ResetSize \/ CountPosition
        BY <1>0, <3>1, <3>2
        DEF LockToClear, TestEmpty, PopBack, ResetSize, CountPosition, Rebuilding
      <3>3. CASE AddPosition
        <4>1. main.pc = "push" /\ main' = [main EXCEPT !.pc = "add", !.todo = Tail(@)]
          BY <3>3 DEF AddPosition
        <4> QED
          BY <1>0, <3>1, <4>1 DEF Rebuilding
      <3>4. CASE EndPath
        BY <3>1, <3>4 DEF EndPath, MainIdle, Rebuilding
      <3> QED
        BY <1>2, <3>2, <3>3, <3>4
    <2>2. path' \in Seq(Cells) /\ deficit' \in Nat /\ size' \in Int /\ main' \in MainSet
      <3>2. path \in Seq(Cells) /\ deficit \in Nat /\ size \in Int
        BY DEF TypeOK, ClientTypeOK, AgentTypeOK
      <3>3. CASE LockToClear \/ TestEmpty \/ EndPath
        <4>1. UNCHANGED <<path, deficit, size>>
          BY <3>3 DEF LockToClear, TestEmpty, EndPath, agentVars
        <4>2. main' \in MainSet
          BY <1>0, <3>3 DEF LockToClear, TestEmpty, EndPath, MainLabels
        <4> QED
          BY <3>2, <4>1, <4>2
      <3>4. CASE PopBack
        <4>1. main' \in MainSet /\ size' = size
          BY <1>0, <3>4 DEF PopBack, MainLabels
        <4>2. CASE path = << >>
          <5>1. path' = path /\ deficit' \in {1, deficit}
            BY <3>4, <4>2 DEF PopBack
          <5> QED
            BY <3>2, <4>1, <5>1
        <4>3. CASE path # << >>
          <5>1. path' = SubSeq(path, 1, Len(path) - 1) /\ deficit' = deficit
            BY <3>4, <4>3 DEF PopBack
          <5>2. Len(path) - 1 \in 0..Len(path)
            BY <3>2, <4>3
          <5>3. path' \in Seq(Cells)
            BY <3>2, <5>1, <5>2, SubSeqProperties
          <5> QED
            BY <3>2, <4>1, <5>1, <5>3
        <4> QED
          BY <4>2, <4>3
      <3>5. CASE ResetSize \/ CountPosition
        <4>1. UNCHANGED <<path, deficit>> /\ size' \in {0, size + 1}
          BY <3>5 DEF ResetSize, CountPosition
        <4>2. main' \in MainSet
          BY <1>0, <3>5 DEF ResetSize, CountPosition, MainLabels
        <4> QED
          BY <3>2, <4>1, <4>2
      <3>6. CASE AddPosition
        <4>0. main.todo # << >> /\ Head(main.todo) \in Cells /\ Tail(main.todo) \in Seq(Cells)
          BY <1>0, <3>6, TailOfPath DEF AddPosition, TodoInv
        <4>1. main' \in MainSet /\ size' = size
          BY <1>0, <3>6, <4>0 DEF AddPosition, MainLabels
        <4>2. CASE deficit = 0
          <5>1. path' = Append(path, Head(main.todo)) /\ deficit' = deficit
            BY <3>6, <4>2 DEF AddPosition
          <5>2. Append(path, Head(main.todo)) \in Seq(Cells)
            BY <3>2, <4>0
          <5> QED
            BY <3>2, <4>1, <5>1, <5>2
        <4>3. CASE deficit # 0
          <5>1. path' = path /\ deficit' = deficit - 1
            BY <3>6, <4>3 DEF AddPosition
          <5> QED
            BY <3>2, <4>1, <4>3, <5>1
        <4> QED
          BY <4>2, <4>3
      <3> QED
        BY <1>2, <3>3, <3>4, <3>5, <3>6
    <2>3. AgentTypeOK'
      BY <2>1, <2>2 DEF TypeOK, ClientTypeOK, AgentTypeOK
    <2>5. LockInv'
      <3>1. CASE LockToClear
        BY <1>0, <3>1, AgentAssumption, ClientAssumption
        DEF LockToClear, LockInv, Commanding, Rebuilding
      <3>2. CASE TestEmpty \/ PopBack \/ ResetSize \/ CountPosition \/ AddPosition
        <4>1. /\ UNCHANGED <<tcpLock, upd>> /\ main.pc \in Rebuilding
              /\ main'.pc \in Rebuilding
          BY <1>0, <3>2 DEF TestEmpty, PopBack, ResetSize, CountPosition, AddPosition,
             Rebuilding
        <4> QED
          BY <4>1 DEF LockInv, Commanding
      <3>3. CASE EndPath
        BY <3>3, AgentAssumption, ClientAssumption
        DEF EndPath, LockInv, MainIdle, Commanding, Rebuilding
      <3> QED
        BY <1>2, <3>1, <3>2, <3>3
    <2>4. TypeOK' /\ AgentInv'
      <3>1. tcpLock' \in {Main, Nobody, tcpLock}
        BY <1>2 DEF LockToClear, TestEmpty, PopBack, ResetSize, CountPosition,
           AddPosition, EndPath
      <3> QED
        BY <2>1, <2>2, <2>3, <3>1, OthersKeepAgent DEF TypeOK, ClientTypeOK
    <2>6. TodoInv'
      <3>1. CASE CountPosition
        BY <1>0, <3>1 DEF CountPosition, TodoInv
      <3>2. CASE ~CountPosition
        <4>1. CASE LockToClear \/ TestEmpty \/ PopBack \/ ResetSize \/ EndPath
          BY <1>0, <4>1 DEF LockToClear, TestEmpty, PopBack, ResetSize, EndPath, MainIdle,
             TodoInv
        <4>2. CASE AddPosition
          <5>1. main' = [main EXCEPT !.pc = "add", !.todo = Tail(@)]
            BY <4>2 DEF AddPosition
          <5> QED
            BY <1>0, <5>1 DEF TodoInv
        <4> QED
          BY <1>2, <3>2, <4>1, <4>2
      <3> QED
        BY <3>1, <3>2
    <2> QED
      BY <2>1, <2>4, <2>5, <2>6 DEF MainMoves, PoseInv, MainPose, CommitInv, Rebuilding
  <1>3. CASE SetSpinning \/ RecvVelocity \/ Quit \/ DeleteAgent
    <2>1. /\ UNCHANGED <<path, deficit, size, pos, direction, driving, agentLock,
                         drv, cell, heading, moving, faults, upd>>
          /\ main.pc \in {"lock", "recv", "teardown"}
          /\ main'.pc \in {"spin", "recv", "teardown", "exiting"}
      BY <1>0, <1>3
      DEF SetSpinning, RecvVelocity, Quit, DeleteAgent, Receiving, route, body,
          agentVars, clientVars
    <2>2. /\ spinning' \in BOOLEAN /\ velocity' \in Velocities /\ done' \in BOOLEAN
          /\ main' \in MainSet /\ agent' \in {"live", "deleted"}
          /\ tcpLock' \in {Main, tcpLock}
      BY <1>0, <1>3
      DEF SetSpinning, RecvVelocity, Quit, DeleteAgent, clientVars, agentVars,
          TypeOK, ClientTypeOK, AgentTypeOK, MainLabels
    <2>3. AgentTypeOK'
      BY <2>1, <2>2 DEF TypeOK, ClientTypeOK, AgentTypeOK
    <2>4. TypeOK' /\ AgentInv'
      BY <2>1, <2>2, <2>3, OthersKeepAgent DEF TypeOK, ClientTypeOK
    <2>5. LockInv'
      BY <1>0, <1>3, <2>1, AgentAssumption, ClientAssumption
      DEF SetSpinning, RecvVelocity, Quit, DeleteAgent, Receiving, LockInv, Commanding,
          Rebuilding, clientVars
    <2> QED
      BY <2>1, <2>4, <2>5 DEF MainMoves, PoseInv, MainPose, CommitInv, TodoInv
  <1>4. CASE StartSpin \/ StartChange
    <2>1. /\ UNCHANGED <<path, deficit, size, pos, direction, spinning, driving, velocity,
                         done, agentLock, drv, upd, agent>>
          /\ main.pc \in {"spin", "change"}
          /\ main' = [main EXCEPT !.pc = IF main.pc = "spin" THEN "spinning"
                                                            ELSE "changing"]
          /\ moving' = moving \cup {Main}
          /\ cell' = IF moving = {} THEN cell ELSE Lost
          /\ tcpLock' \in {Main, tcpLock}
      BY <1>4 DEF StartSpin, StartChange, StartTurn, route
    <2>2. main' \in MainSet
      BY <1>0, <2>1 DEF MainLabels
    <2>3. /\ faults' \subseteq Causes
          /\ faults' = {} => faults = {} /\ moving = {}
      <3>1. PICK failed \in BOOLEAN :
              Blame(Cause(moving # {}, "overlap") \cup Cause(failed, "velocity"))
        <4>1. CASE StartSpin
          BY <4>1 DEF StartSpin, StartTurn
        <4>2. CASE StartChange
          BY <4>2 DEF StartChange, StartTurn
        <4> QED
          BY <1>4, <4>1, <4>2
      <3>2. faults \subseteq Causes
        BY <1>0 DEF TypeOK, ClientTypeOK, AgentTypeOK
      <3>3. faults' \subseteq Causes
        BY <3>1, <3>2 DEF Blame, Cause, Causes
      <3>4. faults' = {} => faults = {} /\ moving = {}
        BY <3>1, Blameless DEF Cause
      <3> QED
        BY <3>3, <3>4
    <2>4. /\ direction \in Directions /\ heading \in Directions /\ velocity \in Int
          /\ main.after \in Directions
      BY <1>0, AgentAssumption DEF TypeOK, ClientTypeOK, AgentTypeOK
    <2>5. /\ heading' \in Directions
          /\ faults' = {} =>
               heading' = IF main.pc = "change" THEN main.after ELSE direction
      <3>1. CASE StartSpin
        <4>1. heading' = heading /\ main.pc = "spin"
          BY <2>4, <3>1, SpinKeepsHeading DEF StartSpin, StartTurn
        <4> QED
          BY <2>3, <2>4, <4>1 DEF PoseInv
      <3>2. CASE StartChange
        <4>1. /\ heading' = TurnXDegrees(heading, TurnDegrees(direction, main.after), velocity)
              /\ main.pc = "change"
          BY <3>2 DEF StartChange, StartTurn
        <4>2. heading' \in Directions
          BY <2>4, <4>1, TurnDegreesType, TurnXDegreesType
        <4>3. faults' = {} => heading = direction
          BY <2>3 DEF PoseInv
        <4>4. faults' = {} =>
                Cause(velocity = 0 /\ TurnDegrees(direction, main.after) \notin {0, 360},
                      "velocity") = {}
          BY <3>2, Blameless DEF StartChange, StartTurn
        <4> QED
          BY <2>4, <4>1, <4>2, <4>3, <4>4, TurnReaches
      <3> QED
        BY <1>4, <3>1, <3>2
    <2>6. AgentTypeOK'
      <3>1. cell' \in Cells \cup {Lost} /\ moving' \subseteq Threads
        BY <2>1, ClientAssumption DEF TypeOK, ClientTypeOK, AgentTypeOK
      <3> QED
        BY <2>1, <2>3, <2>5, <3>1 DEF TypeOK, ClientTypeOK, AgentTypeOK
    <2>7. AgentInv'
      BY <2>1, <2>6, ClientAssumption DEF AgentInv, StepLocals, DriveMoves
    <2>8. TypeOK'
      BY <2>1, <2>2, <2>6 DEF TypeOK, ClientTypeOK
    <2>9. LockInv'
      BY <1>0, <1>4, <2>1, AgentAssumption, ClientAssumption
      DEF StartSpin, StartChange, LockInv, Commanding, Rebuilding
    <2>10. PoseInv'
      BY <2>1, <2>3 DEF PoseInv, AgentInv, DriveMoves
    <2>11. MainPose' /\ MainMoves' /\ CommitInv' /\ TodoInv'
      BY <1>0, <2>1, <2>5 DEF MainPose, MainMoves, CommitInv, TodoInv
    <2> QED
      BY <2>7, <2>8, <2>9, <2>10, <2>11
  <1>5. CASE EndSpin \/ EndChange
    <2>1. /\ UNCHANGED <<path, deficit, size, pos, driving, velocity, done, agentLock, drv,
                         cell, heading, faults, upd, agent>>
          /\ main.pc \in {"spinning", "changing"} /\ main' = MainIdle
          /\ moving' = moving \ {Main} /\ tcpLock' = Nobody
          /\ direction' = IF main.pc = "changing" THEN main.after ELSE direction
          /\ spinning' \in {FALSE, spinning}
      BY <1>5 DEF EndSpin, EndChange, StopWheels, route
    <2>2. direction' \in Directions /\ spinning' \in BOOLEAN /\ moving' \subseteq Threads
      BY <1>0, <2>1 DEF TypeOK, ClientTypeOK, AgentTypeOK
    <2>3. AgentTypeOK'
      BY <2>1, <2>2 DEF TypeOK, ClientTypeOK, AgentTypeOK
    <2>4. AgentInv'
      BY <2>1, <2>3, ClientAssumption DEF AgentInv, StepLocals, DriveMoves
    <2>5. TypeOK'
      BY <1>0, <2>1, <2>3 DEF TypeOK, ClientTypeOK
    <2>6. LockInv' /\ MainMoves' /\ CommitInv' /\ MainPose' /\ TodoInv'
      BY <2>1, AgentAssumption, ClientAssumption
      DEF LockInv, Commanding, Rebuilding, MainMoves, CommitInv, MainPose, TodoInv, MainIdle
    <2>7. PoseInv'
      <3> SUFFICES ASSUME faults' = {}
                   PROVE  PoseInv'
        BY DEF PoseInv
      <3>1. faults = {} /\ moving = {Main} /\ heading = direction'
        BY <2>1 DEF PoseInv, MainMoves, MainPose
      <3>2. drv.pc \notin {"turning", "moving"}
        BY <3>1, ClientAssumption DEF AgentInv, DriveMoves
      <3> QED
        BY <2>1, <3>1, <3>2 DEF PoseInv
    <2> QED
      BY <2>4, <2>5, <2>6, <2>7
  <1> QED
    BY <1>1, <1>2, <1>3, <1>4, <1>5 DEF MainThread

LEMMA ClientNextInv == ClientInv /\ [Next]_vars => ClientInv'
PROOF
  <1> SUFFICES ASSUME ClientInv, [Next]_vars
               PROVE  ClientInv'
    OBVIOUS
  <1>1. CASE Next
    BY <1>1, DriveStepInv, UpdateStepInv, MainStepInv DEF Next
  <1>2. CASE UNCHANGED vars
    <2>1. UNCHANGED <<path, deficit, size, pos, direction, spinning, driving, velocity, done,
                      agentLock, drv, cell, heading, moving, faults,
                      tcpLock, main, upd, agent>>
      BY <1>2 DEF vars, agentVars, clientVars
    <2> QED
      BY <2>1 DEF ClientInv, TypeOK, ClientTypeOK, AgentTypeOK, AgentInv, StepLocals,
             DriveMoves, LockInv, MainMoves, PoseInv, MainPose, CommitInv, TodoInv
  <1> QED
    BY <1>1, <1>2

(* Every reachable state satisfies the inductive invariant.                  *)
THEOREM ClientInvariant == Spec => []ClientInv
PROOF
  BY ClientInitInv, ClientNextInv, PTL DEF Spec

-----------------------------------------------------------------------------
(* Every variable of client mode stays in its range.                         *)
THEOREM TypeCorrect == Spec => []TypeOK
PROOF
  <1>1. ClientInv => TypeOK
    BY DEF ClientInv
  <1> QED
    BY <1>1, ClientInvariant, PTL

(* The tracked pose is the robot's until one of the named causes occurs.     *)
THEOREM PoseIsExplained == Spec => []PoseExplained
PROOF
  <1>1. ClientInv => PoseExplained
    BY PoseInvExplains DEF ClientInv
  <1> QED
    BY <1>1, ClientInvariant, PTL

(* No command of the server is half done while a report is composed.         *)
THEOREM ReportsAreExclusive == Spec => []ReportsExcludeCommands
PROOF
  <1>1. ClientInv => ReportsExcludeCommands
    BY ClientAssumption DEF ClientInv, LockInv, ReportsExcludeCommands
  <1> QED
    BY <1>1, ClientInvariant, PTL

(* A drive thread that an exception has thrown out of a step never drives    *)
(* again: its own guard stays shut for ever, because the flag it left set is *)
(* cleared by no other step of any thread.                                   *)
THEOREM StrandedIsForEver == Spec => StrandedForEver
PROOF
  <1>1. ClientInv /\ [Next]_vars =>
          [Stranded => Stranded' /\ (Drive \in moving' => Drive \in moving)]_vars
    <2> SUFFICES ASSUME ClientInv, [Next]_vars, Stranded
                 PROVE  Stranded' /\ (Drive \in moving' => Drive \in moving)
      OBVIOUS
    <2>1. driving = TRUE /\ drv.pc \in {"enter", "check", "relock", "guard", "unlock", "exited"}
      BY DEF Stranded, DrivingLabels, ClientInv, CommitInv, AgentInv, AgentTypeOK, DriveLabels
    <2>2. CASE DriveThread
      <3>1. EnterStepPath \/ CheckPath \/ Relock \/ Guard \/ Unlock
        BY <2>1, <2>2 DEF DriveThread, At, Commit, FetchInit, FetchNext, Aim,
              StartChangeDirection, EndChangeDirection, StartDrive, EndDrive, Arrive,
              PopFront, Shrink, Pause, Release
      <3>2. /\ driving' = driving /\ moving' = moving
            /\ drv'.pc \in {"enter", "check", "relock", "guard", "unlock", "exited"}
        BY <2>1, <3>1
        DEF EnterStepPath, CheckPath, Relock, Guard, Unlock, MayDrive, Goto, body,
            ClientInv, AgentInv, AgentTypeOK
      <3> QED
        BY <2>1, <3>2 DEF Stranded, DrivingLabels
    <2>3. CASE UpdateThread
      BY <2>3 DEF UpdateThread, ReadRow, ReadRest, agentVars, Stranded
    <2>4. CASE MainThread
      <3>1. UNCHANGED <<driving, drv>>
        BY <2>4 DEF MainThread, RecvPath, LockToClear, TestEmpty, PopBack, ResetSize,
              CountPosition, AddPosition, EndPath, RecvSpin,
              WaitToFinishDriving, SetSpinning, StartSpin, EndSpin, RecvVelocity,
              RecvDirection, StartChange, EndChange, Quit, DeleteAgent, Exit, agentVars
      <3>2. moving' \in {moving, moving \cup {Main}, moving \ {Main}}
        BY <2>4 DEF MainThread, RecvPath, LockToClear, TestEmpty, PopBack, ResetSize,
              CountPosition, AddPosition, EndPath, RecvSpin,
              WaitToFinishDriving, SetSpinning, StartSpin, EndSpin, RecvVelocity,
              RecvDirection, StartChange, EndChange, Quit, DeleteAgent, Exit, agentVars,
              StartTurn, StopWheels, body
      <3> QED
        BY <3>1, <3>2, ClientAssumption DEF Stranded
    <2>5. CASE UNCHANGED vars
      BY <2>5 DEF vars, agentVars, Stranded
    <2> QED
      BY <2>2, <2>3, <2>4, <2>5 DEF Next
  <1> QED
    BY <1>1, ClientInvariant, PTL DEF Spec, StrandedForEver

-----------------------------------------------------------------------------
(* The path is a piece of one plan.  While getCommand rebuilds it, what is   *)
(* in the path is a piece of the plan that ends where what is still to be    *)
(* added begins: adding moves the end, popping moves the beginning.          *)
EndsAt(q, p, k) == q = << >> \/ \E i \in 1..k : q = SubSeq(p, i, k)

RebuildInv ==
  /\ main.pc \in {"clear", "test", "popback", "reset"} => main.todo \in Plans
  /\ main.pc = "reset" => path = << >>
  /\ main.pc \in {"add", "push"} =>
       \E p \in Plans : \E k \in 0..Len(p) :
         main.todo = SubSeq(p, k + 1, Len(p)) /\ EndsAt(path, p, k)

SliceInv == RebuildInv /\ PathIsPieceOfOnePlan

LEMMA AppendToPiece ==
  ASSUME NEW p \in Seq(Cells), NEW q \in Seq(Cells), NEW k \in 0..(Len(p) - 1),
         EndsAt(q, p, k)
  PROVE  \E i \in 1..(k + 1) : Append(q, p[k + 1]) = SubSeq(p, i, k + 1)
PROOF
  <1>0. k + 1 \in 1..Len(p) /\ Len(p) \in Nat /\ p[k + 1] \in Cells
    BY ElementOfSeq
  <1>1. CASE q = << >>
    <2>1. SubSeq(p, k + 1, k + 1) = SubSeq(p, k + 1, k) \o << p[k + 1] >>
      BY <1>0, SubSeqRecursiveSecond
    <2>2. SubSeq(p, k + 1, k) = << >>
      BY <1>0, SubSeqEmpty
    <2>3. Append(q, p[k + 1]) = << >> \o << p[k + 1] >>
      BY <1>0, <1>1, AppendIsConcat
    <2> QED
      BY <1>0, <2>1, <2>2, <2>3
  <1>2. CASE q # << >>
    <2>1. PICK i \in 1..k : q = SubSeq(p, i, k)
      BY <1>2 DEF EndsAt
    <2>2. SubSeq(p, i, k + 1) = SubSeq(p, i, k) \o << p[k + 1] >>
      <3>1. i \in 1..Len(p) /\ k + 1 \in i..Len(p) /\ (k + 1) - 1 = k
        BY <1>0
      <3>2. SubSeq(p, i, k + 1) = SubSeq(p, i, (k + 1) - 1) \o << p[k + 1] >>
        BY <3>1, SubSeqRecursiveSecond
      <3> QED
        BY <3>1, <3>2
    <2>3. Append(q, p[k + 1]) = q \o << p[k + 1] >>
      BY <1>0, AppendIsConcat
    <2>4. i \in 1..(k + 1)
      OBVIOUS
    <2> QED
      BY <2>1, <2>2, <2>3, <2>4
  <1> QED
    BY <1>1, <1>2

LEMMA TailOfPiece ==
  ASSUME NEW p \in Seq(Cells), NEW i \in 1..Len(p), NEW j \in i..Len(p),
         SubSeq(p, i, j) # << >>
  PROVE  /\ Tail(SubSeq(p, i, j)) = SubSeq(p, i + 1, j)
         /\ Tail(SubSeq(p, i, j)) = << >> \/ i + 1 \in 1..j
PROOF
  <1>1. Tail(SubSeq(p, i, j)) = SubSeq(p, i + 1, j)
    BY HeadTailOfSubSeq
  <1>2. i + 1 > j => SubSeq(p, i + 1, j) = << >>
    BY SubSeqEmpty
  <1> QED
    BY <1>1, <1>2

LEMMA FrontOfPiece ==
  ASSUME NEW p \in Seq(Cells), NEW i \in 1..Len(p), NEW j \in i..Len(p)
  PROVE  LET q == SubSeq(p, i, j) IN
           /\ SubSeq(q, 1, Len(q) - 1) = SubSeq(p, i, j - 1)
           /\ j = i => SubSeq(q, 1, Len(q) - 1) = << >>
PROOF
  <1> DEFINE q == SubSeq(p, i, j)
  <1>1. Len(q) = j - i + 1 /\ q \in Seq(Cells)
    BY SubSeqProperties
  <1>2. CASE j = i
    <2>1. SubSeq(p, i, j - 1) = << >> /\ SubSeq(q, 1, Len(q) - 1) = << >>
      BY <1>1, <1>2, SubSeqEmpty
    <2> QED
      BY <2>1
  <1>3. CASE j # i
    <2>1. SubSeq(q, 1, Len(q) - 1) = SubSeq(p, i + 1 - 1, i + (Len(q) - 1) - 1)
      BY <1>1, <1>3, SubSeqOfSubSeq
    <2> QED
      BY <1>1, <1>3, <2>1
  <1> QED
    BY <1>2, <1>3

LEMMA PieceIsPiece ==
  ASSUME NEW p \in Plans, NEW k \in 0..Len(p), EndsAt(path, p, k)
  PROVE  PathIsPieceOfOnePlan
PROOF
  <1>1. Len(p) \in Nat
    BY AgentAssumption
  <1>2. SUFFICES ASSUME path # << >>
                 PROVE  \E i \in 1..Len(p) : \E j \in i..Len(p) : path = SubSeq(p, i, j)
    BY DEF PathIsPieceOfOnePlan
  <1>3. PICK i \in 1..k : path = SubSeq(p, i, k)
    BY <1>2 DEF EndsAt
  <1>4. i \in 1..Len(p) /\ k \in i..Len(p)
    BY <1>1
  <1> QED
    BY <1>3, <1>4

LEMMA SliceInit == Init => SliceInv
PROOF
  BY DEF Init, ClientInit, AgentInit, MainIdle, SliceInv, RebuildInv,
         PathIsPieceOfOnePlan

LEMMA SliceKept ==
  ASSUME SliceInv, path' = path, main' = main
  PROVE  SliceInv'
PROOF
  BY DEF SliceInv, RebuildInv, EndsAt, PathIsPieceOfOnePlan

LEMMA SlicePop ==
  ASSUME SliceInv, PopFront, main' = main
  PROVE  SliceInv'
PROOF
  <1>1. CASE path = << >>
    BY <1>1, SliceKept DEF PopFront
  <1>2. CASE path # << >>
    <2>0. path' = Tail(path)
      BY <1>2 DEF PopFront
    <2>1. RebuildInv'
      <3>1. SUFFICES ASSUME main.pc \in {"add", "push"}
                     PROVE  \E p \in Plans : \E k \in 0..Len(p) :
                              main.todo = SubSeq(p, k + 1, Len(p)) /\ EndsAt(path', p, k)
        BY <1>2 DEF SliceInv, RebuildInv, EndsAt
      <3>2. PICK p \in Plans : \E k \in 0..Len(p) :
              main.todo = SubSeq(p, k + 1, Len(p)) /\ EndsAt(path, p, k)
        BY <3>1 DEF SliceInv, RebuildInv
      <3>3. PICK k \in 0..Len(p) :
              main.todo = SubSeq(p, k + 1, Len(p)) /\ EndsAt(path, p, k)
        BY <3>2
      <3>4. PICK i \in 1..k : path = SubSeq(p, i, k)
        BY <1>2, <3>3 DEF EndsAt
      <3>5. p \in Seq(Cells) /\ i \in 1..Len(p) /\ k \in i..Len(p)
        BY AgentAssumption
      <3>6. EndsAt(path', p, k)
        BY <1>2, <2>0, <3>4, <3>5, TailOfPiece DEF EndsAt
      <3> QED
        BY <3>3, <3>6
    <2>2. PathIsPieceOfOnePlan'
      <3>1. PICK p \in Plans : \E i \in 1..Len(p) : \E j \in i..Len(p) : path = SubSeq(p, i, j)
        BY <1>2 DEF SliceInv, PathIsPieceOfOnePlan
      <3>2a. PICK i \in 1..Len(p) : \E j \in i..Len(p) : path = SubSeq(p, i, j)
        BY <3>1
      <3>2. PICK j \in i..Len(p) : path = SubSeq(p, i, j)
        BY <3>2a
      <3>3. p \in Seq(Cells)
        BY AgentAssumption
      <3>4. path' = << >> \/ (i + 1 \in 1..Len(p) /\ j \in (i + 1)..Len(p))
        BY <1>2, <2>0, <3>2, <3>3, TailOfPiece
      <3>5. path' = SubSeq(p, i + 1, j)
        BY <1>2, <2>0, <3>2, <3>3, TailOfPiece
      <3> QED
        BY <3>4, <3>5 DEF PathIsPieceOfOnePlan
    <2> QED
      BY <2>1, <2>2 DEF SliceInv
  <1> QED
    BY <1>1, <1>2

(* Clearing takes positions off the end of the piece.                        *)
LEMMA SlicePopBack ==
  ASSUME SliceInv, PopBack, TypeOK
  PROVE  SliceInv'
PROOF
  <1>1. main.pc = "popback" /\ main' = [main EXCEPT !.pc = "test"]
    BY DEF PopBack
  <1>2. main'.pc = "test" /\ main'.todo = main.todo
    BY <1>1 DEF TypeOK, ClientTypeOK
  <1>3. RebuildInv'
    BY <1>1, <1>2 DEF SliceInv, RebuildInv
  <1>4. CASE path = << >>
    <2>1. path' = path
      BY <1>4 DEF PopBack
    <2> QED
      BY <1>3, <1>4, <2>1 DEF SliceInv, PathIsPieceOfOnePlan
  <1>5. CASE path # << >>
    <2>1. PICK p \in Plans : \E i \in 1..Len(p) : \E j \in i..Len(p) : path = SubSeq(p, i, j)
      BY <1>5 DEF SliceInv, PathIsPieceOfOnePlan
    <2>2. PICK i \in 1..Len(p) : \E j \in i..Len(p) : path = SubSeq(p, i, j)
      BY <2>1
    <2>3. PICK j \in i..Len(p) : path = SubSeq(p, i, j)
      BY <2>2
    <2>4. p \in Seq(Cells) /\ Len(p) \in Nat
      BY AgentAssumption
    <2>5. path' = SubSeq(path, 1, Len(path) - 1)
      BY <1>5 DEF PopBack
    <2>6. path' = SubSeq(p, i, j - 1) /\ (j = i => path' = << >>)
      BY <2>3, <2>4, <2>5, FrontOfPiece
    <2>7. CASE j = i
      BY <1>3, <2>6, <2>7 DEF SliceInv, PathIsPieceOfOnePlan
    <2>8. CASE j # i
      <3>1. j - 1 \in i..Len(p)
        BY <2>4, <2>8
      <3> QED
        BY <1>3, <2>6, <3>1 DEF SliceInv, PathIsPieceOfOnePlan
    <2> QED
      BY <2>7, <2>8
  <1> QED
    BY <1>4, <1>5

LEMMA SliceReset ==
  ASSUME SliceInv, ResetSize, TypeOK
  PROVE  SliceInv'
PROOF
  <1>1. /\ main.todo \in Plans /\ path' = path /\ path = << >>
        /\ main' = [main EXCEPT !.pc = "add"]
    BY DEF ResetSize, SliceInv, RebuildInv
  <1>2. main'.pc = "add" /\ main'.todo = main.todo
    BY <1>1 DEF TypeOK, ClientTypeOK
  <1>3. main.todo \in Seq(Cells) /\ Len(main.todo) \in Nat
    BY <1>1, AgentAssumption
  <1>4. main.todo = SubSeq(main.todo, 0 + 1, Len(main.todo))
    BY <1>3, SubSeqFull
  <1>5. EndsAt(path', main.todo, 0) /\ 0 \in 0..Len(main.todo)
    BY <1>1, <1>3 DEF EndsAt
  <1>6. RebuildInv'
    BY <1>1, <1>2, <1>4, <1>5 DEF RebuildInv, EndsAt
  <1> QED
    BY <1>1, <1>6 DEF SliceInv, PathIsPieceOfOnePlan

LEMMA SliceAdd ==
  ASSUME SliceInv, AddPosition, TypeOK, TodoInv, deficit # 0 => path = << >>
  PROVE  SliceInv'
PROOF
  <1>1. /\ main.pc = "push" /\ main.todo # << >>
        /\ main' = [main EXCEPT !.pc = "add", !.todo = Tail(@)]
    BY DEF AddPosition, TodoInv
  <1>2. main'.pc = "add" /\ main'.todo = Tail(main.todo)
    BY <1>1 DEF TypeOK, ClientTypeOK
  <1>3. PICK p \in Plans : \E k \in 0..Len(p) :
          main.todo = SubSeq(p, k + 1, Len(p)) /\ EndsAt(path, p, k)
    BY <1>1 DEF SliceInv, RebuildInv
  <1>4. PICK k \in 0..Len(p) :
          main.todo = SubSeq(p, k + 1, Len(p)) /\ EndsAt(path, p, k)
    BY <1>3
  <1>5. p \in Seq(Cells) /\ Len(p) \in Nat /\ path \in Seq(Cells)
    BY AgentAssumption DEF TypeOK, ClientTypeOK, AgentTypeOK
  <1>6. k < Len(p)
    <2>1. Len(p) < k + 1 => SubSeq(p, k + 1, Len(p)) = << >>
      BY <1>5, SubSeqEmpty
    <2> QED
      BY <1>1, <1>4, <1>5, <2>1
  <1>7. k + 1 \in 1..Len(p) /\ Len(p) \in (k + 1)..Len(p)
    BY <1>5, <1>6
  <1>8. Head(main.todo) = p[k + 1] /\ Tail(main.todo) = SubSeq(p, (k + 1) + 1, Len(p))
    BY <1>4, <1>5, <1>7, HeadTailOfSubSeq
  <1>9. EndsAt(path', p, k + 1)
    <2>1. CASE deficit = 0
      <3>1. path' = Append(path, p[k + 1])
        BY <1>8, <2>1 DEF AddPosition
      <3>2. k \in 0..(Len(p) - 1)
        BY <1>5, <1>6
      <3> QED
        BY <1>4, <1>5, <3>1, <3>2, AppendToPiece DEF EndsAt
    <2>2. CASE deficit # 0
      <3>1. path' = path
        BY <2>2 DEF AddPosition
      <3>2. path = << >>
        BY <2>2
      <3> QED
        BY <3>1, <3>2 DEF EndsAt
    <2> QED
      BY <2>1, <2>2
  <1>10. RebuildInv'
    <2>1. k + 1 \in 0..Len(p) /\ p \in Plans
      BY <1>5, <1>7
    <2>2. main'.todo = SubSeq(p, (k + 1) + 1, Len(p))
      BY <1>2, <1>8
    <2>3. EndsAt(path, p, k + 1)' <=> EndsAt(path', p, k + 1)
      BY DEF EndsAt
    <2>4. \E q \in Plans : \E n \in 0..Len(q) :
            main'.todo = SubSeq(q, n + 1, Len(q)) /\ EndsAt(path', q, n)
      BY <1>9, <2>1, <2>2
    <2> QED
      BY <1>2, <2>4 DEF RebuildInv, EndsAt
  <1>11. PathIsPieceOfOnePlan'
    <2>1. SUFFICES ASSUME path' # << >>
                   PROVE  \E i \in 1..Len(p) : \E j \in i..Len(p) : path' = SubSeq(p, i, j)
      BY DEF PathIsPieceOfOnePlan
    <2>2. PICK i \in 1..(k + 1) : path' = SubSeq(p, i, k + 1)
      BY <1>9, <2>1 DEF EndsAt
    <2>3. i \in 1..Len(p) /\ k + 1 \in i..Len(p)
      BY <1>5, <1>7
    <2> QED
      BY <2>2, <2>3
  <1> QED
    BY <1>10, <1>11 DEF SliceInv

-----------------------------------------------------------------------------
(* The debt.  A path is empty inside a step only while a rebuild is going on *)
(* that has not added its first position, and not between clear's test and   *)
(* its pop_back.  So the pop that ends the step, or the clear that met that   *)
(* pop, runs up a debt of one only then, and the drive thread cannot start   *)
(* another step before the first position has paid it, unless it is shown a  *)
(* cell that is not in the vector.                                          *)
InStep == {"aim", "turn", "turning", "advance", "moving", "arrive", "pop"}

AwaitsFirst ==
  \/ main.pc \in {"reset", "push"}
  \/ main.pc = "add" /\ main.todo # << >>

DebtPlace ==
  deficit # 0 =>
    /\ deficit = 1
    /\ Endless \/ AwaitsFirst
    /\ drv.pc \notin InStep \cup {"fetch1"}

StepPlace == drv.pc \in InStep /\ path = << >> => main.pc = "test" \/ AwaitsFirst

ClearPlace == main.pc = "popback" /\ path = << >> => drv.pc \notin InStep \cup {"fetch1"}

DebtInv ==
  /\ deficit # 0 => path = << >>
  /\ "ghost" \notin faults => DebtPlace /\ StepPlace /\ ClearPlace

LEMMA DebtInvPays == DebtInv => DebtIsPaid
PROOF
  BY DEF DebtInv, DebtPlace, DebtIsPaid, AwaitsFirst

LEMMA DebtInit == Init => DebtInv
PROOF
  BY DEF Init, ClientInit, AgentInit, MainIdle, DebtInv, DebtPlace, StepPlace, ClearPlace,
         InStep

LEMMA GhostStays ==
  ASSUME NEW causes, Blame(causes), "ghost" \in faults
  PROVE  "ghost" \in faults'
PROOF
  BY DEF Blame

LEMMA DebtDrive ==
  ASSUME DebtInv, TypeOK, DriveThread, main' = main
  PROVE  DebtInv'
PROOF
  <1>0. /\ path \in Seq(Cells) /\ deficit \in Nat
        /\ drv \in [pc : DriveLabels, init : Cells \cup {NoCell},
                    next : Cells \cup {NoCell}, after : Directions]
    BY DEF TypeOK, ClientTypeOK, AgentTypeOK
  <1>1. CASE PopFront
    <2>1. /\ drv.pc = "pop" /\ drv' = [drv EXCEPT !.pc = "shrink", !.init = NoCell,
                                                  !.next = NoCell, !.after = EAST]
          /\ faults' = faults
      BY <1>1 DEF PopFront, At, body
    <2>2. drv'.pc = "shrink"
      BY <1>0, <2>1
    <2>3. CASE path # << >>
      <3>1. deficit = 0 /\ deficit' = 0
        BY <1>1, <2>3 DEF PopFront, DebtInv
      <3> QED
        BY <2>2, <3>1 DEF DebtInv, DebtPlace, StepPlace, ClearPlace, InStep
    <2>4. CASE path = << >>
      <3>1. path' = << >> /\ deficit' = deficit + 1
        BY <1>1, <2>4 DEF PopFront
      <3>2. "ghost" \notin faults => deficit = 0 /\ (main.pc = "test" \/ AwaitsFirst)
        BY <2>1, <2>4 DEF DebtInv, DebtPlace, StepPlace, InStep
      <3>3. "ghost" \notin faults => DebtPlace'
        BY <2>2, <3>1, <3>2 DEF DebtPlace, Endless, AwaitsFirst, InStep
      <3> QED
        BY <2>1, <2>2, <3>1, <3>3 DEF DebtInv, StepPlace, ClearPlace, InStep
    <2> QED
      BY <2>3, <2>4
  <1>2. CASE ~PopFront
    <2>1. UNCHANGED <<path, deficit>>
      BY <1>2 DEF DriveThread, EnterStepPath, CheckPath, Relock, Guard, Commit, FetchInit,
         FetchNext, Aim, StartChangeDirection, EndChangeDirection, StartDrive, EndDrive,
         Arrive, Shrink, Pause, Release, Unlock, route
    <2>2. CASE FetchInit \/ FetchNext
      <3>1. deficit # 0 => "ghost" \in faults'
        <4>1. faults' = faults \cup Cause(deficit > 0, "ghost")
          BY <2>2 DEF FetchInit, FetchNext
        <4>2. deficit # 0 => deficit > 0
          BY <1>0
        <4> QED
          BY <4>1, <4>2 DEF Cause
      <3>2. "ghost" \in faults => "ghost" \in faults'
        BY <2>2 DEF FetchInit, FetchNext
      <3>3. deficit = 0 /\ drv'.pc \in InStep \cup {"fetch1"} => path # << >>
        <4>1. deficit = 0 /\ path = << >> => Found(1) = {} /\ Found(2) = {}
          BY DEF Found
        <4>2. deficit = 0 /\ path = << >> => drv'.pc = "enter"
          BY <1>0, <2>2, <4>1 DEF FetchInit, FetchNext, Goto
        <4> QED
          BY <4>2 DEF InStep
      <3> QED
        BY <2>1, <3>1, <3>2, <3>3 DEF DebtInv, DebtPlace, StepPlace, ClearPlace
    <2>3. CASE ~(FetchInit \/ FetchNext)
      <3>1. "ghost" \in faults => "ghost" \in faults'
        BY <1>2, <2>3, GhostStays
        DEF DriveThread, EnterStepPath, CheckPath, Relock, Guard, Commit,
            Aim, StartChangeDirection, EndChangeDirection, StartDrive, EndDrive,
            Arrive, Shrink, Pause, Release, Unlock, body, StartTurn
      <3>2. drv'.pc \in InStep \cup {"fetch1"} => drv.pc \in InStep /\ drv'.pc \in InStep
        <4>1. CASE EnterStepPath \/ CheckPath \/ Relock \/ Guard \/ Commit \/ Shrink
                   \/ Pause \/ Release \/ Unlock
          BY <1>0, <4>1 DEF EnterStepPath, CheckPath, Relock, Guard, Commit, Shrink, Pause,
             Release, Unlock, Goto, InStep
        <4>2. CASE Aim \/ StartChangeDirection \/ EndChangeDirection \/ StartDrive
                   \/ EndDrive \/ Arrive
          <5>1. drv.pc \in InStep
            BY <4>2 DEF Aim, StartChangeDirection, EndChangeDirection, StartDrive,
               EndDrive, Arrive, At, InStep
          <5>2. drv'.pc # "fetch1"
            BY <1>0, <4>2 DEF Aim, StartChangeDirection, EndChangeDirection, StartDrive,
               EndDrive, Arrive, Goto
          <5> QED
            BY <5>1, <5>2
        <4> QED
          BY <1>2, <2>3, <4>1, <4>2 DEF DriveThread
      <3> QED
        BY <2>1, <3>1, <3>2
        DEF DebtInv, DebtPlace, StepPlace, ClearPlace, Endless, AwaitsFirst
    <2> QED
      BY <2>2, <2>3
  <1> QED
    BY <1>1, <1>2

LEMMA DebtMain ==
  ASSUME DebtInv, TypeOK, RebuildInv, TodoInv, MainThread
  PROVE  DebtInv'
PROOF
  <1>0. /\ path \in Seq(Cells) /\ deficit \in Nat
        /\ main \in [pc : MainLabels, todo : Seq(Cells), after : Directions]
    BY DEF TypeOK, ClientTypeOK, AgentTypeOK
  <1>1. /\ drv' = drv
        /\ "ghost" \in faults => "ghost" \in faults'
    BY GhostStays
    DEF MainThread, RecvPath, LockToClear, TestEmpty, PopBack, ResetSize,
        CountPosition, AddPosition, EndPath, RecvSpin,
        WaitToFinishDriving, SetSpinning, StartSpin, EndSpin, RecvVelocity,
        RecvDirection, StartChange, EndChange, Quit, DeleteAgent, Exit, agentVars,
        body, StartTurn
  <1>2. CASE TestEmpty
    <2>1. /\ UNCHANGED <<path, deficit>> /\ main.pc = "test" /\ main'.todo = main.todo
          /\ main'.pc = IF path = << >> /\ deficit = 0 THEN "reset" ELSE "popback"
      BY <1>0, <1>2 DEF TestEmpty, agentVars
    <2> QED
      BY <1>0, <1>1, <2>1
      DEF DebtInv, DebtPlace, StepPlace, ClearPlace, Endless, AwaitsFirst
  <1>3. CASE PopBack
    <2>1. main.pc = "popback" /\ main'.pc = "test"
      BY <1>0, <1>3 DEF PopBack
    <2>2. CASE path = << >>
      <3>1. path' = << >> /\ deficit' = IF deficit = 0 THEN 1 ELSE deficit
        BY <1>3, <2>2 DEF PopBack
      <3> QED
        BY <1>0, <1>1, <2>1, <2>2, <3>1
        DEF DebtInv, DebtPlace, StepPlace, ClearPlace, Endless, AwaitsFirst
    <2>3. CASE path # << >>
      <3>1. deficit = 0 /\ deficit' = 0
        BY <1>3, <2>3 DEF PopBack, DebtInv
      <3> QED
        BY <1>1, <2>1, <3>1 DEF DebtInv, DebtPlace, StepPlace, ClearPlace
    <2> QED
      BY <2>2, <2>3
  <1>4. CASE ResetSize
    <2>1. /\ UNCHANGED <<path, deficit>> /\ main.pc = "reset" /\ main'.pc = "add"
          /\ main'.todo = main.todo
      BY <1>0, <1>4 DEF ResetSize
    <2>2. main.todo # << >>
      BY <2>1, ClientAssumption DEF RebuildInv
    <2> QED
      BY <1>1, <2>1, <2>2
      DEF DebtInv, DebtPlace, StepPlace, ClearPlace, Endless, AwaitsFirst
  <1>5. CASE CountPosition
    <2>1. UNCHANGED <<path, deficit>> /\ main.pc = "add" /\ main'.pc = "push"
      BY <1>0, <1>5 DEF CountPosition
    <2> QED
      BY <1>1, <2>1 DEF DebtInv, DebtPlace, StepPlace, ClearPlace, Endless, AwaitsFirst
  <1>6. CASE AddPosition
    <2>1. main.pc = "push" /\ main'.pc = "add" /\ faults' = faults
      BY <1>0, <1>6 DEF AddPosition, body
    <2>2. CASE deficit = 0
      <3>1. path' = Append(path, Head(main.todo)) /\ deficit' = 0
        BY <1>6, <2>2 DEF AddPosition
      <3>2. Head(main.todo) \in Cells
        BY <1>0, <2>1, TailOfPath DEF TodoInv
      <3>3. path' # << >>
        BY <1>0, <3>1, <3>2, AppendProperties
      <3> QED
        BY <1>1, <2>1, <3>1, <3>3 DEF DebtInv, DebtPlace, StepPlace, ClearPlace
    <2>3. CASE deficit # 0
      <3>1. path' = path /\ deficit' = deficit - 1 /\ path = << >>
        BY <1>6, <2>3 DEF AddPosition, DebtInv
      <3>2. "ghost" \notin faults => deficit' = 0 /\ drv.pc \notin InStep
        BY <2>3, <3>1 DEF DebtInv, DebtPlace
      <3> QED
        BY <1>1, <2>1, <3>1, <3>2 DEF DebtInv, DebtPlace, StepPlace, ClearPlace
    <2> QED
      BY <2>2, <2>3
  <1>7. CASE EndPath
    <2>1. /\ UNCHANGED <<path, deficit>> /\ main.pc = "add" /\ main.todo = << >>
          /\ main'.pc = "recv"
      BY <1>7 DEF EndPath, agentVars, MainIdle
    <2> QED
      BY <1>1, <2>1 DEF DebtInv, DebtPlace, StepPlace, ClearPlace, Endless, AwaitsFirst
  <1>8. CASE ~(TestEmpty \/ PopBack \/ ResetSize \/ CountPosition \/ AddPosition \/ EndPath)
    <2>1. UNCHANGED <<path, deficit>>
      BY <1>8 DEF MainThread, RecvPath, LockToClear, RecvSpin, WaitToFinishDriving,
         SetSpinning, StartSpin, EndSpin, RecvVelocity, RecvDirection, StartChange,
         EndChange, Quit, DeleteAgent, Exit, agentVars, route
    <2>2. main.pc \notin Rebuilding /\ main'.pc # "popback"
      <3>1. CASE RecvPath \/ LockToClear \/ RecvSpin \/ WaitToFinishDriving \/ SetSpinning
        BY <1>0, <3>1 DEF RecvPath, LockToClear, RecvSpin, WaitToFinishDriving, SetSpinning,
           Receiving, Rebuilding
      <3>2. CASE StartSpin \/ EndSpin \/ StartChange \/ EndChange
        BY <1>0, <3>2 DEF StartSpin, EndSpin, StartChange, EndChange, MainIdle, Rebuilding
      <3>3. CASE RecvVelocity
        BY <3>3 DEF RecvVelocity, Receiving, clientVars, Rebuilding
      <3>4. CASE RecvDirection \/ Quit \/ DeleteAgent \/ Exit
        BY <1>0, <3>4 DEF RecvDirection, Quit, DeleteAgent, Exit, Receiving, Rebuilding
      <3> QED
        BY <1>8, <3>1, <3>2, <3>3, <3>4 DEF MainThread
    <2> QED
      BY <1>1, <2>1, <2>2
      DEF DebtInv, DebtPlace, StepPlace, ClearPlace, Endless, AwaitsFirst, Rebuilding
  <1> QED
    BY <1>2, <1>3, <1>4, <1>5, <1>6, <1>7, <1>8

-----------------------------------------------------------------------------
RouteInv == ClientInv /\ SliceInv /\ DebtInv

LEMMA SliceMain ==
  ASSUME RouteInv, MainThread
  PROVE  SliceInv'
PROOF
  <1>0. /\ TypeOK /\ TodoInv /\ SliceInv
        /\ main \in [pc : MainLabels, todo : Seq(Cells), after : Directions]
        /\ deficit # 0 => path = << >>
    BY DEF RouteInv, ClientInv, DebtInv, TypeOK, ClientTypeOK
  <1>1. CASE PopBack \/ ResetSize \/ AddPosition
    BY <1>0, <1>1, SlicePopBack, SliceReset, SliceAdd
  <1>2. CASE RecvPath
    <2>1. path' = path
      BY <1>2 DEF RecvPath, agentVars
    <2>2. PICK p \in Plans : main' = [main EXCEPT !.pc = "clear", !.todo = p]
      BY <1>2 DEF RecvPath
    <2>3. main'.pc = "clear" /\ main'.todo = p
      BY <1>0, <2>2
    <2> QED
      BY <1>0, <2>1, <2>3 DEF SliceInv, RebuildInv, PathIsPieceOfOnePlan
  <1>3. CASE LockToClear \/ TestEmpty \/ CountPosition
    <2>1. path' = path /\ main'.todo = main.todo
      BY <1>0, <1>3 DEF LockToClear, TestEmpty, CountPosition, agentVars
    <2>2. \/ main.pc \in {"clear", "test"} /\ main'.pc \in {"test", "popback"}
          \/ main.pc = "test" /\ main'.pc = "reset" /\ path = << >>
          \/ main.pc = "add" /\ main'.pc = "push"
      BY <1>0, <1>3 DEF LockToClear, TestEmpty, CountPosition
    <2> QED
      BY <1>0, <2>1, <2>2 DEF SliceInv, RebuildInv, EndsAt, PathIsPieceOfOnePlan
  <1>4. CASE ~(RecvPath \/ LockToClear \/ TestEmpty \/ PopBack \/ ResetSize
               \/ CountPosition \/ AddPosition)
    <2>1. path' = path
      BY <1>4 DEF MainThread, EndPath, RecvSpin, WaitToFinishDriving, SetSpinning,
            StartSpin, EndSpin, RecvVelocity, RecvDirection, StartChange, EndChange,
            Quit, DeleteAgent, Exit, agentVars, route
    <2>2. main'.pc \notin {"clear"} \cup Rebuilding
      <3>1. CASE EndPath \/ RecvSpin \/ WaitToFinishDriving \/ SetSpinning
        BY <1>0, <3>1 DEF EndPath, RecvSpin, WaitToFinishDriving, SetSpinning,
              MainIdle, Rebuilding
      <3>2. CASE StartSpin \/ EndSpin \/ StartChange \/ EndChange
        BY <1>0, <3>2 DEF StartSpin, EndSpin, StartChange, EndChange, MainIdle, Rebuilding
      <3>3. CASE RecvVelocity
        BY <3>3 DEF RecvVelocity, Receiving, clientVars, Rebuilding
      <3>4. CASE RecvDirection \/ Quit \/ DeleteAgent \/ Exit
        BY <1>0, <3>4 DEF RecvDirection, Quit, DeleteAgent, Exit, Rebuilding
      <3> QED
        BY <1>4, <3>1, <3>2, <3>3, <3>4 DEF MainThread
    <2> QED
      BY <1>0, <2>1, <2>2 DEF SliceInv, RebuildInv, PathIsPieceOfOnePlan, Rebuilding
  <1> QED
    BY <1>1, <1>2, <1>3, <1>4

LEMMA RouteNext == RouteInv /\ [Next]_vars => RouteInv'
PROOF
  <1> SUFFICES ASSUME RouteInv, [Next]_vars
               PROVE  RouteInv'
    OBVIOUS
  <1>0. ClientInv' /\ TypeOK
    BY ClientNextInv DEF RouteInv, ClientInv
  <1>1. CASE MainThread
    BY <1>0, <1>1, SliceMain, DebtMain DEF RouteInv, SliceInv, ClientInv
  <1>2. CASE DriveThread /\ UNCHANGED clientVars
    <2>1. main' = main
      BY <1>2 DEF clientVars
    <2>0. DebtInv'
      BY <1>0, <1>2, <2>1, DebtDrive DEF RouteInv
    <2>2. CASE PopFront
      BY <1>0, <2>0, <2>1, <2>2, SlicePop DEF RouteInv
    <2>3. CASE drv.pc # "pop"
      <3>1. path' = path
        BY <1>2, <2>3, DriveKeepsPath DEF RouteInv, ClientInv
      <3> QED
        BY <1>0, <2>0, <2>1, <3>1, SliceKept DEF RouteInv
    <2>4. drv.pc = "pop" => PopFront
      BY <1>2 DEF DriveThread, At, EnterStepPath, CheckPath, Relock, Guard, Commit,
            FetchInit, FetchNext, Aim, StartChangeDirection, EndChangeDirection,
            StartDrive, EndDrive, Arrive, Shrink, Pause, Release, Unlock
    <2> QED
      BY <2>2, <2>3, <2>4
  <1>3. CASE UpdateThread \/ UNCHANGED vars
    <2>1. UNCHANGED <<path, deficit, main, drv, faults>>
      BY <1>3 DEF UpdateThread, ReadRow, ReadRest, vars, clientVars, agentVars
    <2>2. DebtInv'
      BY <2>1 DEF RouteInv, DebtInv, DebtPlace, StepPlace, ClearPlace, Endless, AwaitsFirst
    <2> QED
      BY <1>0, <2>1, <2>2, SliceKept DEF RouteInv
  <1> QED
    BY <1>1, <1>2, <1>3 DEF Next

(* Whatever the interleaving of the rebuild with the steps of the drive      *)
(* thread, the path is a piece of a single plan the server sent.             *)
THEOREM PathIsOnePlan == Spec => []PathIsPieceOfOnePlan
PROOF
  <1>1. Init => RouteInv
    BY ClientInitInv, SliceInit, DebtInit DEF RouteInv
  <1>2. RouteInv => PathIsPieceOfOnePlan
    BY DEF RouteInv, SliceInv
  <1> QED
    BY <1>1, <1>2, RouteNext, PTL DEF Spec

(* The debt of a path popped when empty is one position, and is paid by the   *)
(* first position of the rebuild it arose in, unless that rebuild's clear met *)
(* it and never ends, or the drive thread has gone on through the emptied     *)
(* vector.                                                                   *)
THEOREM DebtsArePaid == Spec => []DebtIsPaid
PROOF
  <1>1. Init => RouteInv
    BY ClientInitInv, SliceInit, DebtInit DEF RouteInv
  <1>2. RouteInv => DebtIsPaid
    BY DebtInvPays DEF RouteInv
  <1> QED
    BY <1>1, <1>2, RouteNext, PTL DEF Spec
=============================================================================

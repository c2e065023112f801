------------------------------- MODULE Client -------------------------------
(***************************************************************************)
(* Client mode: the drive thread of module Agent, the main thread, which   *)
(* runs TcpClient::communicate and getCommand and then tears the process   *)
(* down, and the update thread, which reports the agent to the server.     *)
(* Main and update share the mutex_agent of tcpclient.cpp, which is not    *)
(* the one the drive thread uses.                                          *)
(*                                                                         *)
(* The server is the environment: it may send any command of Commands at   *)
(* any time.  A read that delivers two stacked messages is dropped by      *)
(* getCommand and changes nothing.                                         *)
(***************************************************************************)
EXTENDS Agent

CONSTANTS Main, Update,  \* the other two threads
          Commands       \* the kinds of command the server sends

ASSUME ClientAssumption ==
  /\ {Main, Update} \subseteq Threads
  /\ Main # Update /\ Main # Drive /\ Update # Drive
  /\ Commands \subseteq {"path", "spin", "velocity", "direction", "quit"}
  /\ << >> \notin Plans     \* a plan has at least the position it starts from

VARIABLES
  tcpLock,   \* the owner of tcpclient.cpp's mutex_agent
  main,      \* the main thread: where it is, and the locals it still needs
  upd,       \* the update thread
  agent      \* is the Agent object still allocated

clientVars == <<tcpLock, main, upd, agent>>
vars == <<agentVars, clientVars>>

MainLabels == {"recv", "clear", "test", "popback", "reset", "add", "push", "wait", "lock",
               "spin", "spinning", "change", "changing", "teardown", "exiting", "exited"}

\* The names of the main thread's locals depend on the command it handles.
MainIdle == [pc |-> "recv", todo |-> << >>, after |-> EAST]

ClientTypeOK ==
  /\ AgentTypeOK
  /\ tcpLock \in {Nobody, Main, Update}
  /\ main \in [pc : MainLabels, todo : Seq(Cells), after : Directions]
  /\ upd \in [pc : {"sleep", "read", "exited"}, row : Int]
  /\ agent \in {"live", "deleted"}

ClientInit ==
  /\ AgentInit
  /\ tcpLock = Nobody
  /\ main = MainIdle
  /\ upd = [pc |-> "sleep", row |-> 0]
  /\ agent = "live"

-----------------------------------------------------------------------------
(* getCommand: one group of actions per command.                            *)

Receiving == main.pc = "recv"

\* '6': under the mutex, clear the path and add the positions one by one, a
\* millisecond apart.
RecvPath ==
  /\ Receiving /\ "path" \in Commands
  /\ \E p \in Plans : main' = [main EXCEPT !.pc = "clear", !.todo = p]
  /\ UNCHANGED <<agentVars, tcpLock, upd, agent>>

LockToClear ==
  /\ main.pc = "clear" /\ tcpLock = Nobody
  /\ tcpLock' = Main
  /\ main' = [main EXCEPT !.pc = "test"]
  /\ UNCHANGED <<agentVars, upd, agent>>

\* Variant with a bug: the old path is not cleared.
TestEmpty_Keeps ==
  /\ main.pc = "test"
  /\ main' = [main EXCEPT !.pc = "reset"]
  /\ UNCHANGED <<agentVars, tcpLock, upd, agent>>

(* Path::clear: while the vector's size is above 0, which as an unsigned     *)
(* number a negative one is, take its last element off.                     *)
TestEmpty ==
  /\ main.pc = "test"
  /\ main' = [main EXCEPT !.pc = IF path = << >> /\ deficit = 0 THEN "reset" ELSE "popback"]
  /\ UNCHANGED <<agentVars, tcpLock, upd, agent>>

\* Bound: what the loop takes off a vector in debt is not counted, for the loop
\* never ends then.
PopBack ==
  /\ main.pc = "popback"
  /\ IF path # << >> THEN path' = SubSeq(path, 1, Len(path) - 1) /\ UNCHANGED deficit
     ELSE deficit' = (IF deficit = 0 THEN 1 ELSE deficit) /\ UNCHANGED path
  /\ main' = [main EXCEPT !.pc = "test"]
  /\ UNCHANGED <<size, pos, direction, spinning, driving, velocity, done,
                 agentLock, drv, body, tcpLock, upd, agent>>

ResetSize ==
  /\ main.pc = "reset"
  /\ size' = 0
  /\ main' = [main EXCEPT !.pc = "add"]
  /\ UNCHANGED <<path, deficit, pos, direction, spinning, driving, velocity, done,
                 agentLock, drv, body, tcpLock, upd, agent>>

\* Path::add: ++size, then push_back.
CountPosition ==
  /\ main.pc = "add" /\ main.todo # << >>
  /\ size' = size + 1
  /\ main' = [main EXCEPT !.pc = "push"]
  /\ UNCHANGED <<path, deficit, pos, direction, spinning, driving, velocity, done,
                 agentLock, drv, body, tcpLock, upd, agent>>

\* Variant with a bug: a position is added whatever state the vector is in.
AddPosition_Always ==
  /\ main.pc = "push"
  /\ path' = Append(path, Head(main.todo))
  /\ main' = [main EXCEPT !.pc = "add", !.todo = Tail(@)]
  /\ UNCHANGED <<deficit, size, pos, direction, spinning, driving, velocity, done,
                 agentLock, drv, body, tcpLock, upd, agent>>

AddPosition ==
  /\ main.pc = "push"
  /\ IF deficit = 0
     THEN path' = Append(path, Head(main.todo)) /\ UNCHANGED deficit
     ELSE deficit' = deficit - 1 /\ UNCHANGED path
  /\ main' = [main EXCEPT !.pc = "add", !.todo = Tail(@)]
  /\ UNCHANGED <<size, pos, direction, spinning, driving, velocity, done,
                 agentLock, drv, body, tcpLock, upd, agent>>

EndPath ==
  /\ main.pc = "add" /\ main.todo = << >>
  /\ tcpLock' = Nobody
  /\ main' = MainIdle
  /\ UNCHANGED <<agentVars, upd, agent>>

\* 'p': wait until the drive thread is not driving, then spin once around.
RecvSpin ==
  /\ Receiving /\ "spin" \in Commands
  /\ main' = [main EXCEPT !.pc = "wait"]
  /\ UNCHANGED <<agentVars, tcpLock, upd, agent>>

\* Variant with a bug: the sense of the wait is inverted.
WaitToFinishDriving_Inverted ==
  /\ main.pc = "wait" /\ driving
  /\ main' = [main EXCEPT !.pc = "lock"]
  /\ UNCHANGED <<agentVars, tcpLock, upd, agent>>

WaitToFinishDriving ==
  /\ main.pc = "wait" /\ ~driving
  /\ main' = [main EXCEPT !.pc = "lock"]
  /\ UNCHANGED <<agentVars, tcpLock, upd, agent>>

SetSpinning ==
  /\ main.pc = "lock" /\ tcpLock = Nobody
  /\ tcpLock' = Main
  /\ spinning' = TRUE
  /\ main' = [main EXCEPT !.pc = "spin"]
  /\ UNCHANGED <<route, pos, direction, driving, velocity, done,
                 agentLock, drv, body, upd, agent>>

StartSpin ==
  /\ main.pc = "spin"
  /\ StartTurn(Main, 360)
  /\ main' = [main EXCEPT !.pc = "spinning"]
  /\ UNCHANGED <<route, pos, direction, spinning, driving, velocity, done,
                 agentLock, drv, tcpLock, upd, agent>>

EndSpin ==
  /\ main.pc = "spinning"
  /\ StopWheels(Main)
  /\ spinning' = FALSE /\ tcpLock' = Nobody
  /\ main' = MainIdle
  /\ UNCHANGED <<route, pos, direction, driving, velocity, done,
                 agentLock, drv, cell, heading, faults, upd, agent>>

\* Variant with a bug: the velocity sent is added to the old one.
RecvVelocity_Adds ==
  /\ Receiving /\ "velocity" \in Commands
  /\ tcpLock = Nobody
  /\ \E v \in Velocities : velocity' = velocity + v
  /\ UNCHANGED <<route, pos, direction, spinning, driving, done,
                 agentLock, drv, body, clientVars>>

\* 'v': set the default velocity, under the mutex.
RecvVelocity ==
  /\ Receiving /\ "velocity" \in Commands
  /\ tcpLock = Nobody
  /\ velocity' \in Velocities
  /\ UNCHANGED <<route, pos, direction, spinning, driving, done,
                 agentLock, drv, body, clientVars>>

(* 'd': turn to a direction, under the mutex.  For a letter that names no   *)
(* direction the local is read uninitialised: change_direction then finds   *)
(* some direction in it, or no direction and changes nothing.               *)
RecvDirection ==
  /\ Receiving /\ "direction" \in Commands
  /\ \E d \in Directions : main' = [main EXCEPT !.pc = "change", !.after = d]
  /\ UNCHANGED <<agentVars, tcpLock, upd, agent>>

StartChange ==
  /\ main.pc = "change" /\ tcpLock = Nobody
  /\ tcpLock' = Main
  /\ StartTurn(Main, TurnDegrees(direction, main.after))
  /\ main' = [main EXCEPT !.pc = "changing"]
  /\ UNCHANGED <<route, pos, direction, spinning, driving, velocity, done,
                 agentLock, drv, upd, agent>>

EndChange ==
  /\ main.pc = "changing"
  /\ StopWheels(Main)
  /\ direction' = main.after
  /\ tcpLock' = Nobody
  /\ main' = MainIdle
  /\ UNCHANGED <<route, pos, spinning, driving, velocity, done,
                 agentLock, drv, cell, heading, faults, upd, agent>>

\* 'q', a closed socket or a receive error: the loop of communicate ends.
Quit ==
  /\ Receiving /\ "quit" \in Commands
  /\ done' = TRUE
  /\ main' = [main EXCEPT !.pc = "teardown"]
  /\ UNCHANGED <<route, pos, direction, spinning, driving, velocity,
                 agentLock, drv, body, tcpLock, upd, agent>>

\* main: after a sleep the agent is deleted under threads that are detached,
\* not joined; then the process exits.
DeleteAgent ==
  /\ main.pc = "teardown"
  /\ agent' = "deleted"
  /\ main' = [main EXCEPT !.pc = "exiting"]
  /\ UNCHANGED <<agentVars, tcpLock, upd>>

Exit ==
  /\ main.pc = "exiting"
  /\ main' = [main EXCEPT !.pc = "exited"]
  /\ UNCHANGED <<agentVars, tcpLock, upd, agent>>

MainThread ==
  \/ RecvPath \/ LockToClear \/ TestEmpty \/ PopBack \/ ResetSize
  \/ CountPosition \/ AddPosition \/ EndPath
  \/ RecvSpin \/ WaitToFinishDriving \/ SetSpinning \/ StartSpin \/ EndSpin
  \/ RecvVelocity \/ RecvDirection \/ StartChange \/ EndChange
  \/ Quit \/ DeleteAgent \/ Exit

-----------------------------------------------------------------------------
(* updateServerAgent: under the mutex, read the position's row, then its     *)
(* column and the rest of the message; then send it.                        *)

ReadRow ==
  /\ upd.pc = "sleep" /\ tcpLock = Nobody
  /\ tcpLock' = Update
  /\ upd' = [pc |-> "read", row |-> pos[1]]
  /\ UNCHANGED <<agentVars, main, agent>>

ReadRest ==
  /\ upd.pc = "read"
  /\ tcpLock' = Nobody
  /\ upd' = [pc |-> IF done THEN "exited" ELSE "sleep", row |-> 0]
  /\ UNCHANGED <<agentVars, main, agent>>

UpdateThread == ReadRow \/ ReadRest

-----------------------------------------------------------------------------
\* The other threads are followed while the agent they work on exists.
Next ==
  \/ MainThread
  \/ /\ agent = "live"
     /\ \/ DriveThread /\ UNCHANGED clientVars
        \/ UpdateThread

Init == ClientInit
Spec == Init /\ [][Next]_vars

(* A thread that can run keeps running; a thread that waits for a mutex      *)
(* other threads keep taking and releasing gets it in the end.              *)
FairSpec ==
  /\ Spec
  /\ WF_vars(agent = "live" /\ DriveThread /\ UNCHANGED clientVars)
  /\ WF_vars(agent = "live" /\ UpdateThread)
  /\ SF_vars(LockToClear \/ SetSpinning \/ StartChange)
  /\ WF_vars(TestEmpty \/ PopBack \/ ResetSize \/ CountPosition \/ AddPosition \/ EndPath \/ WaitToFinishDriving \/ StartSpin
              \/ EndSpin \/ EndChange \/ DeleteAgent \/ Exit)

-----------------------------------------------------------------------------
(* Properties.                                                              *)

\* Every variable stays in its range.
TypeOK == ClientTypeOK

(* Whatever the order in which getCommand, which rebuilds the path under one *)
(* mutex, and stepPath, which consumes it under another, call the operations *)
(* of Path (each access to the vector one step here), the path is always a   *)
(* piece of one plan of the server, never a mixture of two.                  *)
PathIsPieceOfOnePlan ==
  path # << >> =>
    \E p \in Plans : \E i \in 1..Len(p) : \E j \in i..Len(p) : path = SubSeq(p, i, j)

\* Where the main thread is inside a command.
Rebuilding == {"test", "popback", "reset", "add", "push"}
Commanding == Rebuilding \cup {"spin", "spinning", "changing"}

(* A path rebuild, a spin or a commanded turn is never interleaved with the  *)
(* composition of a report to the server (both are under tcpclient.cpp's     *)
(* mutex_agent).                                                            *)
ReportsExcludeCommands ==
  ~(upd.pc = "read" /\ main.pc \in Commanding)

(* A drive thread that has lost its path to a rebuild between two reads      *)
(* never drives again: the driving flag it left set keeps its own guard shut *)
(* (no other code clears the flag).                                          *)
StrandedForEver ==
  [][Stranded => Stranded' /\ (Drive \in moving' => Drive \in moving)]_vars

\* A clear that has met a vector of negative size: it pops for ever, holding the
\* mutex every report and every command needs.
Endless == main.pc \in {"test", "popback"} /\ deficit > 0

(* A pop that meets a rebuild at the wrong moment leaves the vector one     *)
(* element in debt.  Either the rebuild pays it at once, with the first      *)
(* position it adds, or the pop fell between clear's last test and its       *)
(* pop_back or before a test, and the clear never ends; no debt outlives     *)
(* the rebuild it arose in, to be met by the next one.  The exception is a   *)
(* drive thread that has gone on through the emptied vector, because it saw  *)
(* the old size before clear set it to 0.                                   *)
DebtIsPaid ==
  deficit # 0 =>
    \/ "ghost" \in faults
    \/ /\ deficit = 1 /\ path = << >>
       /\ \/ Endless
          \/ main.pc \in {"reset", "push"}
          \/ main.pc = "add" /\ main.todo # << >>

(* A spin command's wait for the drive thread ends, unless an exception has  *)
(* left the driving flag set.                                               *)
WaitEnds == main.pc = "wait" ~> (main.pc # "wait" \/ Stranded)
=============================================================================

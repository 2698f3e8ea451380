--------------------------------- MODULE MCDesk ---------------------------------
(***************************************************************************)
(* The small components around the trading loop for TLC, one at a time:    *)
(* they share no state, so a behaviour is of one of them, `desk`, and the  *)
(* others stay where they start.                                           *)
(***************************************************************************)
EXTENDS Account, LiveGate, Approvals, RateLimit, Monitors, Jobs, CycleMarks, BarRecorder

CONSTANT Desks

VARIABLE desk

MCNets == {-30, 10}
MCMarks == {-30, -4, 0, 10}
MCResults == {-4, 0, 3}
MCDivergences == {-1, 4, 5}
MCDrawdowns == {-3, -1}
MCEnvelope == -2
MCYearOf == <<1, 1, 1, 1, 2>>

(* Marks: 130 and 131 jump from 100 and agree with one another.             *)
Answer(kind, bid, ltp) == [kind |-> kind, bid |-> bid, ltp |-> ltp]
MCAnswers == {Answer("quote", 100, 105), Answer("quote", 130, 130), Answer("quote", 0, 131),
              Answer("quote", 0, 0), Answer("refused", 0, 0), Answer("malformed", 0, 0)}

(* Bars: three minutes of two ticks; the third is the first of a new        *)
(* session, so that the broker's count starts again below its last report.  *)
MCMinute == <<1, 1, 2, 2, 3, 3>>
MCTotal == <<10, 20, 30, 45, 50, 60>>
MCBase == <<0, 0, 0, 0, 45, 45>>
barVars == vars

DeskInit ==
  /\ desk \in Desks
  /\ AccountInit /\ GateInit /\ ApprovalInit /\ LimitInit /\ MonitorInit /\ JobInit
  /\ MarksInit /\ (desk # "marks" => held = {}) /\ Init

DeskNext ==
  /\ UNCHANGED desk
  /\ \/ desk = "account" /\ AccountNext
          /\ UNCHANGED <<gateVars, approvalVars, limitVars, monitorVars, jobVars, marksVars, barVars>>
     \/ desk = "gate" /\ GateNext
          /\ UNCHANGED <<accountVars, approvalVars, limitVars, monitorVars, jobVars, marksVars, barVars>>
     \/ desk = "approvals" /\ ApprovalNext
          /\ UNCHANGED <<accountVars, gateVars, limitVars, monitorVars, jobVars, marksVars, barVars>>
     \/ desk = "limiter" /\ LimitNext
          /\ UNCHANGED <<accountVars, gateVars, approvalVars, monitorVars, jobVars, marksVars, barVars>>
     \/ desk = "monitors" /\ MonitorNext
          /\ UNCHANGED <<accountVars, gateVars, approvalVars, limitVars, jobVars, marksVars, barVars>>
     \/ desk = "jobs" /\ JobNext
          /\ UNCHANGED <<accountVars, gateVars, approvalVars, limitVars, monitorVars, marksVars, barVars>>
     \/ desk = "marks" /\ MarksNext
          /\ UNCHANGED <<accountVars, gateVars, approvalVars, limitVars, monitorVars, jobVars, barVars>>
     \/ desk = "bars" /\ Next
          /\ UNCHANGED <<accountVars, gateVars, approvalVars, limitVars, monitorVars, jobVars, marksVars>>

DeskSpec == DeskInit /\ [][DeskNext]_<<desk, accountVars, gateVars, approvalVars, limitVars, monitorVars, jobVars, marksVars, barVars>>
=================================================================================

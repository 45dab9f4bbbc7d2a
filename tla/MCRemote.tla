------------------------------ MODULE MCRemote ------------------------------
(* Specifications of the browsers outside the program, side by side, sharing  *)
(* no variable: the local servers, the sessions at a remote provider, and the *)
(* pause for a challenge.  An initial state starts one of them; the others    *)
(* rest.                                                                      *)
EXTENDS MCLocalProcessEnv, CloudSessions, CaptchaWait

\* All tasks have ended.
LocalRests ==
  /\ pc = [t \in Task |-> "gone"]
  /\ loop = [w \in Worker |-> None]
  /\ file = [p \in Port |-> 0] /\ fd = [t \in Task |-> 0] /\ flock = [i \in Inode |-> None]
  /\ port = [t \in Task |-> 0] /\ lease = [t \in Task |-> FALSE]
  /\ sem = [w \in Worker |-> MaxProcesses] /\ slot = [t \in Task |-> FALSE]
  /\ server = [t \in Task |-> "none"] /\ signal = [t \in Task |-> "no"]
  /\ peer = [t \in Task |-> None] /\ hosts = peer /\ shield = [t \in Task |-> FALSE] /\ overdue = shield
  /\ cancels = 0 /\ faults = 0

CloudRests ==
  /\ provider = "none" /\ life = 1 /\ swept = FALSE /\ marks = {} /\ refused = {}
  /\ remote = [s \in Session |-> "none"] /\ born = [s \in Session |-> 0]
  /\ step = [t \in CloudTask |-> "over"] /\ held = [t \in CloudTask |-> NoSession]
  /\ todo = [t \in CloudTask |-> {}] /\ polls = [t \in CloudTask |-> 0]
  /\ cuts = 0 /\ refusals = 0
CloudOff  == provider = "none"
CloudOver == /\ life = MaxLives /\ \A t \in CloudTask : step[t] \in {"over", "failed"}
             /\ UNCHANGED cloudVars
\* All sessions of the bound were used up.
CloudFull == /\ \A s \in Session : remote[s] # "none"
             /\ \E t \in CloudTask : step[t] = "create"
             /\ UNCHANGED cloudVars

CaptchaRests == /\ fast = FALSE /\ solver = "none" /\ console = << >> /\ events = << >>
                /\ wait = "rest" /\ clock = 0 /\ quiet = 0 /\ challenges = 0 /\ excused = FALSE
CaptchaOff == wait = "rest"

RemoteInit == \/ Init /\ CloudRests /\ CaptchaRests
              \/ LocalRests /\ CloudInit /\ CaptchaRests
              \/ LocalRests /\ CloudRests /\ CaptchaInit
RemoteNext ==
  \/ CloudOff /\ CaptchaOff /\ Next /\ UNCHANGED <<cloudVars, captchaVars>>
  \/ ~CloudOff /\ (CloudNext \/ CloudOver \/ CloudFull) /\ UNCHANGED <<vars, captchaVars>>
  \/ ~CaptchaOff /\ CaptchaNext /\ UNCHANGED <<vars, cloudVars>>
remoteVars == <<vars, cloudVars, captchaVars>>
RemoteSpec == RemoteInit /\ [][RemoteNext]_remoteVars /\ Fairness
=============================================================================

----------------------------- MODULE Escalation ------------------------------
(***************************************************************************)
(* What shakti promises, whatever the order of its system calls: a command *)
(* runs for somebody else only after the invocation was admitted on the    *)
(* record, and an invocation is admitted only when the policy permits it   *)
(* and, where the policy asks for a password, when its user has given one  *)
(* on that terminal since the machine started.  Module Shakti implements   *)
(* it.                                                                     *)
(***************************************************************************)
CONSTANTS
    Proc,                 \* shakti processes
    Requests,             \* what they may be asked to run
    Permitted(_),         \* does the policy permit it, with known names?
    NeedsPassword(_),     \* does the policy ask for a password?
    SeatOf(_)             \* the user and terminal that ask

VARIABLES
    job,      \* what each process is asked for and how far it is
    proven    \* the seats at which a password was given

escVars == <<job, proven>>

Idle == [stage |-> "idle"]
At(stage, r) == [stage |-> stage, request |-> r]

EscInit ==
    /\ job = [p \in Proc |-> Idle]
    /\ proven = {}

Enter(p, stage, r) == job' = [job EXCEPT ![p] = At(stage, r)]

Ask(p) ==
    /\ job[p] = Idle
    /\ \E r \in Requests : Enter(p, "asking", r)
    /\ UNCHANGED proven

Prove(p) ==
    /\ job[p].stage = "asking"
    /\ proven' = proven \cup {SeatOf(job[p].request)}
    /\ UNCHANGED job

Admit(p) ==
    /\ job[p].stage = "asking"
    /\ Permitted(job[p].request)
    /\ NeedsPassword(job[p].request) => SeatOf(job[p].request) \in proven
    /\ Enter(p, "admitted", job[p].request)
    /\ UNCHANGED proven

Run(p) ==
    /\ job[p].stage = "admitted"
    /\ Enter(p, "running", job[p].request)
    /\ UNCHANGED proven

Finish(p) == job' = [job EXCEPT ![p] = Idle] /\ UNCHANGED proven

Restart == job' = [p \in Proc |-> Idle] /\ proven' = {}

EscNext ==
    \/ \E p \in Proc : Finish(p) \/ Prove(p) \/ Admit(p) \/ Run(p) \/ Ask(p)
    \/ Restart

EscSpec == EscInit /\ [][EscNext]_escVars
==============================================================================

----------------------------- MODULE MCService ------------------------------
(* TLC instances of Service: the situations a daemon is started in, and    *)
(* the models of the builder role.                                         *)
EXTENDS Service

CONSTANTS p

ThreeIds == 1..3
Board(tasks) == [i \in Ids |-> IF i \in DOMAIN tasks THEN tasks[i] ELSE NoTask]
Kick(budget) == NewTask("kickoff", p, budget)
ADoctor == NewTask("doctor", None, 0)
Start(tasks, n) == [tasks |-> Board(tasks), watched |-> FALSE, projects |-> {},
                         tickets |-> {}, prose |-> FALSE, cap |-> 0, faults |-> n]
\* Two people want the same project built, beside somebody else's task; and one
\* beside a task for a persona without a handler.
TwoKickoffs == Start(<<Kick(1), Kick(0), NewTask("foreign", None, 0)>>, 3)
Misaddressed == Start(<<Kick(0), NewTask("stub", None, 0)>>, 2)
\* A doctor looks after a project whose kickoff runs for long; or after one that has
\* none, beside somebody else's task.
Surveillance == [Start(<<Kick(0), ADoctor>>, 0) EXCEPT !.projects = {p}]
Revival == [Start(<<ADoctor, NewTask("foreign", None, 0)>>, 1) EXCEPT !.projects = {p}]
\* A chain of doctors and nothing else, when more goes wrong; one that watches a
\* container.
Succession == Start(<<ADoctor>>, 2)
Watchdog == [Start(<<ADoctor, NoTask, NewTask("foreign", None, 0)>>, 1) EXCEPT !.watched = TRUE]
\* A kickoff with a ticket to build; one that may be queued again; and one that is to
\* stop when its builders have cost two.
Build == [Start(<<Kick(0)>>, 1) EXCEPT !.tickets = {p}]
BuildAgain == [Start(<<Kick(1)>>, 0) EXCEPT !.tickets = {p}]
OnBudget == [Start(<<Kick(0)>>, 0) EXCEPT !.tickets = {p}, !.cap = 2]
\* A kickoff and a doctor, and a ticket that lacks its section.
Prose == [Start(<<Kick(0), ADoctor>>, 1) EXCEPT !.prose = TRUE]
AllSites == {TwoKickoffs, Misaddressed, Surveillance, Revival, Succession, Watchdog,
             Build, BuildAgain, OnBudget, Prose}
DoctorSites == {Surveillance, Revival}
DefaultChain == <<"gpt-oss", "qwen">>
=============================================================================

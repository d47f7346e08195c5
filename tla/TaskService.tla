---------------------------- MODULE TaskService ----------------------------
(***************************************************************************)
(* What the server expects of its thread pool, without threads: tasks are  *)
(* accepted in order, started in that order, each at most once, and once   *)
(* the service is closed nothing starts or is still running.               *)
(***************************************************************************)
EXTENDS Naturals, Sequences

CONSTANT MaxTasks   \* bound on the tasks that are ever submitted

VARIABLES
    accepted,   \* how many tasks were submitted; a task is its submission number
    pending,    \* accepted tasks that have not started, in order
    running,    \* tasks whose function is executing
    done,       \* tasks whose function has returned
    open        \* the service still exists

serviceVars == <<accepted, pending, running, done, open>>

ServiceInit ==
    /\ accepted = 0
    /\ pending = << >>
    /\ running = {}
    /\ done = {}
    /\ open = TRUE

Submit ==
    /\ open
    /\ accepted < MaxTasks
    /\ accepted' = accepted + 1
    /\ pending' = Append(pending, accepted + 1)
    /\ UNCHANGED <<running, done, open>>

Start ==
    /\ open
    /\ pending # << >>
    /\ Head(pending) \notin running \cup done
    /\ running' = running \cup {Head(pending)}
    /\ pending' = Tail(pending)
    /\ UNCHANGED <<accepted, done, open>>

Finish(t) ==
    /\ open
    /\ t \in running
    /\ running' = running \ {t}
    /\ done' = done \cup {t}
    /\ UNCHANGED <<accepted, pending, open>>

\* Tasks that have not started by then are dropped with the service.
Close ==
    /\ open
    /\ running = {}
    /\ open' = FALSE
    /\ pending' = << >>
    /\ UNCHANGED <<accepted, running, done>>

ServiceNext ==
    \/ Submit
    \/ Start
    \/ \E t \in running : Finish(t)
    \/ Close

ServiceSpec == ServiceInit /\ [][ServiceNext]_serviceVars
=============================================================================

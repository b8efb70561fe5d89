---------------------------- MODULE InitServices ----------------------------
(***************************************************************************)
(* Service supervision in init (system/core/init/init.c): the service      *)
(* flags, service_start, service_stop, the SIGCHLD path (sigchld_handler   *)
(* writing to the signal socket, the main loop reading it and calling      *)
(* wait_for_one_process until it returns non-zero), restart_processes      *)
(* with its five-second restart delay and poll deadline, the critical-     *)
(* crash counter, and the ctl.start / ctl.stop control messages.           *)
(*                                                                         *)
(* The operating system is modelled by procs (live child processes) and    *)
(* zombies (exited, not yet waited for); a pid is free when neither holds *)
(* it, and fork returns a free pid.  Each process carries the service it   *)
(* was forked for, which the kernel does not know; init finds a service    *)
(* only through svc->pid (service_find_by_pid).                            *)
(*                                                                         *)
(* Time: gettime() is whole seconds.  Only differences with now matter,    *)
(* so time_started and time_crashed are kept as their age now - t, and     *)
(* process_needs_restart as its delay from now.  An age is only compared  *)
(* with one constant, so it saturates just past it: time_started (and now, *)
(* which service_start copies into it as time_started = 0) at the restart *)
(* delay, time_crashed at the crash window plus one.                       *)
(***************************************************************************)
EXTENDS Integers, Sequences, FiniteSets

CONSTANTS
    Svc,                \* the services of init.rc
    Oneshot,            \* services with the oneshot option (SVC_ONESHOT)
    Critical,           \* services with the critical option (SVC_CRITICAL)
    InitiallyDisabled,  \* services with the disabled option: not started by class_start
    Pids,               \* the pids fork can return
    RestartDelay,       \* the 5 in restart_service_if_needed
    CrashWindow,        \* CRITICAL_CRASH_WINDOW (4*60)
    CrashThreshold,     \* CRITICAL_CRASH_THRESHOLD (4)
    ForkCanFail,        \* whether fork() may return -1
    MaxCtl              \* bound on the ctl.start / ctl.stop messages sent

ASSUME Oneshot \cup Critical \cup InitiallyDisabled \subseteq Svc
ASSUME 1..Cardinality(Svc) \subseteq Pids
ASSUME RestartDelay \in Nat \ {0} /\ CrashWindow \in Nat /\ CrashThreshold \in Nat

StartCap == RestartDelay
CrashCap == CrashWindow + 1

VARIABLES
    flags,         \* svc->flags: a subset of {"DISABLED", "RUNNING", "RESTARTING"}
    pid,           \* svc->pid, 0 when none
    ageStarted,    \* now - svc->time_started
    ageCrashed,    \* now - svc->time_crashed
    nr_crashed,    \* svc->nr_crashed
    deadline,      \* process_needs_restart - now, or NoDeadline when it is 0
    uptime,        \* now (time since boot), for the assignments of 0
    procs,         \* live children [pid, svc]
    zombies,       \* exited children not yet reaped
    sigPending,    \* unread bytes in the signal socket
    loop,          \* where the main loop is: "top", "poll" or "reap"
    rebooted,      \* __reboot into recovery has been called
    ctlSent,       \* control messages handled so far
    crashLog       \* ghost: ages of the latest crashes that reached the critical check

vars == <<flags, pid, ageStarted, ageCrashed, nr_crashed, deadline, uptime,
          procs, zombies, sigPending, loop, rebooted, ctlSent, crashLog>>

\* process_needs_restart == 0: no service waits for its restart time
NoDeadline == -1

Sat(n, cap) == IF n > cap THEN cap ELSE n

\* The part of the state service_start and service_stop work on
St == [flags |-> flags, pid |-> pid, ageStarted |-> ageStarted, procs |-> procs]

SetSt(st) ==
    /\ flags' = st.flags /\ pid' = st.pid
    /\ ageStarted' = st.ageStarted /\ procs' = st.procs

\* The pids held by a live child or a zombie; fork returns one of the others
FreePids(st) == Pids \ {q.pid : q \in st.procs \cup zombies}

(* service_start(svc, dynamic_args): leave DISABLED and RESTARTING,        *)
(* time_started = 0; nothing more for a RUNNING service; a non-oneshot     *)
(* service given dynamic args is disabled; fork, and on failure pid = 0;   *)
(* otherwise time_started = now, the pid, RUNNING.  The console and stat   *)
(* checks are taken to pass.                                               *)
service_start(st, s, dyn, forkFails) ==
    LET f == st.flags[s] \ {"DISABLED", "RESTARTING"}
        st1 == [st EXCEPT !.flags[s] = f, !.ageStarted[s] = uptime]
    IN IF "RUNNING" \in f THEN st1
       ELSE IF s \notin Oneshot /\ dyn
       THEN [st1 EXCEPT !.flags[s] = f \cup {"DISABLED"}]
       ELSE IF forkFails \/ FreePids(st1) = {}
       THEN [st1 EXCEPT !.pid[s] = 0]
       ELSE LET p == CHOOSE q \in FreePids(st1) : \A r \in FreePids(st1) : q <= r
            IN [st1 EXCEPT !.flags[s] = f \cup {"RUNNING"}, !.pid[s] = p,
                           !.ageStarted[s] = 0,
                           !.procs = @ \cup {[pid |-> p, svc |-> s]}]

(* service_stop: clear RUNNING and RESTARTING, set DISABLED; with a pid,   *)
(* kill(-pid, SIGTERM).  The signal is delivered, but the process exits    *)
(* only when it handles it, which ProcessExit stands for.                  *)
service_stop(st, s) ==
    [st EXCEPT !.flags[s] = (@ \ {"RUNNING", "RESTARTING"}) \cup {"DISABLED"}]

\* Mutant: process_needs_restart never set, so poll waits without a timeout
nextDeadlineNone(dl, wait) == dl

\* process_needs_restart = the earliest next_start_time seen so far
nextDeadline(dl, wait) == IF dl = NoDeadline \/ wait < dl THEN wait ELSE dl

(* restart_service_if_needed for the services of order, in that order:    *)
(* restart one whose time_started + 5 <= now, else bring the deadline     *)
(* forward to its next start time.  Returns [st, deadline].               *)
RECURSIVE restartEach(_, _, _, _)
restartEach(st, dl, order, fails) ==
    IF order = << >> THEN [st |-> st, deadline |-> dl]
    ELSE LET s == Head(order)
             wait == RestartDelay - st.ageStarted[s]
         IN IF "RESTARTING" \notin st.flags[s]
            THEN restartEach(st, dl, Tail(order), fails)
            ELSE IF wait <= 0
            THEN restartEach(service_start(
                       [st EXCEPT !.flags[s] = @ \ {"RESTARTING"}],
                       s, FALSE, s \in fails), dl, Tail(order), fails)
            ELSE restartEach(st, nextDeadline(dl, wait), Tail(order), fails)

\* The order of the service list (service_for_each_flags walks it)
SvcOrder == CHOOSE sq \in [1..Cardinality(Svc) -> Svc] : \A s \in Svc : \E i \in DOMAIN sq : sq[i] = s

ForkFailures == IF ForkCanFail THEN SUBSET Svc ELSE {{}}

-----------------------------------------------------------------------------

(* After the boot triggers: class_start has started every service not     *)
(* marked disabled, in list order, fork returning pids 1, 2, ...           *)
Init ==
    LET started == Svc \ InitiallyDisabled
        index(s) == CHOOSE i \in DOMAIN SvcOrder : SvcOrder[i] = s
    IN
    /\ pid = [s \in Svc |-> IF s \in started THEN index(s) ELSE 0]
    /\ flags = [s \in Svc |-> IF s \in started THEN {"RUNNING"} ELSE {"DISABLED"}]
    /\ procs = {[pid |-> pid[s], svc |-> s] : s \in started}
    /\ ageStarted = [s \in Svc |-> 0]
    /\ ageCrashed = [s \in Svc |-> 0]
    /\ nr_crashed = [s \in Svc |-> 0]
    /\ deadline = NoDeadline
    /\ uptime = 0
    /\ zombies = {}
    /\ sigPending = FALSE
    /\ loop = "top"
    /\ rebooted = FALSE
    /\ ctlSent = 0
    /\ crashLog = [s \in Svc |-> << >>]

\* One second passes: every age grows (saturating), the deadline comes closer
Tick ==
    /\ ~rebooted
    /\ uptime' = Sat(uptime + 1, StartCap)
    /\ ageStarted' = [s \in Svc |-> Sat(ageStarted[s] + 1, StartCap)]
    /\ ageCrashed' = [s \in Svc |-> Sat(ageCrashed[s] + 1, CrashCap)]
    /\ deadline' = IF deadline <= 0 THEN deadline ELSE deadline - 1
    /\ crashLog' = [s \in Svc |-> [i \in DOMAIN crashLog[s] |-> Sat(crashLog[s][i] + 1, CrashCap)]]
    /\ UNCHANGED <<flags, pid, nr_crashed, procs, zombies, sigPending, loop,
                   rebooted, ctlSent>>

(* A child exits (it crashed, finished, or handled SIGTERM): it becomes a  *)
(* zombie and sigchld_handler writes a byte to the signal socket.          *)
ProcessExit(p) ==
    /\ ~rebooted
    /\ procs' = procs \ {p}
    /\ zombies' = zombies \cup {p}
    /\ sigPending' = TRUE
    /\ UNCHANGED <<flags, pid, ageStarted, ageCrashed, nr_crashed, deadline,
                   uptime, loop, rebooted, ctlSent, crashLog>>

(* The top of the main loop: drain_action_queue (no queued actions after  *)
(* boot) and restart_processes, which resets process_needs_restart and    *)
(* walks the RESTARTING services; then poll with that deadline.           *)
RestartProcesses ==
    /\ ~rebooted /\ loop = "top"
    /\ \E fails \in ForkFailures :
         LET r == restartEach(St, NoDeadline, SvcOrder, fails) IN
         /\ SetSt(r.st)
         /\ deadline' = r.deadline
    /\ loop' = "poll"
    /\ UNCHANGED <<ageCrashed, nr_crashed, uptime, zombies, sigPending,
                   rebooted, ctlSent, crashLog>>

\* poll returns 0 at the deadline: continue
PollTimeout ==
    /\ ~rebooted /\ loop = "poll"
    /\ deadline = 0
    /\ loop' = "top"
    /\ UNCHANGED <<flags, pid, ageStarted, ageCrashed, nr_crashed, deadline,
                   uptime, procs, zombies, sigPending, rebooted, ctlSent, crashLog>>

\* poll reports the signal socket: read it, then reap
SignalReady ==
    /\ ~rebooted /\ loop = "poll"
    /\ sigPending
    /\ sigPending' = FALSE
    /\ loop' = "reap"
    /\ UNCHANGED <<flags, pid, ageStarted, ageCrashed, nr_crashed, deadline,
                   uptime, procs, zombies, rebooted, ctlSent, crashLog>>

\* The crash log keeps the ages of the last CrashThreshold + 1 crashes
Logged(log) == IF Len(log) > CrashThreshold + 1 THEN Tail(log) ELSE log

\* Mutant: one exit too early
overThresholdEarly(n) == n >= CrashThreshold

\* ++svc->nr_crashed > CRITICAL_CRASH_THRESHOLD
overThreshold(n) == n > CrashThreshold

\* Mutant: svc->pid left on the reaped pid
clearPidKept(p, s) == p

\* svc->pid = 0 once its process has been reaped
clearPid(p, s) == [p EXCEPT ![s] = 0]

(* wait_for_one_process(0) reaping child z: an untracked pid returns at   *)
(* once; otherwise pid = 0, RUNNING cleared, a oneshot service disabled,  *)
(* a disabled one left alone; a critical one counts the exit in the       *)
(* window that starts at time_crashed and reboots into recovery past      *)
(* CRITICAL_CRASH_THRESHOLD; the rest go RESTARTING.                      *)
reap(z) ==
    LET found == {s \in Svc : pid[s] = z.pid}
        s == CHOOSE x \in found : TRUE
        f1 == (flags[s] \ {"RUNNING"}) \cup (IF s \in Oneshot THEN {"DISABLED"} ELSE {})
        inWindow == ageCrashed[s] <= CrashWindow
        crit == s \in Critical /\ "DISABLED" \notin f1
    IN
    /\ zombies' = zombies \ {z}
    /\ IF found = {}
       THEN UNCHANGED <<flags, pid, ageCrashed, nr_crashed, rebooted, crashLog>>
       ELSE /\ pid' = clearPid(pid, s)
            /\ crashLog' = IF crit
                           THEN [crashLog EXCEPT ![s] = Logged(Append(@, 0))]
                           ELSE crashLog
            /\ IF ~crit
               THEN /\ flags' = [flags EXCEPT ![s] =
                                   IF "DISABLED" \in f1 THEN f1 ELSE f1 \cup {"RESTARTING"}]
                    /\ UNCHANGED <<ageCrashed, nr_crashed, rebooted>>
               ELSE IF inWindow /\ overThreshold(nr_crashed[s] + 1)
               THEN /\ flags' = [flags EXCEPT ![s] = f1]
                    /\ nr_crashed' = [nr_crashed EXCEPT ![s] = @ + 1]
                    /\ rebooted' = TRUE
                    /\ UNCHANGED ageCrashed
               ELSE /\ flags' = [flags EXCEPT ![s] = f1 \cup {"RESTARTING"}]
                    /\ nr_crashed' = [nr_crashed EXCEPT ![s] = IF inWindow THEN @ + 1 ELSE 1]
                    /\ ageCrashed' = [ageCrashed EXCEPT ![s] = IF inWindow THEN @ ELSE 0]
                    /\ UNCHANGED rebooted

\* Mutant: "if" for "while": one process reaped per signal
WaitForOneProcessOnce ==
    /\ ~rebooted /\ loop = "reap"
    /\ IF zombies = {}
       THEN /\ UNCHANGED <<flags, pid, ageCrashed, nr_crashed, rebooted, crashLog, zombies>>
       ELSE \E z \in zombies : reap(z)
    /\ loop' = "top"
    /\ UNCHANGED <<ageStarted, deadline, uptime, procs, sigPending, ctlSent>>

(* The loop while (!wait_for_one_process(0)): reap one zombie, or, with    *)
(* none left, waitpid fails and the main loop continues.                   *)
WaitForOneProcess ==
    /\ ~rebooted /\ loop = "reap"
    /\ IF zombies = {}
       THEN /\ loop' = "top"
            /\ UNCHANGED <<flags, pid, ageCrashed, nr_crashed, rebooted, crashLog, zombies>>
       ELSE /\ \E z \in zombies : reap(z)
            /\ UNCHANGED loop
    /\ UNCHANGED <<ageStarted, deadline, uptime, procs, sigPending, ctlSent>>

(* poll reports the property socket with a ctl.start message:             *)
(* handle_control_message -> msg_start -> service_start(svc, args), where *)
(* dyn says whether the name carried ":args".                             *)
CtlStart(s, dyn) ==
    /\ ~rebooted /\ loop = "poll" /\ ~sigPending
    /\ ctlSent < MaxCtl
    /\ \E fails \in ForkFailures : SetSt(service_start(St, s, dyn, s \in fails))
    /\ ctlSent' = ctlSent + 1
    /\ loop' = "top"
    /\ UNCHANGED <<ageCrashed, nr_crashed, deadline, uptime, zombies, sigPending,
                   rebooted, crashLog>>

\* A ctl.stop message: msg_stop -> service_stop(svc)
CtlStop(s) ==
    /\ ~rebooted /\ loop = "poll" /\ ~sigPending
    /\ ctlSent < MaxCtl
    /\ SetSt(service_stop(St, s))
    /\ ctlSent' = ctlSent + 1
    /\ loop' = "top"
    /\ UNCHANGED <<ageCrashed, nr_crashed, deadline, uptime, zombies, sigPending,
                   rebooted, crashLog>>

Next ==
    \/ Tick
    \/ \E p \in procs : ProcessExit(p)
    \/ RestartProcesses
    \/ PollTimeout
    \/ SignalReady
    \/ WaitForOneProcess
    \/ \E s \in Svc, dyn \in BOOLEAN : CtlStart(s, dyn)
    \/ \E s \in Svc : CtlStop(s)

(* init is the only thread of its main loop and is always scheduled; the  *)
(* clock always advances.  Children and control messages owe nothing.     *)
Fairness ==
    /\ WF_vars(Tick)
    /\ WF_vars(RestartProcesses)
    /\ WF_vars(PollTimeout)
    /\ WF_vars(SignalReady)
    /\ WF_vars(WaitForOneProcess)

Spec == Init /\ [][Next]_vars /\ Fairness

-----------------------------------------------------------------------------

TypeOK ==
    /\ flags \in [Svc -> SUBSET {"DISABLED", "RUNNING", "RESTARTING"}]
    /\ pid \in [Svc -> Pids \cup {0}]
    /\ ageStarted \in [Svc -> 0..StartCap] /\ ageCrashed \in [Svc -> 0..CrashCap]
    /\ nr_crashed \in [Svc -> Nat]
    /\ deadline \in {NoDeadline} \cup 0..RestartDelay
    /\ procs \cup zombies \subseteq [pid : Pids, svc : Svc]
    /\ loop \in {"top", "poll", "reap"}
    /\ crashLog \in [Svc -> Seq(0..CrashCap)] /\ uptime \in 0..StartCap

\* The pids of children that have exited and not been waited for
ZombiePids == {z.pid : z \in zombies}

(* init never mistakes a process for another service's: a service whose   *)
(* pid is set names a child that init forked for that very service, live  *)
(* or not yet reaped, so service_find_by_pid in wait_for_one_process       *)
(* finds the right service although the kernel recycles pids; a RUNNING   *)
(* service has such a child, and a RESTARTING one has none.               *)
PidsNameOwnChild ==
    \A s \in Svc :
        /\ pid[s] # 0 => [pid |-> pid[s], svc |-> s] \in procs \cup zombies
        /\ "RUNNING" \in flags[s] => pid[s] # 0
        /\ "RESTARTING" \in flags[s] => pid[s] = 0 /\ "RUNNING" \notin flags[s]

(* The device reboots into recovery only after a critical service exited  *)
(* more than CRITICAL_CRASH_THRESHOLD times within CRITICAL_CRASH_WINDOW   *)
(* seconds, as the comment on the two constants says: the last            *)
(* CrashThreshold + 1 crashes wait_for_one_process counted are all at      *)
(* most CrashWindow seconds old at the reboot.                            *)
RecoveryOnlyAfterCrashBurst ==
    rebooted =>
        \E s \in Critical :
            /\ Len(crashLog[s]) = CrashThreshold + 1
            /\ \A i \in DOMAIN crashLog[s] : crashLog[s][i] <= CrashWindow

(* Conversely, the comment "if we crash >4 times ... in 4 minutes, goto    *)
(* recovery": whenever a critical service's last CrashThreshold + 1        *)
(* counted crashes all lie within CrashWindow seconds, init has rebooted.  *)
CrashBurstForcesRecovery ==
    \A s \in Critical :
        /\ Len(crashLog[s]) = CrashThreshold + 1
        /\ \A i \in DOMAIN crashLog[s] : crashLog[s][i] <= CrashWindow
        => rebooted

(* Every child that exits is eventually reaped: sigchld_handler's byte    *)
(* wakes poll and the while loop around wait_for_one_process waits for    *)
(* every zombie, also when several exits share one readable socket.       *)
ZombiesReaped ==
    \A p \in Pids : (p \in ZombiePids) ~> (p \notin ZombiePids \/ rebooted)

(* A service that is not oneshot and whose child exits while the service  *)
(* is enabled runs again: after the reap, restart_processes starts it once *)
(* five seconds have passed since its last start, poll waking up in time   *)
(* through process_needs_restart; unless it was disabled meanwhile or the  *)
(* device rebooted.                                                        *)
Exited(s) ==
    /\ s \notin Oneshot /\ "DISABLED" \notin flags[s]
    /\ pid[s] # 0 /\ [pid |-> pid[s], svc |-> s] \in zombies

ExitedServiceRestarted ==
    \A s \in Svc :
        Exited(s) ~> (\E p \in procs : p.svc = s /\ p.pid = pid[s])
                     \/ "DISABLED" \in flags[s] \/ rebooted

(* At most one child of a service is alive at any time: starting a        *)
(* service whose process is still exiting must not fork a second one (the *)
(* comment in service_start: "if they're in the process of exiting, we've *)
(* ensured that they will immediately restart on exit").                  *)
AtMostOneInstance ==
    \A s \in Svc : Cardinality({p \in procs : p.svc = s}) <= 1

=============================================================================

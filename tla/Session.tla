------------------------------- MODULE Session -------------------------------
(***************************************************************************)
(* The programs of userspace/ that run from boot to the prompt, as callers *)
(* of Process: init starts getty on the terminal and again when it ends,   *)
(* getty makes a session and starts login, login starts the shell, and the *)
(* shell runs one job at a time in the foreground.  ^C can come any time.  *)
(***************************************************************************)
EXTENDS Process

CONSTANT MaxInterrupts   \* bound: how often ^C is typed

VARIABLES keys,  \* how often it was
          prog,  \* the program each process runs and where it is in it
          got    \* the value the last wait of each process returned

allvars == <<vars, keys, prog, got>>

Run(name, at) == [name |-> name, at |-> at]

SessionInit ==
    /\ Init
    /\ keys = 0
    /\ prog = [p \in Pids |-> Run(IF p = InitPid THEN "init" ELSE "none", "start")]
    /\ got = [p \in Pids |-> 0]

Is(t, name, at) == prog[t] = Run(name, at)
Goto(t, at) == prog' = [prog EXCEPT ![t].at = at]

\* spawn() of program name; the caller goes on at the given place.
StartProgram(t, name, setpgid, at) ==
    /\ SpawnLink(t, setpgid)
    /\ prog' = [prog EXCEPT ![t].at = at, ![next_pid] = Run(name, "start")]
    /\ got' = [got EXCEPT ![t] = next_pid]

\* wait(): the child that was reaped, or 0 for an error.
WaitCall(t, from, to) ==
    /\ InUser(t) /\ prog[t].at = from
    /\ WaitScan(t)
    /\ Goto(t, to)
    /\ got' = got

\* Mutant: any child that ends is replaced by a getty.
InitRespawnsAlways(t) ==
    \/ Is(t, "init", "start") /\ StartProgram(t, "getty", FALSE, "wait")
    \/ prog[t].name = "init" /\ WaitCall(t, "wait", "start")
\* init main: start getty, wait, start it again when it was getty that ended.
InitStep(t) ==
    \/ Is(t, "init", "start") /\ StartProgram(t, "getty", FALSE, "wait")
    \/ prog[t].name = "init" /\ WaitCall(t, "wait", "waited")
    \/ /\ Is(t, "init", "waited") /\ InUser(t)
       /\ Goto(t, IF ~Exists(got[t]) THEN "start" ELSE "wait")
       /\ UNCHANGED <<vars, got>>

\* getty main: setsid, open the terminal (three times, the first counts),
\* start login, wait for it, end.
GettyStep(t) ==
    \/ Is(t, "getty", "start") /\ sys_setsid(t) /\ Goto(t, "open") /\ UNCHANGED got
    \/ /\ Is(t, "getty", "open")
       /\ IF MayTakeTty(t) THEN TtyOpenCheck(t) ELSE InUser(t) /\ UNCHANGED vars
       /\ Goto(t, "login") /\ UNCHANGED got
    \/ Is(t, "getty", "login") /\ StartProgram(t, "login", FALSE, "wait")
    \/ prog[t].name = "getty" /\ WaitCall(t, "wait", "end")

\* login main: start the shell, wait for it, end.
LoginStep(t) ==
    \/ Is(t, "login", "start") /\ StartProgram(t, "sh", FALSE, "wait")
    \/ prog[t].name = "login" /\ WaitCall(t, "wait", "end")

\* tcsetpgrp(); the shell ignores a failure.
tcsetpgrp(t, g) ==
    IF MayForeground(t, g) THEN SetForeground(t, g) ELSE InUser(t) /\ UNCHANGED vars

\* Mutant: the terminal is not given back to the shell's group.
ShellKeepsJobInFront(t) ==
    /\ Is(t, "sh", "restore") /\ InUser(t) /\ UNCHANGED vars
    /\ Goto(t, "start") /\ UNCHANGED got

\* tcsetpgrp(save_pgid) after the job.
ShellRestore(t) ==
    /\ Is(t, "sh", "restore")
    /\ tcsetpgrp(t, proc[t].pgid)
    /\ Goto(t, "start") /\ UNCHANGED got

\* sh main and execute: a job in its own group, brought to the foreground.
ShellStep(t) ==
    \/ Is(t, "sh", "start") /\ InUser(t) /\ Goto(t, "end") /\ UNCHANGED <<vars, got>>
    \/ Is(t, "sh", "start") /\ StartProgram(t, "job", TRUE, "front")
    \/ /\ Is(t, "sh", "front")
       /\ tcsetpgrp(t, got[t])
       /\ Goto(t, "wait") /\ UNCHANGED got
    \/ prog[t].name = "sh" /\ WaitCall(t, "wait", "restore")
    \/ ShellRestore(t)

\* main returns; a job ends when it likes.
ProgramEnd(t) ==
    /\ prog[t].at = "end" \/ prog[t].name = "job"
    /\ Exit(t) /\ UNCHANGED <<prog, got>>

UserStep(t) == InitStep(t) \/ GettyStep(t) \/ LoginStep(t) \/ ShellStep(t) \/ ProgramEnd(t)

\* The programs have memory: their spawns do not fail.
ProcessStep(t) ==
    \/ UserStep(t)
    \/ (IF At(t, "spawn") THEN SpawnReady(t) ELSE KernelStep(t)) /\ UNCHANGED <<prog, got>>

SessionNext ==
    \/ \E t \in Pids : ProcessStep(t) /\ UNCHANGED keys
    \/ /\ keys < MaxInterrupts /\ keys' = keys + 1
       /\ pgrp_send_signal /\ UNCHANGED <<prog, got>>

SessionSpec == SessionInit /\ [][SessionNext]_allvars

-----------------------------------------------------------------------------
Lives(p) == proc[p].status \in {"RUNNING", "INTR_SLEEPING"}

\* init never has two gettys on the terminal.
OneGetty ==
    \A p, q \in Pids :
        prog[p].name = "getty" /\ prog[q].name = "getty" /\ Lives(p) /\ Lives(q) => p = q

\* A getty that has opened the terminal owns it, also when the session before it
\* was killed by ^C: task_zombify frees the terminal before init can start the next.
GettyOwnsTerminal ==
    \A p \in Pids :
        prog[p].name = "getty" /\ prog[p].at \in {"wait", "end"} /\ Lives(p)
            => proc[p].tty /\ tty.session_id = p

\* At the prompt the shell's own group is in the foreground, whatever became of
\* the job it ran.
PromptInForeground ==
    \A p \in Pids :
        Is(p, "sh", "start") /\ Lives(p) /\ proc[p].tty => tty.fg_pgrp = proc[p].pgid
=============================================================================

------------------------------- MODULE MCHost -------------------------------
(***************************************************************************)
(* What runs beside the timing model, for TLC: a behaviour is one of the   *)
(* unit `host'.  The ways to use the simulator that FastForward,           *)
(* ThreadCalls and Processes look at, what else happens to the futex of    *)
(* FutexWakes, the instructions that the decoder is given, and what the    *)
(* syscalls of SyscallVirt ask for.                                        *)
(***************************************************************************)
EXTENDS FastForward, TLC

CONSTANTS p0, p1, p2
Use(s, st, t, h, f, x) == [synced |-> s, startFF |-> st, toggled |-> t, hooks |-> h, ffi |-> f, exits |-> x]

\* p0 is toggled, and p1 stops the others until it begins; p1 is toggled, which may end with its
\* event queued, and stops the others, beside FFI points of p2; p1 and p2 have FFI points; or p0 and
\* p1 do.
PassUses == {Use({p1}, {p1}, {p0}, Procs, {}, {p1, p2}),
             Use({p1}, {}, {p1}, {}, {p2}, {p0, p1}),
             Use({p0}, {p0, p1}, {}, {p0}, {p1, p2}, {p0}),
             Use({}, {p0}, {}, {}, {p0, p1}, {p2})}

\* Two processes are toggled.
BadUses == {Use({}, {}, {p0, p1}, {}, {}, {})}

-----------------------------------------------------------------------------
(* Instructions: registers 6 to 8 are any of the machine's. *)
Rg(reg, r, w) == [kind |-> "reg", reg |-> reg, read |-> r, write |-> w]
Rd(reg) == Rg(reg, TRUE, FALSE)
Wr(reg) == Rg(reg, FALSE, TRUE)
RW(reg) == Rg(reg, TRUE, TRUE)
Mem(base, index, r, w) == [kind |-> "mem", base |-> base, index |-> index, read |-> r, write |-> w]
Imm == [kind |-> "imm", read |-> TRUE, write |-> FALSE]
Agen(base, index) == [kind |-> "agen", base |-> base, index |-> index, read |-> TRUE, write |-> FALSE]
Ins(op, operands) == [op |-> op, operands |-> operands, bytes |-> 4, atomic |-> FALSE, lockPrefix |-> FALSE]
Atomic(i, prefix) == [i EXCEPT !.atomic = TRUE, !.lockPrefix = prefix]
Ld == Mem(6, 7, TRUE, FALSE)
St == Mem(6, 0, FALSE, TRUE)
Up == Mem(6, 7, TRUE, TRUE)
Flags == 4

Plain == {"MOV", "MOVAPS", "MOVMSKPS", "MOVNTI", "CVTPD2PS", "CVTPS2PD", "CVTSS2SD", "CVTDQ2PS", "CVTDQ2PD", "CVTPI2PD", "CBW", "CWD", "BSF"}
Binary == {"ADDPD", "BLENDPS", "DIVPS", "MULSS", "MULSD", "RSQRTPS", "PADDB", "PMOVMSKB", "CVTSI2SD", "MOVHPS", "X87"}
Alu == {"ADD", "MUL", "RCR", "SHL", "ADC", "SHLD", "SHRD", "TEST"}
MCShapes ==
    {Ins(op, <<Wr(6), Rd(7)>>) : op \in Plain} \cup {Ins(op, <<Wr(6), Ld>>) : op \in Plain}
    \cup {Ins("MOV", <<St, Rd(7)>>), Ins("POP", <<Ld, Wr(6)>>), Ins("PUSH", <<Rd(6), St>>), Ins("PUSH", <<Ld, St>>), Ins("BSWAP", <<RW(6)>>)}
    \cup {Ins(op, <<RW(6), Rd(7)>>) : op \in Binary} \cup {Ins(op, <<RW(6), Ld>>) : op \in Binary}
    \cup {Ins(op, <<RW(6), Rd(7), Wr(Flags)>>) : op \in Alu} \cup {Ins(op, <<Up, Rd(7), Wr(Flags)>>) : op \in Alu}
    \cup {Ins("ADC", <<RW(6), Ld, RW(Flags)>>), Atomic(Ins("ADD", <<Up, Rd(7), Wr(Flags)>>), TRUE),
          Ins("MUL", <<Rd(6), RW(1), Wr(8), Wr(Flags)>>), Ins("MUL", <<Ld, RW(1), Wr(8), Wr(Flags)>>),
          Ins("DIV", <<Rd(6), RW(1), RW(8), Wr(Flags)>>), Ins("DIV", <<Ld, RW(1), RW(8), Wr(Flags)>>), Ins("DIV", <<Rd(6), RW(1), Wr(Flags)>>),
          Ins("LAHF", <<Wr(1), Rd(Flags)>>), Ins("CLD", <<Wr(Flags)>>), Ins("LEA", <<Wr(6), Agen(7, 8)>>), Ins("LEA", <<Wr(6), Agen(7, 0)>>),
          Ins("XCHG", <<RW(6), RW(7)>>), Atomic(Ins("XCHG", <<Up, RW(8)>>), FALSE), Atomic(Ins("XCHG", <<Up, RW(8)>>), TRUE),
          Atomic(Ins("XADD", <<Up, RW(8), Wr(Flags)>>), TRUE), Atomic(Ins("X87", <<>>), TRUE),
          Ins("CMPXCHG", <<RW(6), Rd(7), RW(1), Wr(Flags)>>), Atomic(Ins("CMPXCHG", <<Up, Rd(8), RW(1), Wr(Flags)>>), TRUE)}
    \cup {Ins(op, <<Wr(6), Rd(Flags), Rd(7)>>) : op \in {"CMOV", "FCMOV"}} \cup {Ins(op, <<Wr(6), Ld, Rd(Flags)>>) : op \in {"CMOV", "FCMOV"}}
    \cup {Ins("CMP", <<Rd(6), Rd(7), Wr(Flags)>>), Ins("CMP", <<Rd(6), Ld, Wr(Flags)>>), Ins("CMP", <<Rd(6), Imm, Wr(Flags)>>), Ins("CMP", <<Ld, Imm, Wr(Flags)>>)}
    \cup {Ins(op, <<RW(5), Rd(Flags)>>) : op \in {"JZ", "JO"}} \cup {Ins("LOOP", <<RW(8), RW(5)>>), Ins("JMP", <<Ld, Wr(5)>>)}
    \cup {Ins("CALL", <<Ld, RW(5), St>>), Ins("CALL", <<RW(5), St>>), Ins("RET", <<Ld, Wr(5)>>), Ins("PUSHF", <<Rd(Flags), St>>), Ins("POPF", <<Ld, Wr(Flags)>>)}
    \cup {Ins("PREFETCH", <<Ld>>), Ins("STOSB", <<St, Rd(1)>>), Ins("LODSB", <<Wr(1), Ld>>), Ins("MOVSB", <<St, Ld>>), Ins("CMPSB", <<Ld, Ld, Wr(Flags)>>), Ins("PAUSE", <<>>)}

\* A short one, one of two uops, and one of 8 bytes.
MCFillers == {[Ins("NOP", <<>>) EXCEPT !.bytes = 1], Ins("ADD", <<RW(6), Ld, Wr(Flags)>>), [Ins("MOV", <<Wr(6), Imm>>) EXCEPT !.bytes = 9]}

VARIABLES host, ins, last, uopVec, addr, pre, dec, decoded
DC == INSTANCE Decoder WITH Shapes <- MCShapes, Fillers <- MCFillers, Offsets <- {0, 13}, MaxInstrs <- 8

-----------------------------------------------------------------------------
(* The callbacks of one thread: others only change the flags, which change at any time. *)
Calls(register, blocking, calls, signals) ==
    [registerThreads |-> register, blockingSyscalls |-> blocking, calls |-> calls, signals |-> signals]
MCKinds == {"plain", "timed", "sleep", "badsleep", "exit"}
MCCalls == {Calls(TRUE, FALSE, MCKinds \cup {"vdso"}, FALSE), Calls(FALSE, TRUE, MCKinds, TRUE), Calls(FALSE, FALSE, MCKinds, TRUE)}

VARIABLES calls, th, callsFF, callsEnd, callsFlag, callsFailed
TC == INSTANCE ThreadCalls WITH Tids <- {1}, Uses <- MCCalls, use <- calls, inFastForward <- callsFF,
          terminationConditionMet <- callsEnd, perProcessEndFlag <- callsFlag, failed <- callsFailed
tc == <<calls, th, callsFF, callsEnd, callsFlag, callsFailed>>

-----------------------------------------------------------------------------
(* Three threads on a futex; a call wakes one, two or all of them. *)
VARIABLES happens, maxAllowedFutexWakeups, unmatchedFutexWakeups, futexPc, maxWakes, wokenUp, futexFailed
FX == INSTANCE FutexWakes WITH Threads <- 1 .. 3, Values <- {1, 2}, MaxAllowed <- 4,
          Hosts <- {{}, {"lost"}, {"late"}, {"external"}}, pc <- futexPc, failed <- futexFailed
fx == <<happens, maxAllowedFutexWakeups, unmatchedFutexWakeups, futexPc, maxWakes, wokenUp, futexFailed>>

-----------------------------------------------------------------------------
(* Two processes of the configuration, of which one is restarted, and a third that one of them *)
(* forks; or two that crash and are interrupted.                                               *)
Config(synced, start, forks, crashes, interrupts) ==
    [launched |-> 2, restarts |-> [i \in 0 .. 1 |-> i], startFF |-> start, synced |-> synced,
     forks |-> forks, crashes |-> crashes, interrupts |-> interrupts]
MCConfigs == {Config("always", {1}, TRUE, FALSE, FALSE), Config("never", {}, FALSE, TRUE, TRUE)}

VARIABLES config, pc, code, node, procExited, numProcs, activeProcs, ffProcs, syncedFFProcs, conditionMet,
          gmReady, hpc, status, attached, progress, stalled, termStatus
PR == INSTANCE Processes WITH LineSize <- 3, Uses <- MCConfigs, MaxStall <- 1, use <- config,
          globalActiveProcs <- activeProcs, globalFFProcs <- ffProcs, globalSyncedFFProcs <- syncedFFProcs,
          terminationConditionMet <- conditionMet
prMoves == <<pc, code, node, procExited, numProcs, activeProcs, ffProcs, syncedFFProcs, conditionMet,
             gmReady, hpc, status, attached, progress, stalled, termStatus>>
pr == <<config, prMoves>>

-----------------------------------------------------------------------------
(* What the syscalls of programs are told: two faked paths among up to two symlinks; sockets of *)
(* two domains; the clocks of two processes; the cpus of a mask.                                 *)
Path(abs, comps) == [abs |-> abs, comps |-> comps]
MCFileSystems ==
    LET targets == {Path(TRUE, <<"sys">>), Path(FALSE, <<"..", "sys">>), Path(FALSE, <<"b">>), Path(TRUE, <<"a", "b">>),
                    Path(FALSE, <<"..", "b", "..">>), Path(TRUE, <<".", "sys">>)}
    IN UNION {[links -> targets] : links \in SUBSET {<<"a">>, <<"a", "b">>}}
MCOpens ==
    LET paths == UNION {[1 .. n -> {"a", "b", "sys", ".."}] : n \in 1 .. 2} \cup {<<"system">>, <<"a", "b", "a">>, <<"b", "..", "a">>}
                 \cup {<<".", "sys">>, <<".", "a">>, <<"a", ".", "b">>, <<"b", ".", "..", "sys">>}
    IN [dir : {None}, abs : BOOLEAN, comps : paths]
       \cup [dir : {<<"b">>, <<"sys">>}, abs : BOOLEAN, comps : {<<"a">>, <<"..", "sys">>}]

VARIABLES links, opens, cur, numSymlinks, opened, at, asked, sent, bound, realToVirt, virtToReal, pvLock,
          hostNs, globPhaseCycles, offsetNs, inFF, nop, reads, seen, late, perProcessCpuEnum, mask
SV == INSTANCE SyscallVirt WITH fakedPaths <- {<<"sys">>, <<"b", "a">>}, NamePrefixes <- {<<"sys", "system">>},
          FileSystems <- MCFileSystems, Opens <- MCOpens, Cwd <- <<"a">>, MaxSymlinks <- 8, KernelLinks <- 3,
          Sockets <- 1 .. 3, Domain <- <<1, 1, 2>>, VirtPorts <- {1, 2}, RealPorts <- {1, 2},
          Procs <- {1, 2}, freqMHz <- 2000, MaxHost <- 3, numCores <- 4, call <- opens
openVars == <<links, opens, cur, numSymlinks, opened>>
portVars == <<at, asked, sent, bound, realToVirt, virtToReal, pvLock>>
clockVars == <<hostNs, globPhaseCycles, offsetNs, inFF, nop, reads, seen, late>>
cpuVars == <<perProcessCpuEnum, mask>>
sv == <<openVars, portVars, clockVars, cpuVars>>

-----------------------------------------------------------------------------
dc == <<ins, last, uopVec, addr, pre, dec, decoded>>
hostVars == <<host, vars, dc, tc, fx, pr, sv>>

\* The others keep one initial state.
HostInit ==
    /\ host \in {"ff", "decoder", "threads", "futex", "processes", "paths", "ports", "clocks", "cpus"}
    /\ Init /\ (host # "ff" => use = CHOOSE u \in Uses : TRUE)
    /\ DC!DecoderInit /\ (host # "decoder" => ins = (CHOOSE i \in MCFillers : TRUE) /\ addr = 0)
    /\ TC!Init /\ (host # "threads" => calls = (CHOOSE u \in MCCalls : TRUE) /\ callsFF)
    /\ FX!Init /\ (host # "futex" => happens = {})
    /\ PR!Init /\ (host # "processes" => config = CHOOSE u \in MCConfigs : TRUE)
    /\ links \in (IF host = "paths" THEN MCFileSystems ELSE {<<>>})
    /\ opens \in (IF host = "paths" THEN MCOpens ELSE {CHOOSE o \in MCOpens : TRUE})
    /\ cur = SV!StartPath(opens) /\ numSymlinks = 0 /\ opened = "no"
    /\ SV!PortInit /\ SV!ClockInit /\ (host # "clocks" => ~inFF[1] /\ ~inFF[2])
    /\ SV!CpuInit /\ (host # "cpus" => ~perProcessCpuEnum /\ mask = {0})

Forward == host = "ff" /\ Next /\ UNCHANGED <<host, dc, tc, fx, pr, sv>>
Decode == host = "decoder" /\ DC!DecoderNext /\ UNCHANGED <<host, vars, tc, fx, pr, sv>>
Call == host = "threads" /\ TC!Next /\ UNCHANGED <<host, vars, dc, fx, pr, sv>>
Futex == host = "futex" /\ FX!Next /\ UNCHANGED <<host, vars, dc, tc, pr, sv>>
Run == host = "processes" /\ PR!Next /\ UNCHANGED <<host, vars, dc, tc, fx, sv>>
Open ==
    /\ host = "paths" /\ SV!PatchOpen
    /\ UNCHANGED <<host, vars, dc, tc, fx, pr, portVars, clockVars, cpuVars>>
Bind ==
    /\ host = "ports" /\ SV!PortNext
    /\ UNCHANGED <<host, vars, dc, tc, fx, pr, openVars, clockVars, cpuVars>>
Clock ==
    /\ host = "clocks" /\ SV!ClockNext
    /\ UNCHANGED <<host, vars, dc, tc, fx, pr, openVars, portVars, cpuVars>>
HostNext == Open \/ Bind \/ Clock \/ Forward \/ Decode \/ Call \/ Futex \/ Run
HostSpec ==
    /\ HostInit /\ [][HostNext]_hostVars
    /\ \A p \in Procs : /\ WF_moves(host = "ff" /\ Steps(p)) /\ WF_moves(host = "ff" /\ FFThread(p))
                         /\ WF_moves(host = "ff" /\ PhaseEnds(p))
    /\ WF_moves(host = "ff" /\ EndOfPhase) /\ WF_moves(host = "ff" /\ Process0Ends)
    /\ \A i \in 0 .. 2 : /\ WF_prMoves(host = "processes" /\ PR!Process(i))
                         /\ WF_prMoves(host = "processes" /\ PR!chldSigHandler(i))
    /\ WF_prMoves(host = "processes" /\ PR!Process0Ends) /\ WF_prMoves(host = "processes" /\ PR!Harness)

\* The decoder and its block.
DecoderSound == DC!DecoderSound

\* The threads of a program, its futexes, the processes, and the patched syscalls: what the
\* callbacks rely on, the wakes that match waits, who is counted, and what the program is told.
ProgramSound == TC!ThreadsSound /\ FX!FutexSound /\ PR!ProcessesSound /\ SV!VirtSound

\* The simulation ends, and the harness with it.
AllEnds == Terminates /\ (host = "processes" => PR!HarnessEnds)
=============================================================================

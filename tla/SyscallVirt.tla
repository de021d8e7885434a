----------------------------- MODULE SyscallVirt -----------------------------
(***************************************************************************)
(* What the patches of virt/ make programs see: the files that are faked   *)
(* (fs.cpp), the ports that are virtualised (ports.cpp,                    *)
(* port_virtualizer.h), the clocks (time.cpp), and the cpus (cpu.cpp,      *)
(* cpuenum.h).  The four have nothing in common but the moments at which   *)
(* they are called: before a syscall and after it.                         *)
(***************************************************************************)
EXTENDS Integers, Sequences, FiniteSets, SequencesExt

CONSTANTS
    \* Paths are sequences of names, without the empty ones, which resolvepath removes.
    fakedPaths,     \* what getFakedPaths finds in patchRoot
    NamePrefixes,   \* the pairs of names of which the first is a prefix of the second
    FileSystems,    \* the symlinks there may be: functions from paths to [abs, comps]
    Opens,          \* the calls: [dir, abs, comps], dir = None or the path of dirfd
    Cwd, None,
    MaxSymlinks,    \* bound: the iterations of PatchOpen (1024)
    KernelLinks,    \* bound: the symlinks that the kernel follows (40)
    Sockets,        \* each with its domain
    Domain,
    VirtPorts, RealPorts,
    Procs,          \* the processes of one clock domain, each with one thread
    freqMHz,
    MaxHost,        \* bound: time of the host
    numCores        \* the cores of the system

-----------------------------------------------------------------------------
(* SYS_open and SYS_openat.                                                *)

VARIABLES links, call, cur, numSymlinks, opened
openVars == <<links, call, cur, numSymlinks, opened>>

dirnamepath(path) == IF path = <<>> THEN <<>> ELSE Front(path)
abspath(target, base) == IF target.abs THEN target.comps ELSE base \o target.comps

\* readlink(): the kernel skips ".", and nothing that ends with it is a link.
NoDots(path) == SelectSeq(path, LAMBDA c : c # ".")
IsLink(path) == Last(path) # "." /\ NoDots(path) \in DOMAIN links

\* At most one symlink is resolved, and the ".." before it; "." is kept like any other name.
RECURSIVE Resolve(_, _)
Resolve(base, comps) ==
    IF comps = <<>> THEN base
    ELSE IF Head(comps) = ".." THEN Resolve(dirnamepath(base), Tail(comps))
    ELSE LET p == Append(base, Head(comps)) IN
         IF IsLink(p) THEN abspath(links[NoDots(p)], base) \o Tail(comps) ELSE Resolve(p, Tail(comps))
resolvepath(path) == Resolve(<<>>, path)

\* strncmp compares as much as the faked path has.
Fakes(faked, path) ==
    /\ Len(path) >= Len(faked)
    /\ Front(faked) = SubSeq(path, 1, Len(faked) - 1)
    /\ \/ Last(faked) = path[Len(faked)]
       \/ <<Last(faked), path[Len(faked)]>> \in NamePrefixes
Matches(path) == \E faked \in fakedPaths : Fakes(faked, path)

\* The name that is looked for: that of dirfd comes before any other.
StartPath(c) == IF c.dir # None THEN c.dir \o c.comps ELSE abspath(c, Cwd)

OpenInit ==
    /\ links \in FileSystems /\ call \in Opens
    /\ cur = StartPath(call) /\ numSymlinks = 0 /\ opened = "no"

\* Mutant: the links are resolved first and compared once.
PatchOpenOnce ==
    /\ opened = "no"
    /\ \/ Matches(cur) /\ opened' = "patched" /\ UNCHANGED <<cur, numSymlinks>>
       \/ /\ ~Matches(cur) /\ numSymlinks = 0 /\ resolvepath(cur) # cur
          /\ cur' = resolvepath(cur) /\ numSymlinks' = numSymlinks + 1 /\ UNCHANGED opened
       \/ /\ ~Matches(cur) /\ (resolvepath(cur) = cur \/ numSymlinks = 1)
          /\ opened' = "unpatched" /\ UNCHANGED <<cur, numSymlinks>>
    /\ UNCHANGED <<links, call>>

\* One iteration: compare, and resolve one link more.
PatchOpen ==
    /\ opened = "no"
    /\ \/ /\ numSymlinks < MaxSymlinks /\ Matches(cur)
          /\ opened' = "patched" /\ UNCHANGED <<cur, numSymlinks>>
       \/ /\ numSymlinks < MaxSymlinks /\ ~Matches(cur) /\ resolvepath(cur) # cur
          /\ cur' = resolvepath(cur) /\ numSymlinks' = numSymlinks + 1 /\ UNCHANGED opened
       \/ /\ numSymlinks = MaxSymlinks \/ (~Matches(cur) /\ resolvepath(cur) = cur)
          /\ opened' = "unpatched" /\ UNCHANGED <<cur, numSymlinks>>
    /\ UNCHANGED <<links, call>>

\* How the kernel finds the file: path_resolution(7).
RECURSIVE Walk(_, _, _)
Walk(base, comps, n) ==
    IF n < 0 THEN None
    ELSE IF comps = <<>> THEN base
    ELSE IF Head(comps) = "." THEN Walk(base, Tail(comps), n)
    ELSE IF Head(comps) = ".." THEN Walk(dirnamepath(base), Tail(comps), n)
    ELSE LET p == Append(base, Head(comps)) IN
         IF p \notin DOMAIN links THEN Walk(p, Tail(comps), n)
         ELSE IF links[p].abs THEN Walk(<<>>, links[p].comps \o Tail(comps), n - 1)
         ELSE Walk(base, links[p].comps \o Tail(comps), n - 1)
RealPath ==
    IF call.abs \/ call.dir = None THEN Walk(<<>>, abspath(call, Cwd), KernelLinks)
    ELSE Walk(<<>>, call.dir \o call.comps, KernelLinks)

\* No file that is faked is opened under another name, as the comment in PatchOpen says; but for
\* absolute names that come with a dirfd, to which the dirfd's path is prepended, and for names
\* with a "." in them or in a link, which hides what is after it.
Dotted == \E path \in {call.comps} \cup {links[l].comps : l \in DOMAIN links} : "." \in ToSet(path)
NoFakedFileLeaks ==
    opened = "unpatched" /\ RealPath # None /\ (\E faked \in fakedPaths : IsPrefix(faked, RealPath)) =>
        Dotted \/ (call.abs /\ call.dir # None)

-----------------------------------------------------------------------------
(* SYS_bind, SYS_connect and SYS_getsockname.  The port of a call that is  *)
(* under way is `asked'; 0 stands for no port.                             *)

VARIABLES at, asked, sent, bound, realToVirt, virtToReal, pvLock
portVars == <<at, asked, sent, bound, realToVirt, virtToReal, pvLock>>

PortInit ==
    /\ at = [s \in Sockets |-> "closed"] /\ asked = [s \in Sockets |-> 0]
    /\ sent = [s \in Sockets |-> 0] /\ bound = [s \in Sockets |-> 0]
    /\ realToVirt = [d \in {Domain[s] : s \in Sockets} |-> [r \in RealPorts |-> 0]]
    /\ virtToReal = [d \in {Domain[s] : s \in Sockets} |-> [v \in VirtPorts |-> 0]]
    /\ pvLock = [d \in {Domain[s] : s \in Sockets} |-> None]

lookupReal(d, v) == virtToReal[d][v]
lookupVirt(d, r) == realToVirt[d][r]
Free == RealPorts \ {bound[s] : s \in Sockets}

\* Mutant: the lock is given back before the syscall.
PatchBindUnlocks(s, v) ==
    /\ at[s] = "closed" /\ v # 0 /\ pvLock[Domain[s]] = None
    /\ at' = [at EXCEPT ![s] = "bind"]
    /\ asked' = [asked EXCEPT ![s] = v] /\ sent' = [sent EXCEPT ![s] = lookupReal(Domain[s], v)]
    /\ UNCHANGED <<bound, realToVirt, virtToReal, pvLock>>

\* A port that was bound before keeps its translation, others get any.
PatchBind(s, v) ==
    /\ at[s] = "closed" /\ v # 0 /\ pvLock[Domain[s]] = None
    /\ pvLock' = [pvLock EXCEPT ![Domain[s]] = s]
    /\ at' = [at EXCEPT ![s] = "bind"]
    /\ asked' = [asked EXCEPT ![s] = v] /\ sent' = [sent EXCEPT ![s] = lookupReal(Domain[s], v)]
    /\ UNCHANGED <<bound, realToVirt, virtToReal>>

\* Port 0 is left to the kernel.
BindAny(s) ==
    /\ at[s] = "closed" /\ \E r \in Free : bound' = [bound EXCEPT ![s] = r]
    /\ at' = [at EXCEPT ![s] = "bound"]
    /\ UNCHANGED <<asked, sent, realToVirt, virtToReal, pvLock>>

\* The kernel.
Binds(s) ==
    /\ at[s] = "bind"
    /\ \/ /\ \E r \in Free : sent[s] \in {0, r} /\ bound' = [bound EXCEPT ![s] = r]
          /\ at' = [at EXCEPT ![s] = "succeeded"]
       \/ /\ \A r \in Free : sent[s] \notin {0, r}
          /\ at' = [at EXCEPT ![s] = "failed"] /\ UNCHANGED bound
    /\ UNCHANGED <<asked, sent, realToVirt, virtToReal, pvLock>>

registerBind(d, virt, real) ==
    /\ realToVirt' = [realToVirt EXCEPT ![d][real] = virt]
    /\ virtToReal' = [virtToReal EXCEPT ![d][virt] = real]

PostPatchBind(s) ==
    /\ \/ /\ at[s] = "succeeded" /\ registerBind(Domain[s], asked[s], bound[s])
          /\ at' = [at EXCEPT ![s] = "bound"] /\ UNCHANGED asked
       \/ /\ at[s] = "failed" /\ at' = [at EXCEPT ![s] = "closed"]
          /\ asked' = [asked EXCEPT ![s] = 0] /\ UNCHANGED <<realToVirt, virtToReal>>
    /\ pvLock' = [pvLock EXCEPT ![Domain[s]] = None]
    /\ sent' = [sent EXCEPT ![s] = 0] /\ UNCHANGED bound

Closes(s) ==
    /\ at[s] = "bound" /\ at' = [at EXCEPT ![s] = "closed"]
    /\ asked' = [asked EXCEPT ![s] = 0] /\ bound' = [bound EXCEPT ![s] = 0]
    /\ UNCHANGED <<sent, realToVirt, virtToReal, pvLock>>

PortNext == \E s \in Sockets :
    (\E v \in VirtPorts : PatchBind(s, v)) \/ BindAny(s) \/ Binds(s) \/ PostPatchBind(s) \/ Closes(s)

\* The port a client that asks for v is connected to, and the port that a socket is said to have:
\* those of the kernel, unless they are translated.
PatchConnect(d, v) == IF lookupReal(d, v) = 0 THEN v ELSE lookupReal(d, v)
PatchGetsockname(s) ==
    LET v == lookupVirt(Domain[s], bound[s]) IN IF v = 0 THEN bound[s] ELSE v

\* connect() to the port that a server of the domain has bound reaches it, and getsockname() tells
\* the server that port, whatever was bound before; and each port has one server in its domain.
ServersAreFound ==
    \A s \in Sockets : at[s] = "bound" /\ asked[s] # 0 =>
        PatchConnect(Domain[s], asked[s]) = bound[s] /\ PatchGetsockname(s) = asked[s]

-----------------------------------------------------------------------------
(* The clocks.  A call decides before the syscall whether it is patched,   *)
(* and reads the clock after it.                                           *)

VARIABLES hostNs, globPhaseCycles, offsetNs, inFF, nop, reads, seen, late
clockVars == <<hostNs, globPhaseCycles, offsetNs, inFF, nop, reads, seen, late>>

cyclesToNs(cycles) == (cycles * 1000) \div freqMHz
SimNs == offsetNs + cyclesToNs(globPhaseCycles)

\* The first process has started, and captured the clocks.
ClockInit ==
    /\ hostNs = 1 /\ globPhaseCycles = 0 /\ offsetNs = 1
    /\ inFF \in [Procs -> BOOLEAN] /\ nop = inFF
    /\ reads = [p \in Procs |-> "no"]
    /\ seen = [p \in Procs |-> 0] /\ late = [p \in Procs |-> FALSE]

HostTicks == hostNs < MaxHost /\ hostNs' = hostNs + 1 /\ UNCHANGED <<globPhaseCycles, offsetNs, inFF, nop, reads, seen, late>>

\* The simulation is not faster than the host.
PhaseEnds ==
    /\ offsetNs + cyclesToNs(globPhaseCycles + 1) <= hostNs
    /\ \E p \in Procs : ~nop[p]
    /\ globPhaseCycles' = globPhaseCycles + 1
    /\ UNCHANGED <<hostNs, offsetNs, inFF, nop, reads, seen, late>>

EntersFF(p) ==
    /\ ~inFF[p] /\ inFF' = [inFF EXCEPT ![p] = TRUE]
    /\ UNCHANGED <<hostNs, globPhaseCycles, offsetNs, nop, reads, seen, late>>

\* Mutant: only the start of a domain captures the clocks.
VirtCaptureClocksOnce == UNCHANGED offsetNs

VirtCaptureClocks == offsetNs' = hostNs - cyclesToNs(globPhaseCycles)

ExitsFF(p) ==
    /\ inFF[p] /\ inFF' = [inFF EXCEPT ![p] = FALSE]
    /\ VirtCaptureClocks
    /\ UNCHANGED <<hostNs, globPhaseCycles, nop, reads, seen, late>>

\* The thread notices (TakeBarrier, FFBasicBlock) when it is in no syscall.
Notices(p) ==
    /\ nop[p] # inFF[p] /\ reads[p] = "no" /\ nop' = [nop EXCEPT ![p] = inFF[p]]
    /\ UNCHANGED <<hostNs, globPhaseCycles, offsetNs, inFF, reads, seen, late>>

SkipTimeVirt(p) == nop[p] \/ inFF[p]

PatchClockGettime(p) ==
    /\ reads[p] = "no"
    /\ reads' = [reads EXCEPT ![p] = IF SkipTimeVirt(p) THEN "host" ELSE "virt"]
    /\ UNCHANGED <<hostNs, globPhaseCycles, offsetNs, inFF, nop, seen, late>>

\* `late': the host's clock, though the process has left fast-forward.
VirtClockGettime(p) ==
    /\ reads[p] # "no" /\ reads' = [reads EXCEPT ![p] = "no"]
    /\ seen' = [seen EXCEPT ![p] = IF reads[p] = "virt" THEN SimNs ELSE hostNs]
    /\ late' = [late EXCEPT ![p] = reads[p] = "host" /\ ~inFF[p]]
    /\ UNCHANGED <<hostNs, globPhaseCycles, offsetNs, inFF, nop>>

ClockNext ==
    \/ HostTicks \/ PhaseEnds
    \/ \E p \in Procs : EntersFF(p) \/ ExitsFF(p) \/ Notices(p) \/ PatchClockGettime(p) \/ VirtClockGettime(p)

\* The clock that a program sees does not go back, over fast-forwards in which it saw the host's and
\* those of the other processes of its domain; but for a look at the host's clock between the end of
\* a fast-forward and the thread's next basic block.
ClocksGoForward ==
    \A p \in Procs :
        /\ ~SkipTimeVirt(p) /\ ~late[p] => seen[p] <= SimNs
        /\ seen[p] <= hostNs /\ SimNs <= hostNs

-----------------------------------------------------------------------------
(* The cpus that a process has and where it runs; cores are 0 and up.      *)

VARIABLES perProcessCpuEnum, mask
cpuVars == <<perProcessCpuEnum, mask>>
Cores == 0 .. numCores - 1
NotScheduled == numCores + 1

CpuInit == perProcessCpuEnum \in BOOLEAN /\ mask \in SUBSET Cores \ {{}}

\* Mutant: the cpus before a core are counted with those that the process may not use.
cpuenumCpuAll(cid) ==
    IF cid = NotScheduled THEN (IF perProcessCpuEnum THEN 0 ELSE CHOOSE i \in mask : \A j \in mask : i <= j)
    ELSE cid

cpuenumCpu(cid) ==
    IF cid = NotScheduled THEN (IF perProcessCpuEnum THEN 0 ELSE CHOOSE i \in mask : \A j \in mask : i <= j)
    ELSE IF perProcessCpuEnum THEN Cardinality({i \in mask : i < cid})
    ELSE cid

cpuenumNumCpus == IF perProcessCpuEnum THEN Cardinality(mask) ELSE numCores
cpuenumMask == IF perProcessCpuEnum THEN 0 .. cpuenumNumCpus - 1 ELSE mask

\* The syscalls; sched_setaffinity() changes nothing.
PatchGetcpu(cid) == cpuenumCpu(cid)
PatchSchedGetaffinity == cpuenumMask

\* What getcpu() says is one of the cpus of sched_getaffinity(), and different cores are different cpus.
CpusAgree ==
    /\ \A cid \in mask \cup {NotScheduled} : PatchGetcpu(cid) \in PatchSchedGetaffinity
    /\ \A c1, c2 \in mask : PatchGetcpu(c1) = PatchGetcpu(c2) => c1 = c2

Init == OpenInit /\ PortInit /\ ClockInit /\ CpuInit
Next ==
    \/ PatchOpen /\ UNCHANGED <<portVars, clockVars, cpuVars>>
    \/ PortNext /\ UNCHANGED <<openVars, clockVars, cpuVars>>
    \/ ClockNext /\ UNCHANGED <<openVars, portVars, cpuVars>>
virtVars == <<openVars, portVars, clockVars, cpuVars>>
Spec == Init /\ [][Next]_virtVars

\* What programs see of the patches fits together.
VirtSound == NoFakedFileLeaks /\ ServersAreFound /\ ClocksGoForward /\ CpusAgree
=============================================================================

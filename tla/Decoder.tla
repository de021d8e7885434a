------------------------------ MODULE Decoder ------------------------------
(***************************************************************************)
(* The decoder (decoder.cpp): how the instructions of a basic block become *)
(* the uops that the out-of-order core simulates, and in which cycle each  *)
(* is decoded.  What a thread reports of an instruction at run time        *)
(* (Instruction in zsim.cpp) has to agree with its uops.                   *)
(*                                                                         *)
(* An instruction is its opcode (one for each group that is decoded alike),*)
(* its operands and its bytes.  The three passes of decodeBbl over a block *)
(* are one: no pass reads what it has not itself left of the instructions  *)
(* before.                                                                 *)
(***************************************************************************)
EXTENDS Integers, Sequences, FiniteSets, SequencesExt, FiniteSetsExt, TLC

CONSTANTS
    Shapes,         \* instructions: op, operands, bytes, atomic, lockPrefix
    Fillers,        \* those that long blocks are made of
    Offsets,        \* where a block begins in its 16 bytes
    MaxInstrs       \* bound, of the blocks of fillers

VARIABLES
    ins,            \* the next instruction of the block
    last, uopVec,   \* the instruction decoded last, with its fused branch, and its uops
    addr,           \* its address
    pre, dec,       \* the predecoder and the decoders
    decoded         \* history: what was decoded, with the cycles of its passes
decoderVars == <<ins, last, uopVec, addr, pre, dec, decoded>>

-----------------------------------------------------------------------------
(* Registers: 0 is none, then those of the machine, then temporaries.      *)
RAX == 1
RDI == 2
RSI == 3
RFLAGS == 4
RIP == 5
REG_LAST == 9
REG_LOAD_TEMP == REG_LAST + 1
REG_STORE_TEMP == REG_LOAD_TEMP + 4
REG_STORE_ADDR_TEMP == REG_STORE_TEMP + 4
REG_EXEC_TEMP == REG_STORE_ADDR_TEMP + 4
MAX_UOPS_PER_INSTR == 12

PORTS_015 == {0, 1, 5}

\* Flags registers are stored last.
reorderRegs(regs) == SelectSeq(regs, LAMBDA r : r # RFLAGS) \o SelectSeq(regs, LAMBDA r : r = RFLAGS)

Mem(i) == SelectSeq(i.operands, LAMBDA o : o.kind = "mem")
Regs(o) ==
    CASE o.kind = "reg" -> <<o.reg>>
      [] o.kind = "agen" -> SelectSeq(<<o.base, o.index>>, LAMBDA r : r # 0)
      [] OTHER -> <<>>
Instr(i) ==
    [i |-> i,
     loads |-> SelectSeq(Mem(i), LAMBDA o : o.read), stores |-> SelectSeq(Mem(i), LAMBDA o : o.write),
     inRegs |-> reorderRegs(FlattenSeq([k \in DOMAIN i.operands |-> IF i.operands[k].read THEN Regs(i.operands[k]) ELSE <<>>])),
     outRegs |-> reorderRegs(FlattenSeq([k \in DOMAIN i.operands |-> IF i.operands[k].write THEN Regs(i.operands[k]) ELSE <<>>]))]

-----------------------------------------------------------------------------
(* Uops.                                                                   *)
DynUop(type, rs0, rs1, rd0, rd1, lat, ports, extraSlots) ==
    [type |-> type, rs |-> <<rs0, rs1>>, rd |-> <<rd0, rd1>>, lat |-> lat, ports |-> ports, extraSlots |-> extraSlots]
AssertFails == <<DynUop("assert", 0, 0, 0, 0, 0, {}, 0)>>

emitLoad(n, idx, dest) ==
    IF idx >= Len(n.loads) THEN AssertFails
    ELSE <<DynUop("load", n.loads[idx + 1].base, n.loads[idx + 1].index, IF dest = 0 THEN REG_LOAD_TEMP + idx ELSE dest, 0, 0, {2}, 0)>>

emitStore(n, idx, src) ==
    IF idx >= Len(n.stores) THEN AssertFails
    ELSE <<DynUop("storeaddr", n.stores[idx + 1].base, n.stores[idx + 1].index, REG_STORE_ADDR_TEMP + idx, 0, 1, {3}, 0),
           DynUop("store", REG_STORE_ADDR_TEMP + idx, IF src = 0 THEN REG_STORE_TEMP + idx ELSE src, 0, 0, 0, {4}, 0)>>

emitLoads(n) == FlattenSeq([k \in DOMAIN n.loads |-> emitLoad(n, k - 1, 0)])
emitStores(n) == FlattenSeq([k \in DOMAIN n.stores |-> emitStore(n, k - 1, 0)])
emitFence(lat) == <<DynUop("fence", 0, 0, 0, 0, lat, {4}, 0)>>
Exec(rs0, rs1, rd0, rd1, lat, ports) == <<DynUop("general", rs0, rs1, rd0, rd1, lat, ports, 0)>>
Slow(rs0, rs1, rd0, rd1, lat, ports, extraSlots) == <<DynUop("general", rs0, rs1, rd0, rd1, lat, ports, extraSlots)>>

\* Sources and destinations, temporaries first, and two of no register.
srcRegs(n) == [k \in DOMAIN n.loads |-> REG_LOAD_TEMP + k - 1] \o n.inRegs \o <<0, 0>>
dstRegs(n) == [k \in DOMAIN n.stores |-> REG_STORE_TEMP + k - 1] \o n.outRegs \o <<0, 0>>
srcs(n) == Len(n.loads) + Len(n.inRegs)
dsts(n) == Len(n.stores) + Len(n.outRegs)

-----------------------------------------------------------------------------
(* Emitters: the uops of a kind of instruction.                            *)
emitBasicMove(n, ports) ==
    LET inReg == IF Len(n.inRegs) = 1 THEN n.inRegs[1] ELSE 0 IN
    CASE n.loads = <<>> /\ n.stores = <<>> -> Exec(inReg, 0, n.outRegs[1], 0, 1, ports)
      [] n.loads # <<>> /\ n.stores = <<>> -> emitLoad(n, 0, n.outRegs[1])
      [] n.loads = <<>> /\ n.stores # <<>> -> emitStore(n, 0, inReg)
      [] OTHER -> emitLoad(n, 0, 0) \o emitStore(n, 0, REG_LOAD_TEMP)

\* With memory, the lock is implicit.
emitXchg(n) ==
    IF n.loads # <<>>
    THEN IF Len(n.loads) # 1 \/ Len(n.stores) # 1 \/ Len(n.inRegs) # 1 \/ n.inRegs # n.outRegs THEN AssertFails
         ELSE emitLoad(n, 0, 0) \o Exec(n.inRegs[1], 0, REG_EXEC_TEMP, 0, 1, PORTS_015)
                \o Exec(REG_LOAD_TEMP, 0, n.outRegs[1], 0, 1, PORTS_015) \o emitStore(n, 0, REG_EXEC_TEMP)
                \o (IF n.i.lockPrefix THEN <<>> ELSE emitFence(14))
    ELSE IF Len(n.inRegs) # 2 \/ n.inRegs # n.outRegs THEN AssertFails
         ELSE Exec(n.inRegs[1], 0, REG_EXEC_TEMP, 0, 1, PORTS_015) \o Exec(n.inRegs[2], 0, n.outRegs[1], 0, 1, PORTS_015)
                \o Exec(REG_EXEC_TEMP, 0, n.outRegs[2], 0, 1, PORTS_015)

\* A conditional load depends on the comparison, and takes its place as a source of it.
emitConditionalMove(n, ports) ==
    IF Len(n.outRegs) # 1 \/ n.stores # <<>> THEN AssertFails
    ELSE IF n.loads # <<>>
    THEN IF Len(n.loads) # 1 \/ Len(n.inRegs) # 1 THEN AssertFails
         ELSE LET load == emitLoad(n, 0, 0)[1] IN
              Exec(n.inRegs[1], load.rs[2], REG_EXEC_TEMP, 0, 1, ports) \o <<[load EXCEPT !.rs[2] = REG_EXEC_TEMP]>>
    ELSE IF Len(n.inRegs) # 2 THEN AssertFails
         ELSE Exec(n.inRegs[2], n.inRegs[1], REG_EXEC_TEMP, 0, 1, ports)
                \o Exec(n.outRegs[1], REG_EXEC_TEMP, n.outRegs[1], 0, 1, ports)

emitCompareAndExchange(n) ==
    LET s == srcRegs(n) IN LET d == dstRegs(n) IN
    IF srcs(n) # 3 \/ dsts(n) # 3 \/ s[3] # d[2] THEN AssertFails
    ELSE emitLoads(n)
        \o (IF n.loads = <<>>
            THEN Exec(s[1], d[2], REG_EXEC_TEMP, d[3], 1, PORTS_015) \o Exec(s[2], d[3], REG_EXEC_TEMP + 1, 0, 2, PORTS_015)
                   \o Exec(s[3], d[3], REG_EXEC_TEMP + 2, 0, 2, PORTS_015)
                   \o Exec(REG_EXEC_TEMP, REG_EXEC_TEMP + 1, d[1], 0, 2, PORTS_015)
                   \o Exec(REG_EXEC_TEMP + 1, REG_EXEC_TEMP + 2, d[2], 0, 2, PORTS_015)
            ELSE Exec(s[1], d[2], REG_EXEC_TEMP, d[3], 2, PORTS_015) \o Exec(s[2], d[3], d[1], 0, 2, PORTS_015)
                   \o Exec(s[3], REG_EXEC_TEMP, d[2], 0, 2, PORTS_015))
        \o emitStores(n)

Between(n, uops) == emitLoads(n) \o uops \o emitStores(n)

\* Mutant: the stores are emitted before the operation.
emitBasicOpStoresFirst(n, lat, ports, extraSlots) ==
    emitLoads(n) \o emitStores(n) \o Slow(srcRegs(n)[1], srcRegs(n)[2], dstRegs(n)[1], dstRegs(n)[2], lat, ports, extraSlots)

emitBasicOp(n, lat, ports, extraSlots) ==
    Between(n, Slow(srcRegs(n)[1], srcRegs(n)[2], dstRegs(n)[1], dstRegs(n)[2], lat, ports, extraSlots))

\* All its users have chains of two.
emitChainedOp(n, lat1, lat2) ==
    Between(n, Exec(srcRegs(n)[1], srcRegs(n)[2], REG_EXEC_TEMP, 0, lat1, PORTS_015)
                 \o Exec(REG_EXEC_TEMP, srcRegs(n)[2], dstRegs(n)[1], dstRegs(n)[2], lat2, PORTS_015))

emitConvert2Op(n, lat1, lat2, ports1, ports2) ==
    IF n.stores # <<>> \/ Len(n.outRegs) # 1 \/ srcs(n) # 1 THEN <<>>
    ELSE emitLoads(n) \o Exec(srcRegs(n)[1], 0, REG_EXEC_TEMP, 0, lat1, ports1) \o Exec(REG_EXEC_TEMP, 0, n.outRegs[1], 0, lat2, ports2)

emitMul(n) ==
    LET s == srcRegs(n) IN LET d == dstRegs(n) IN
    IF dsts(n) # 3 THEN emitBasicOp(n, 3, {1}, 0)
    ELSE IF srcs(n) > 2 THEN AssertFails
    ELSE Between(n, Exec(s[1], s[2], d[1], REG_EXEC_TEMP, 3, {1}) \o Exec(s[1], s[2], d[2], REG_EXEC_TEMP + 1, 3, {1})
                      \o Exec(REG_EXEC_TEMP, REG_EXEC_TEMP + 1, d[3], 0, 1, PORTS_015))

\* The latency is that of the width of the operand.
emitDiv(n, lat) ==
    LET s == srcRegs(n) IN LET d == dstRegs(n) IN
    IF Len(n.inRegs) < 2 THEN AssertFails
    ELSE IF srcs(n) = 3 /\ dsts(n) = 3
    THEN Between(n, Slow(s[1], s[2], REG_EXEC_TEMP, 0, lat, PORTS_015, lat - 1)
                      \o Slow(s[1], s[3], REG_EXEC_TEMP + 1, 0, lat, PORTS_015, lat - 1)
                      \o Exec(REG_EXEC_TEMP, REG_EXEC_TEMP + 1, d[1], d[2], 1, PORTS_015)
                      \o Exec(REG_EXEC_TEMP, REG_EXEC_TEMP + 1, d[3], 0, 1, PORTS_015))
    ELSE IF srcs(n) <= 2 /\ dsts(n) <= 2 THEN emitBasicOp(n, lat, PORTS_015, lat - 1)
    ELSE <<>>

-----------------------------------------------------------------------------
(* decodeInstr's switch, an operator for every stretch of it: the first    *)
(* opcode stands for all that are decoded as it is.                        *)
Moves(n) ==
    CASE n.i.op = "BSWAP" -> emitBasicMove(n, {1})
      [] n.i.op = "MOVAPS" -> emitBasicMove(n, {5})
      [] n.i.op = "MOVHPS" -> emitBasicOp(n, 1, {5}, 0)
      [] n.i.op = "MOVMSKPS" -> emitBasicMove(n, {0})
      [] n.i.op = "XCHG" -> emitXchg(n)
      [] n.i.op = "CMOV" -> emitConditionalMove(n, PORTS_015)
      [] n.i.op = "FCMOV" -> emitConditionalMove(n, {0})
      [] OTHER -> emitBasicMove(n, PORTS_015)

Arithmetic(n) ==
    CASE n.i.op = "ADC" -> emitChainedOp(n, 1, 1)
      [] n.i.op = "MUL" -> emitMul(n)
      [] n.i.op = "DIV" -> emitDiv(n, 23)
      [] n.i.op = "BSF" -> emitBasicOp(n, 3, PORTS_015, 0)
      [] n.i.op = "RCR" -> emitBasicOp(n, 2, {0, 5}, 0)
      [] n.i.op = "SHL" -> emitBasicOp(n, 1, {0, 5}, 0)
      [] n.i.op = "SHLD" -> emitChainedOp(n, 2, 1)
      [] n.i.op = "SHRD" -> emitChainedOp(n, 2, 2)
      [] n.i.op = "CLD" -> Exec(0, 0, REG_EXEC_TEMP, 0, 2, PORTS_015) \o Exec(REG_EXEC_TEMP, 0, RFLAGS, 0, 2, PORTS_015)
      [] n.i.op = "CMPXCHG" -> emitCompareAndExchange(n)
      [] n.i.op = "XADD" -> emitChainedOp(n, 2, 2)
      [] OTHER -> emitBasicOp(n, 1, PORTS_015, 0)

SSE(n) ==
    CASE n.i.op = "ADDPD" -> emitBasicOp(n, 3, {1}, 0)
      [] n.i.op = "BLENDPS" -> emitBasicOp(n, 1, {5}, 0)
      [] n.i.op = "DIVPS" -> emitBasicOp(n, 7, {0}, 6)
      [] n.i.op = "MULSS" -> emitBasicOp(n, 4, {0}, 0)
      [] n.i.op = "MULSD" -> emitBasicOp(n, 5, {0}, 0)
      [] n.i.op = "RSQRTPS" -> emitBasicOp(n, 3, {1}, 1)
      [] n.i.op = "PADDB" -> emitBasicOp(n, 1, {0, 5}, 0)
      [] OTHER -> emitBasicOp(n, 4, {0}, 0)

Converts(n) ==
    CASE n.i.op = "CVTPD2PS" -> emitConvert2Op(n, 2, 2, {1}, {5})
      [] n.i.op = "CVTPS2PD" -> emitConvert2Op(n, 1, 1, {0}, {5})
      [] n.i.op = "CVTSS2SD" -> emitBasicOp(n, 1, {0}, 0)
      [] n.i.op = "CVTDQ2PS" -> emitBasicOp(n, 5, {1}, 0)
      [] n.i.op = "CVTDQ2PD" -> emitConvert2Op(n, 2, 4, {1}, {5})
      [] n.i.op = "CVTPI2PD" -> emitConvert2Op(n, 2, 4, {1}, {0, 5})
      [] n.i.op = "CVTSI2SD" -> emitConvert2Op(n, 2, 4, {1}, {0})
      [] n.i.op = "CBW" -> emitBasicOp(n, 1, PORTS_015, 0)
      [] OTHER -> emitBasicOp(n, 1, {0, 5}, 0)

ControlAndStack(n) ==
    CASE n.i.op \in {"POP", "PUSH"} -> emitBasicMove(n, PORTS_015)
      [] n.i.op = "POPF" -> emitBasicOp(n, 14, PORTS_015, 0)
      [] n.i.op = "PUSHF" -> emitChainedOp(n, 1, 1)
      [] n.i.op = "PREFETCH" -> emitLoads(n)
      [] OTHER -> emitBasicOp(n, 1, {5}, 0)

Add(reg) == Exec(reg, 0, reg, 0, 1, PORTS_015)
Strings(n) ==
    CASE n.i.op = "STOSB" -> emitStore(n, 0, RAX) \o Add(RDI)
      [] n.i.op = "LODSB" -> emitLoad(n, 0, RAX) \o Add(RSI)
      [] n.i.op = "MOVSB" -> emitLoad(n, 0, RAX) \o emitStore(n, 0, RAX) \o Add(RSI) \o Add(RDI)
      [] OTHER -> emitLoad(n, 0, REG_LOAD_TEMP) \o emitLoad(n, 0, REG_LOAD_TEMP + 1)
                    \o Exec(REG_LOAD_TEMP, REG_LOAD_TEMP + 1, RFLAGS, 0, 1, {5}) \o Add(RSI) \o Add(RDI)

Pause ==
    Slow(0, 0, 0, 0, 9, PORTS_015, 8) \o Slow(0, 0, 0, 0, 5, PORTS_015, 4) \o Slow(0, 0, 0, 0, 5, PORTS_015, 4)
      \o Slow(0, 0, 0, 0, 4, PORTS_015, 3) \o Slow(0, 0, 0, 0, 4, PORTS_015, 3)

MoveOps == {"BSWAP", "MOV", "MOVAPS", "MOVHPS", "MOVMSKPS", "XCHG", "CMOV", "FCMOV", "MOVNTI"}
ArithmeticOps == {"ADC", "MUL", "DIV", "ADD", "CMP", "TEST", "BSF", "RCR", "SHL", "SHLD", "SHRD", "LAHF", "CLD", "CMPXCHG", "XADD"}
SSEOps == {"ADDPD", "BLENDPS", "DIVPS", "MULSS", "MULSD", "RSQRTPS", "PADDB", "PMOVMSKB"}
ConvertOps == {"CVTPD2PS", "CVTPS2PD", "CVTSS2SD", "CVTDQ2PS", "CVTDQ2PD", "CVTPI2PD", "CVTSI2SD", "CBW", "CWD"}
ControlOps == {"JZ", "JO", "LOOP", "JMP", "CALL", "RET", "POP", "PUSH", "POPF", "PUSHF", "PREFETCH"}
StringOps == {"STOSB", "LODSB", "MOVSB", "CMPSB"}

\* The others, such as x87, AVX and system instructions, are not decoded.
Category(n) ==
    CASE n.i.op = "NOP" -> Exec(0, 0, 0, 0, 1, PORTS_015)
      [] n.i.op \in MoveOps -> Moves(n)
      [] n.i.op \in ArithmeticOps -> Arithmetic(n)
      [] n.i.op \in SSEOps -> SSE(n)
      [] n.i.op \in ConvertOps -> Converts(n)
      [] n.i.op \in ControlOps -> ControlAndStack(n)
      [] n.i.op \in StringOps -> Strings(n)
      [] n.i.op = "LEA" -> emitBasicOp(n, 1, {1}, 0)
      [] n.i.op = "PAUSE" -> Pause
      [] OTHER -> <<>>

\* What is not decoded is a basic operation; an atomic instruction is between fences.
Approximated(n, uops) == IF uops = <<>> THEN emitBasicOp(n, 1, PORTS_015, 0) ELSE uops
Locked(n, uops) == IF n.i.atomic THEN emitFence(0) \o uops \o emitFence(9) ELSE uops
decodeInstr(n) == Locked(n, Approximated(n, Category(n)))

\* A comparison of registers or memory and the branch that follows are one uop; not all branches follow CMP.
canFuse(i, next) ==
    /\ i.op \in {"CMP", "TEST"}
    /\ \A k \in DOMAIN i.operands : i.operands[k].kind # "imm"
    /\ next.op = "JZ" \/ (next.op = "JO" /\ i.op = "TEST")
decodeFusedInstrs(n, branch) ==
    emitBasicOp(IF n.outRegs = <<RFLAGS>> /\ branch.outRegs = <<RIP>> THEN [n EXCEPT !.outRegs = <<RFLAGS, RIP>>] ELSE n, 1, {5}, 0)

-----------------------------------------------------------------------------
(* Predecoding, 16 bytes and at most 6 instructions in a cycle; decoding,  *)
(* with one decoder for any instruction and others for short ones of a uop.*)
Predecoded(p, i, at) ==
    LET block == at \div 16 IN
    IF p.size + i.bytes > 16 \/ p.count = 6 \/ block > p.block
    THEN [cycle |-> p.cycle + 1, size |-> i.bytes, count |-> 1, block |-> block]
    ELSE [p EXCEPT !.size = @ + i.bytes, !.count = @ + 1]

simple(n, i) == n = 1 /\ i.bytes < 8
NextCycle(d, short) ==
    IF IF short THEN d.simple + d.complex = 4 ELSE d.complex = 1 THEN [cycle |-> d.cycle + 1, simple |-> 0, complex |-> 0] ELSE d
Arrived(d, pcycle) == IF pcycle > d.cycle THEN [cycle |-> pcycle, simple |-> 0, complex |-> 0] ELSE d
Counted(d, short) == IF short THEN [d EXCEPT !.simple = @ + 1] ELSE [d EXCEPT !.complex = @ + 1]
Decoded(d, n, i, pcycle) ==
    IF n = 0 THEN d ELSE Counted(NextCycle(Arrived(d, pcycle), simple(n, i)), simple(n, i))

Entry(i, uops, p, d) == [bytes |-> i.bytes, uops |-> uops, pre |-> p.cycle, block |-> p.block, dec |-> d.cycle]

\* A block goes on with fillers; any other instruction is alone in its block, or with its branch.
End == [op |-> "end", operands |-> <<>>, bytes |-> 0, atomic |-> FALSE, lockPrefix |-> FALSE]
Followers(i, n) ==
    {End} \cup (IF i \in Fillers /\ n < MaxInstrs THEN Fillers ELSE {})
          \cup (IF i.op \in {"CMP", "TEST"} THEN {b \in Shapes : canFuse(i, b)} ELSE {})

DecoderInit ==
    /\ ins \in Shapes \cup Fillers /\ last = <<>> /\ uopVec = <<>> /\ addr \in Offsets
    /\ pre = [cycle |-> 0, size |-> 0, count |-> 0, block |-> 0]
    /\ dec = [cycle |-> 0, simple |-> 0, complex |-> 0]
    /\ decoded = <<>>

DecodeIns ==
    /\ uopVec' = decodeInstr(Instr(ins)) /\ last' = <<ins>>
    /\ pre' = Predecoded(pre, ins, addr)
    /\ dec' = Decoded(dec, Len(uopVec'), ins, pre'.cycle)
    /\ decoded' = Append(decoded, Entry(ins, Len(uopVec'), pre', dec'))
    /\ addr' = addr + ins.bytes
    /\ \E next \in Followers(ins, Len(decoded')) : ~canFuse(ins, next) /\ ins' = next

\* Every pass for the comparison, and the predecoder alone for the branch.
DecodeFused(branch) ==
    LET p == Predecoded(pre, ins, addr) IN
    /\ canFuse(ins, branch)
    /\ uopVec' = decodeFusedInstrs(Instr(ins), Instr(branch)) /\ last' = <<ins, branch>>
    /\ pre' = Predecoded(p, branch, addr + ins.bytes)
    /\ dec' = Decoded(dec, Len(uopVec'), ins, p.cycle)
    /\ decoded' = decoded \o <<Entry(ins, Len(uopVec'), p, dec'), Entry(branch, 0, pre', dec')>>
    /\ addr' = addr + ins.bytes + branch.bytes
    /\ ins' \in Followers(branch, Len(decoded'))

DecoderNext ==
    /\ ins # End
    /\ DecodeIns \/ \E branch \in Followers(ins, MaxInstrs) : DecodeFused(branch)

-----------------------------------------------------------------------------
Places(P(_)) == {k \in DOMAIN uopVec : P(uopVec[k])}

\* What a thread reports of an instruction: a load for each operand it reads in memory, and a store.
Reported(kind) ==
    FoldLeft(LAMBDA n, i : n + Len(IF kind = "load" THEN Instr(i).loads ELSE Instr(i).stores), 0, last)

\* The core asserts that a block has as many load and store uops as its thread reports, and a block
\* is decoded without a failed assertion, an instruction into fewer uops than there is room for.
MemOpsMatch ==
    /\ \A kind \in {"load", "store"} : Cardinality(Places(LAMBDA u : u.type = kind)) = Reported(kind)
    /\ Places(LAMBDA u : u.type = "assert") = {}
    /\ Len(uopVec) < MAX_UOPS_PER_INSTR

\* A temporary is written by an earlier uop of the instruction that reads it: otherwise a uop would
\* wait for another instruction.  A store follows its address.
TemporariesAreLocal ==
    \A k \in DOMAIN uopVec, s \in 1 .. 2 :
        uopVec[k].rs[s] > REG_LAST => \E j \in 1 .. k - 1, d \in 1 .. 2 : uopVec[j].rd[d] = uopVec[k].rs[s]

\* What an instruction writes, a uop of it writes, when it has no more than two results; what it
\* reads, a uop reads, when it has no more than two sources.  But a conditional move from memory loads
\* into a temporary, and no uop writes its register.
NothingLost ==
    Len(last) = 1 /\ ~(last[1].op \in {"CMOV", "FCMOV"} /\ Mem(last[1]) # <<>>) =>
        LET n == Instr(last[1]) IN
        /\ dsts(n) <= 2 => \A k \in DOMAIN n.outRegs : Places(LAMBDA u : n.outRegs[k] \in {u.rd[1], u.rd[2]}) # {}
        /\ srcs(n) <= 2 => \A k \in DOMAIN n.inRegs : Places(LAMBDA u : n.inRegs[k] \in {u.rs[1], u.rs[2]}) # {}
        /\ n.i.atomic => {1, Len(uopVec)} \subseteq Places(LAMBDA u : u.type = "fence")

\* The core takes the difference of the cycles of one uop and the next as unsigned: they never go
\* back.  No instruction is decoded before it is predecoded.
CyclesInOrder ==
    LET uops == SelectSeq(decoded, LAMBDA e : e.uops > 0) IN
    /\ \A k \in 2 .. Len(uops) : uops[k - 1].dec <= uops[k].dec
    /\ \A k \in DOMAIN uops : uops[k].pre <= uops[k].dec

\* In a cycle, the predecoder takes 16 bytes and 6 instructions that begin in one block; the decoders
\* take one long instruction, and four in all.  But four short ones with a long one after them are five,
\* and no bound on the short ones that follow: the code tests for four, not for less than four.
WithinWidth ==
    \A c \in 0 .. Len(decoded) :
        LET taken == {k \in DOMAIN decoded : decoded[k].pre = c}
            issued == SelectSeq(decoded, LAMBDA e : e.dec = c /\ e.uops > 0)
            long == {k \in DOMAIN issued : issued[k].uops > 1 \/ issued[k].bytes >= 8}
        IN /\ Cardinality(taken) <= 6 /\ FoldSet(LAMBDA k, n : n + decoded[k].bytes, 0, taken) <= 16
           /\ \A j, k \in taken : decoded[j].block = decoded[k].block
           /\ Cardinality(long) <= 1 /\ (Len(issued) <= 4 \/ long = {5})

DecoderSound == MemOpsMatch /\ TemporariesAreLocal /\ NothingLost /\ CyclesInOrder /\ WithinWidth
=============================================================================

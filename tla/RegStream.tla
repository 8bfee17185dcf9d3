----------------------------- MODULE RegStream -----------------------------
(***************************************************************************)
(* The register stream of one matmul (charsiu_emit_job in src/job.c) and   *)
(* the two ways a finished stream is edited: the weight address patched    *)
(* into it, and a captured stream's values merged over it.                 *)
(*                                                                         *)
(* A stream is a sequence of <<unit, register, value>>.  Registers whose   *)
(* value is a constant of the hardware are left out; a register of two     *)
(* halves holds a pair.  A job is a record: mm the matmul, window the part *)
(* of the CBUF it uses, axis the CHARSIU_M_AXIS in force, and the four     *)
(* addresses in, weight, out and coef.                                     *)
(***************************************************************************)
EXTENDS Layouts, SequencesExt

CONSTANT W1Bank      \* CHARSIU_CBUF_W1_BANK: where window 1 starts, in banks

Bank == 1024         \* CBUF entries in a bank
Banks == 14

ASSUME W1BankAssumption == W1Bank \in 1..(Banks - 1)

(* 64-byte CBUF entries that one column of the input takes.                *)
EntriesPerRow(mm) ==
    LET atoms == (mm.k + FeatureAtom(EffectiveAtype(mm)) - 1)
                     \div FeatureAtom(EffectiveAtype(mm))
    IN atoms \div 4 + (IF atoms % 4 = 0 THEN 0 ELSE 1)

(* The axis that carries the rows: what the knob says, or the format's.    *)
AxisWide(job) == job.axis = "w" \/ (job.axis = "unset" /\ job.mm.w = "int4")
Wide(job) == job.mm.m > 1 /\ AxisWide(job)
Inw(job) == IF Wide(job) THEN job.mm.m ELSE 1
Rows(job) == IF Wide(job) THEN 1 ELSE job.mm.m
Surf(job) == EntriesPerRow(job.mm) * Inw(job)

(* The split window: more of it for data and less for weights.             *)
Split(job) == Wide(job) /\ Surf(job) * Rows(job) > 4096

Start(job) == IF job.window = 1 THEN W1Bank * Bank ELSE 0
EndBank(job) ==
    IF job.window = 1 THEN Smaller(W1Bank + 7, Banks) ELSE 7

WeightBytes(mm) ==
    CASE mm.w = "int4" -> WeightElements(mm) \div 2
      [] mm.w = "int8" -> WeightElements(mm)
      [] mm.w = "fp16" -> WeightElements(mm) * 2

(* Bytes per kernel, doubled for int8 alone.                               *)
KernelBytes(mm) ==
    (WeightBytes(mm) \div NPad(mm)) * (IF mm.w = "int8" THEN 2 ELSE 1)

-----------------------------------------------------------------------------
Pointers(job) ==
    <<<<"CNA", "1004", 14>>, <<"CORE", "3004", 14>>, <<"CNA", "1038", EndBank(job)>>,
      <<"DPU", "4004", 14>>, <<"RDMA", "5004", 14>>>>

Fetch(job) ==
    LET mm == job.mm
    IN <<<<"CNA", "100c", <<mm.w, EffectiveAtype(mm)>>>>,
         <<"CNA", "1018", Start(job) \div Bank + 4 + (IF Split(job) THEN 1 ELSE 0)>>,
         <<"CNA", "101c", WeightBytes(mm)>>,
         <<"CNA", "1020", WeightBytes(mm) \div NPad(mm)>>,
         <<"CNA", "1024", NPad(mm) - 1>>,
         <<"CNA", "1028", <<Surf(job) * Rows(job), KEff(mm) - 1>>>>,
         <<"CNA", "102c", <<Inw(job) - 1, Rows(job) - 1>>>>,
         <<"CNA", "1030", <<KernelBytes(mm), Inw(job) - 1>>>>,
         <<"CNA", "1034", Inw(job) * Rows(job) - 1>>>>

(* Where the window begins, where its data ends, and how it is walked.     *)
Cbuf(job) ==
    LET bound == Start(job) + 4 * Bank + (IF Split(job) THEN Bank ELSE 0)
    IN <<<<"CNA", "1038", EndBank(job)>>,
         <<"CNA", "103c", <<Surf(job), Start(job)>>>>,
         <<"CNA", "1040", <<bound, Start(job)>>>>,
         <<"CNA", "1044", <<Inw(job), Surf(job)>>>>>>

Feature(job) ==
    LET fp16 == job.mm.w = "fp16"
    IN <<<<"CNA", "1078", <<Inw(job) - 1, Rows(job) - 1>>>>,
         <<"CNA", "107c", KEff(job.mm) - 1>>,
         <<"CNA", "1088", job.in>>,
         <<"CNA", "1090", IF fp16 THEN job.mm.k \div 8 ELSE Inw(job) * 4>>,
         <<"CNA", "1094", IF fp16 THEN 1 ELSE Inw(job) * Rows(job)>>,
         <<"CNA", "1098", AlignUp(Inw(job) * Rows(job), 4)>>,
         <<"CNA", "1110", job.weight>>,
         <<"CNA", "118c", IF fp16 THEN <<0, 0>>
                          ELSE <<Inw(job) - 1,
                                 IF Wide(job) THEN Inw(job) - 1 ELSE Rows(job) - 1>>>>>>

(* The block at 0x2810, which int4 and fp16 jobs write.                    *)
WindowBlock(job) ==
    IF job.mm.w = "int8" THEN <<>>
    ELSE <<<<"U28", "2818", Start(job)>>, <<"U28", "2820", (Start(job) \div Bank) * 8>>>>

Core(job) ==
    LET mm == job.mm
        lines == (IF Wide(job) THEN Inw(job) ELSE Rows(job)) - 1
    IN <<<<"CORE", "3018", IF mm.w = "int8" THEN "multiply bytes" ELSE "multiply halves">>,
         <<"CORE", "301c", IF Wide(job) THEN <<Rows(job) - 1, Inw(job) - 1>>
                           ELSE IF mm.w = "int4" THEN <<0, lines>> ELSE <<lines, 0>>>>,
         <<"CORE", "3020", mm.n - 1>>>>

(* The output stage: floats leave the accumulator, a byte is requantised.  *)
Output(job) ==
    LET mm == job.mm
        float == mm.w # "int8" \/ job.accOut
        fp16 == mm.w = "fp16"
        lines == (IF Wide(job) THEN Inw(job) ELSE Rows(job)) - 1
    IN <<<<"DPU", "4010", IF float THEN "float" ELSE "byte">>,
         <<"DPU", "4018", job.out>>,
         <<"DPU", "401c", IF fp16 THEN 1 ELSE Inw(job) * Rows(job)>>,
         <<"DPU", "4020", IF fp16 THEN 0 ELSE Inw(job) - 1>>,
         <<"DPU", "4024", IF Wide(job) THEN Rows(job) - 1 ELSE lines>>,
         <<"DPU", "4028", IF fp16 THEN mm.n \div 4 - 1 ELSE 0>>,
         <<"DPU", "402c", mm.n - 1>>,
         <<"DPU", "4030", mm.n - 1>>,
         <<"DPU", "4034", IF Wide(job) THEN <<Rows(job) - 1, Inw(job) - 1>>
                          ELSE <<lines, 0>>>>,
         <<"DPU", "40ac", IF float THEN "identity" ELSE "requantise">>>>

(* What is added to the address of the output from one surface to the next.*)
SurfaceStep(job) ==
    LET mm == job.mm
        batch == IF Wide(job) THEN Inw(job) ELSE Rows(job)
    IN <<<<"DPU", "40b8", IF mm.w = "fp16"
                          THEN mm.n \div 4 + 3 - (mm.m * mm.n) \div 4
                          ELSE IF job.accOut THEN 3 * batch ELSE Inw(job) * Rows(job)>>>>

(* Where the coefficients are read from.                                   *)
Coefficients(job) ==
    LET mm == job.mm
    IN <<<<"RDMA", "5010", (IF Wide(job) THEN Inw(job) ELSE Rows(job)) - 1>>,
         <<"RDMA", "5014", mm.n - 1>>,
         <<"RDMA", "5020", job.coef>>,
         <<"RDMA", "5024", job.coef + OperandAt(mm)>>>>

(* Each unit is started at its own enable, in order, once all is set.      *)
Enable ==
    <<<<"CNA", "1008", 29>>, <<"CORE", "3008", 29>>,
      <<"DPU", "4008", 29>>, <<"RDMA", "5008", 29>>>>

Stream(job) ==
    Pointers(job) \o Fetch(job) \o Cbuf(job) \o Feature(job) \o WindowBlock(job)
        \o Core(job) \o Output(job) \o SurfaceStep(job) \o Coefficients(job) \o Enable

-----------------------------------------------------------------------------
(* charsiu_patch_weight_addr: the stream and how many words it changed.    *)
PatchWeightAddr(s, addr) ==
    LET hit(i) == s[i][1] = "CNA" /\ s[i][2] = "1110"
    IN [stream |-> [i \in DOMAIN s |-> IF hit(i) THEN <<"CNA", "1110", addr>> ELSE s[i]],
        hits |-> Cardinality({i \in DOMAIN s : hit(i)})]

OurAddresses == {"1088", "1110", "4018"}

At(s, reg) == {i \in DOMAIN s : s[i][2] = reg}
FirstAt(s, reg) == CHOOSE i \in At(s, reg) : \A j \in At(s, reg) : i <= j

(* merge_vendor_values: a register both write takes the captured value, at *)
(* the first place it is written; one that only the capture writes goes in *)
(* before the enables, which begin at at.                                  *)
MergeOne(m, v) ==
    IF v[2] \in OurAddresses THEN m
    ELSE IF At(m.s, v[2]) # {} THEN [m EXCEPT !.s[FirstAt(m.s, v[2])] = v]
    ELSE [s |-> InsertAt(m.s, m.at, v), at |-> m.at + 1]

MergeFrom(s, vendor, at) ==
    LET after[n \in 0..Len(vendor)] ==
          IF n = 0 THEN [s |-> s, at |-> at] ELSE MergeOne(after[n - 1], vendor[n])
    IN after[Len(vendor)].s

(* Mutant: what the capture adds goes at the end.                          *)
EnableAtEnd(s) == Len(s) + 1

EnableAt(s) == IF At(s, "1008") = {} THEN Len(s) + 1 ELSE FirstAt(s, "1008")

MergeVendor(s, vendor) == MergeFrom(s, vendor, EnableAt(s))

-----------------------------------------------------------------------------
(* What npudev.c lets through to the batched path: an input surface the    *)
(* window can hold.                                                        *)
SurfaceAdmitted(job) ==
    (job.mm.k \div 32) * job.mm.m <= (IF AxisWide(job) THEN 5120 ELSE 8192)
=============================================================================
